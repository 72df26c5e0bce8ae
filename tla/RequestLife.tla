----------------------------- MODULE RequestLife -----------------------------
(***************************************************************************)
(* What the inbox ledger promises about a request, without turns, crashes  *)
(* or journals: it is accepted once, stays pending until it is settled,    *)
(* and is forgotten only after that; only a forgotten request is accepted  *)
(* again.                                                                  *)
(***************************************************************************)
CONSTANT Requests
VARIABLE status

Init == status = [r \in Requests |-> "unknown"]

Move(S, from, to) ==
    /\ \A r \in S : status[r] = from
    /\ status' = [r \in Requests |-> IF r \in S THEN to ELSE status[r]]

Accept(S) == Move(S, "unknown", "pending")
Settle(S) == Move(S, "pending", "settled")
Forget(S) == Move(S, "settled", "unknown")

Next == \E S \in SUBSET Requests : Accept(S) \/ Settle(S) \/ Forget(S)

Spec == Init /\ [][Next]_status
=============================================================================
