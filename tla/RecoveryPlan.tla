----------------------------- MODULE RecoveryPlan -----------------------------
(***************************************************************************)
(* The decisions of crash recovery, as pure operators over the records of  *)
(* one session's run journal: the inbox ledger folded from it              *)
(* (session/inbox.rs), what is still open and what may be pruned           *)
(* (agent/recovery.rs), and which unfinished turn is resumed               *)
(* (agent/resume.rs).                                                      *)
(*                                                                         *)
(* A journal is a sequence of records.  Tool records are left to           *)
(* ToolRecovery.  `live` stands for the comparison of a record's time with *)
(* the start of the running process: TRUE when this process wrote it.      *)
(***************************************************************************)
EXTENDS Integers, Sequences, FiniteSets, SequencesExt

CONSTANTS
    MaxAttempts,   \* durability.maxResumeAttempts
    LedgerMax      \* durability.ledgerMaxEntries

ASSUME LimitsAssumption == MaxAttempts \in Nat /\ LedgerMax \in Nat

NoOutcome == -1    \* a ledger record without a reply
Inbox(r, s, o, m) ==
    [kind |-> "inbox", req |-> r, state |-> s, outcome |-> o, message |-> m, live |-> TRUE]
TurnStart(t, r, a, u) ==
    [kind |-> "turn_start", turn |-> t, req |-> r, attempt |-> a, user |-> u, live |-> TRUE]
StepCheckpoint(t, p) ==
    [kind |-> "step_checkpoint", turn |-> t, payload |-> p, live |-> TRUE]
TurnEnd(t, o) == [kind |-> "turn_end", turn |-> t, outcome |-> o, live |-> TRUE]
TurnRestored(t) == [kind |-> "turn_restored", turn |-> t, live |-> TRUE]

Is(k, rec) == rec.kind = k
Records(j, k) == {i \in DOMAIN j : Is(k, j[i])}
TurnsWith(j, k) == {j[i].turn : i \in Records(j, k)}
(* The numbers of a set in increasing order, and the elements of a sequence at
   these positions. *)
Rank(S, i) == Cardinality({k \in S : k <= i})
InOrder(S) == [n \in 1..Cardinality(S) |-> CHOOSE i \in S : Rank(S, i) = n]
Part(s, S) == LET order == InOrder(S) IN [n \in 1..Cardinality(S) |-> s[order[n]]]
Last1(I) == CHOOSE i \in I : \A k \in I : k <= i
First1(I) == CHOOSE i \in I : \A k \in I : i <= k

--------------------------------------------------------------------------------
(* The inbox ledger *)

RecordsOf(j, r) == {i \in Records(j, "inbox") : j[i].req = r}
InLedger(j, r) == RecordsOf(j, r) # {}

(* Mutant of Entry: the message is taken from the last record only. *)
EntryOfLastRecord(j, r) ==
    LET I == RecordsOf(j, r)
        answered == {i \in I : j[i].outcome # NoOutcome}
    IN [req |-> r,
        state |-> j[Last1(I)].state,
        outcome |-> IF answered = {} THEN NoOutcome ELSE j[Last1(answered)].outcome,
        message |-> j[Last1(I)].message,
        live |-> j[Last1(I)].live]

(* fold_entries: the state is the last record's; an outcome stays until the
   next one; the message is forgotten at the first `done` after it. *)
Entry(j, r) ==
    LET I == RecordsOf(j, r)
        answered == {i \in I : j[i].outcome # NoOutcome}
    IN [req |-> r,
        state |-> j[Last1(I)].state,
        outcome |-> IF answered = {} THEN NoOutcome ELSE j[Last1(answered)].outcome,
        message |-> \E i \in I : /\ j[i].message
                                 /\ \A k \in I : k >= i => j[k].state # "done",
        live |-> j[Last1(I)].live]

Ledger(j) ==
    LET firsts == Part(j, {i \in Records(j, "inbox") :
                              \A k \in Records(j, "inbox") : j[k].req = j[i].req => i <= k})
    IN [n \in DOMAIN firsts |-> Entry(j, firsts[n].req)]

Pending(j) ==
    LET ledger == Ledger(j)
    IN Part(ledger, {n \in DOMAIN ledger : ledger[n].state # "done"})

(* Mutant of Retained: eviction does not look at the state. *)
RetainedNewest(ledger) ==
    SubSeq(ledger, 1 + (IF Len(ledger) > LedgerMax THEN Len(ledger) - LedgerMax ELSE 0),
           Len(ledger))

(* retained_entries: beyond the limit the oldest `done` entries go, never an
   unfinished one.  (Eviction by age is not modelled.) *)
Retained(ledger) ==
    LET excess == Len(ledger) - LedgerMax
        done == {n \in DOMAIN ledger : ledger[n].state = "done"}
        evicted == {n \in done : Cardinality({m \in done : m <= n}) <= excess}
    IN Part(ledger, DOMAIN ledger \ evicted)

(* InboxLedger::compact: the other records, then one record per entry kept. *)
CompactedLedger(j) ==
    LET kept == Retained(Ledger(j))
    IN Part(j, DOMAIN j \ Records(j, "inbox")) \o
       [n \in DOMAIN kept |->
          [Inbox(kept[n].req, kept[n].state, kept[n].outcome, kept[n].message)
             EXCEPT !.live = kept[n].live]]

--------------------------------------------------------------------------------
(* Open turns *)

Ended(j) == TurnsWith(j, "turn_end") \cup TurnsWith(j, "turn_restored")
Unfinished(j) == TurnsWith(j, "turn_start") \ Ended(j)

(* Mutant of Settled: a completed turn counts as missing. *)
SettledIfFailed(j) ==
    {j[i].turn : i \in {k \in Records(j, "turn_end") : j[k].outcome = "failed"}}
    \cup TurnsWith(j, "turn_restored")

(* turns_to_restore: their messages are missing from the transcript. *)
Settled(j) ==
    {j[i].turn : i \in {k \in Records(j, "turn_end") :
                            j[k].outcome \in {"completed", "failed"}}}
    \cup TurnsWith(j, "turn_restored")
ToRestore(j) == TurnsWith(j, "turn_start") \ Settled(j)

StartOf(j, t) == j[First1({i \in Records(j, "turn_start") : j[i].turn = t})]

(* turn_messages_for_restore: the latest checkpoint, else the user message
   (a sequence, empty when the turn has none). *)
RestoredMessages(j, t) ==
    LET checkpoints == {i \in Records(j, "step_checkpoint") : j[i].turn = t}
    IN IF checkpoints # {} THEN j[Last1(checkpoints)].payload
       ELSE StartOf(j, t).user

(* prune_journal keeps the ledger and the records of open turns. *)
Open(j) == ToRestore(j) \cup Unfinished(j)
Pruned(j) ==
    LET open == Open(j)
    IN Part(j, {i \in DOMAIN j : Is("inbox", j[i]) \/ j[i].turn \in open})

--------------------------------------------------------------------------------
(* Startup *)

(* plan_resumes and plan_session: turns of this process are in flight, only
   the newest of the others is resumed, the rest are abandoned. *)
Interrupted(j) == {t \in Unfinished(j) : ~StartOf(j, t).live}
Newest(S) == CHOOSE t \in S : \A u \in S : u <= t
(* Mutant of CanResume: off by one. *)
CanResumeOnceMore(j, t) == StartOf(j, t).attempt <= MaxAttempts
CanResume(j, t) == StartOf(j, t).attempt < MaxAttempts
ToResume(j) ==
    {t \in Interrupted(j) : t = Newest(Interrupted(j)) /\ CanResume(j, t)}
ToAbandon(j) == Interrupted(j) \ ToResume(j)

(* plan_redrive for one entry *)
TurnsOf(j, r) == {j[i].turn : i \in {k \in Records(j, "turn_start") : j[k].req = r}}
(* Mutants of RedriveAction: the turn that resumes the request is forgotten;
   an ended turn does not close its request. *)
RedriveActionUnstarted(j, e) == IF e.message THEN "redrive" ELSE "close"
RedriveActionKeeps(j, e) ==
    IF TurnsOf(j, e.req) # {} THEN "keep" ELSE IF e.message THEN "redrive" ELSE "close"
RedriveAction(j, e) ==
    IF TurnsOf(j, e.req) = {}
    THEN IF e.message THEN "redrive" ELSE "close"
    ELSE IF TurnsOf(j, e.req) \subseteq Ended(j) THEN "close" ELSE "keep"

(* redrive_pending_inbound skips what this process touched. *)
RedrivePlan(j) ==
    LET pending == Pending(j)
        old == Part(pending, {n \in DOMAIN pending : ~pending[n].live})
    IN [n \in DOMAIN old |-> [action |-> RedriveAction(j, old[n]), entry |-> old[n]]]
=============================================================================
