------------------------- MODULE ToolRecovery_proofs -------------------------
(***************************************************************************)
(* Proofs about ToolRecovery, for any set of calls, any number of restarts *)
(* and both journal modes.                                                 *)
(***************************************************************************)
EXTENDS ToolRecovery, TLAPS

(* Two appends in a row, as Refuse does: the intent, then the Blocked record. *)
LEMMA RefuseFacts ==
    ASSUME NEW s \in CallStates,
           NEW t, t \in AfterAppend(s, "intent", 0),
           NEW b, b \in AfterAppend(t, "blocked", 0)
    PROVE  /\ b \in CallStates
           /\ b.status = "done" <=> s.status = "done"
           /\ s.status = "done" => b.result = s.result
           /\ s.intents <= b.intents /\ b.intents <= s.intents + 1
<1>1. t = s \/ t = Fold(s, "intent", 0)
  BY DEF AfterAppend
<1>2. t \in CallStates
  BY <1>1 DEF Fold, Terminal, CallStates, Statuses
<1>3. /\ t.status = "done" <=> s.status = "done"
      /\ s.status = "done" => t.result = s.result
      /\ s.intents <= t.intents /\ t.intents <= s.intents + 1
  <2>1. CASE t = s
    BY <2>1 DEF CallStates
  <2>2. CASE t = Fold(s, "intent", 0)
    BY <2>2 DEF Fold, Statuses, Terminal, CallStates
  <2>3. QED
    BY <1>1, <2>1, <2>2
<1>4. b = t \/ b = Fold(t, "blocked", 0)
  BY DEF AfterAppend
<1>5. CASE b = t
  BY <1>2, <1>3, <1>5
<1>6. CASE b = Fold(t, "blocked", 0)
  <2>1. /\ b \in CallStates
        /\ b.status = IF Terminal(t) THEN t.status ELSE "blocked"
        /\ b.intents = t.intents
        /\ b.result = IF Terminal(t) THEN t.result ELSE 0
    BY <1>2, <1>6 DEF Fold, Terminal, CallStates, Statuses
  <2>2. QED
    BY <1>3, <2>1 DEF Terminal
<1>7. QED
  BY <1>4, <1>5, <1>6

--------------------------------------------------------------------------------
(* Type correctness *)

THEOREM TypeCorrect == Spec => []TypeOK
<1>1. Init => TypeOK
  BY DEF Init, TypeOK, NoRecord, CallStates, Statuses, Phases, Procs, NotShown, Modes
<1>2. TypeOK /\ [Next]_vars => TypeOK'
  <2> SUFFICES ASSUME TypeOK, [Next]_vars PROVE TypeOK'
    OBVIOUS
  <2>1. ASSUME NEW c \in Calls, Deny(c) PROVE TypeOK'
    <3>1. PICK s \in AfterAppend(log[c], "blocked", 0) : log' = [log EXCEPT ![c] = s]
      BY <2>1 DEF Deny
    <3>2. s \in CallStates
      BY <3>1 DEF AfterAppend, TypeOK, Fold, Terminal, CallStates, Statuses
    <3>3. QED
      BY <2>1, <3>1, <3>2 DEF Deny, TypeOK, Phases
  <2>2. ASSUME NEW c \in Calls, Begin(c) PROVE TypeOK'
    <3>1. Fold(log[c], "intent", 0) \in CallStates
      BY DEF TypeOK, Fold, Terminal, CallStates, Statuses
    <3>2. QED
      BY <2>2, <3>1 DEF Begin, TypeOK, Phases
  <2>3. ASSUME NEW c \in Calls, BeginUnjournaled(c) PROVE TypeOK'
    <3>1. PICK s \in AfterAppend(log[c], "intent", 0) :
             /\ log' = [log EXCEPT ![c] = s]
             /\ unrecorded' = [unrecorded EXCEPT ![c] = IF s = log[c] THEN @ + 1 ELSE @]
      BY <2>3 DEF BeginUnjournaled
    <3>2. s \in CallStates
      BY <3>1 DEF AfterAppend, TypeOK, Fold, Terminal, CallStates, Statuses
    <3>3. unrecorded' \in [Calls -> Nat]
      BY <3>1 DEF TypeOK
    <3>4. QED
      BY <2>3, <3>1, <3>2, <3>3 DEF BeginUnjournaled, TypeOK, Phases
  <2>4. ASSUME NEW c \in Calls, Refuse(c) PROVE TypeOK'
    <3>1. PICK s \in AfterAppend(log[c], "intent", 0) :
             \E b \in AfterAppend(s, "blocked", 0) : log' = [log EXCEPT ![c] = b]
      BY <2>4 DEF Refuse
    <3>2. PICK b \in AfterAppend(s, "blocked", 0) : log' = [log EXCEPT ![c] = b]
      BY <3>1
    <3>3. b \in CallStates
      BY <3>1, <3>2, RefuseFacts DEF TypeOK
    <3>4. QED
      BY <2>4, <3>2, <3>3 DEF Refuse, TypeOK, Phases
  <2>5. ASSUME NEW c \in Calls, Execute(c) PROVE TypeOK'
    BY <2>5 DEF Execute, TypeOK, Phases
  <2>6. ASSUME NEW c \in Calls, Finish(c) PROVE TypeOK'
    <3>1. PICK s \in AfterAppend(log[c], "done", executions[c]) : log' = [log EXCEPT ![c] = s]
      BY <2>6 DEF Finish
    <3>2. s \in CallStates
      BY <3>1 DEF AfterAppend, TypeOK, Fold, Terminal, CallStates, Statuses
    <3>3. QED
      BY <2>6, <3>1, <3>2 DEF Finish, TypeOK, Phases
  <2>7. CASE CompleteBatch
    BY <2>7 DEF CompleteBatch, TypeOK, Procs, Refused
  <2>8. CASE Stop
    <3>1. PICK lost : log' = [c \in Calls |-> IF Active(c) /\ c \notin lost
                                 THEN Fold(log[c], "cancelled", 0) ELSE log[c]]
      BY <2>8 DEF Stop
    <3>2. log' \in [Calls -> CallStates]
      BY <3>1 DEF TypeOK, Fold, Terminal, CallStates, Statuses
    <3>3. QED
      BY <2>8, <3>2 DEF Stop, TypeOK, Procs, Phases
  <2>9. CASE Kill
    BY <2>9 DEF Kill, TypeOK, Procs, Phases
  <2>10. CASE Resume
    BY <2>10, CallsAssumption DEF Resume, TypeOK, Procs
  <2>11. CASE Merge
    <3>1. \A c \in Calls : RecoveredContent(c) \in Int
      BY DEF TypeOK, RecoveredContent, CallStates, Interrupted, Refused
    <3>2. QED
      BY <2>11, <3>1 DEF Merge, TypeOK, Procs
  <2>12. CASE UNCHANGED vars
    BY <2>12 DEF vars, TypeOK
  <2>13. QED
    BY <2>1, <2>2, <2>3, <2>4, <2>5, <2>6, <2>7, <2>8, <2>9, <2>10, <2>11, <2>12 DEF Next
<1>3. QED
  BY <1>1, <1>2, PTL DEF Spec

--------------------------------------------------------------------------------
(* Unsafe calls *)

(* Why an unsafe call runs at most once: only the original process begins it,
   and there it has not run before it is begun; recovery never lists it. *)
UnsafeInv ==
    \A c \in Calls \ Safe :
        /\ c \notin todo
        /\ phase[c] = "begun" => proc = "run"
        /\ proc = "run" /\ phase[c] \in {"idle", "begun", "refused"} => executions[c] = 0
        /\ executions[c] <= 1

(* An unsafe call is executed at most once, for any calls, restarts, journal
   mode and failing appends. *)
THEOREM UnsafeRunsOnce == Spec => []UnsafeAtMostOnce
<1>1. Init => UnsafeInv
  <2>1. ASSUME Init, NEW c \in Calls \ Safe
        PROVE  c \notin todo /\ phase[c] = "idle" /\ proc = "run" /\ executions[c] = 0
    BY <2>1 DEF Init
  <2>2. 0 <= 1
    OBVIOUS
  <2>3. QED
    BY <2>1, <2>2 DEF UnsafeInv
<1>2. TypeOK /\ UnsafeInv /\ [Next]_vars => UnsafeInv'
  <2> SUFFICES ASSUME TypeOK, UnsafeInv, [Next]_vars, NEW u \in Calls \ Safe
               PROVE  /\ u \notin todo'
                      /\ phase'[u] = "begun" => proc' = "run"
                      /\ proc' = "run" /\ phase'[u] \in {"idle", "begun", "refused"}
                            => executions'[u] = 0
                      /\ executions'[u] <= 1
    BY DEF UnsafeInv
  <2>1. ASSUME NEW c \in Calls, Deny(c) \/ Begin(c) \/ BeginUnjournaled(c) \/ Refuse(c)
        PROVE  /\ proc' = proc /\ executions' = executions /\ todo' \subseteq todo
               /\ u # c => phase'[u] = phase[u]
               /\ u = c => proc = "run" /\ phase[u] = "idle"
    BY <2>1 DEF Deny, Begin, BeginUnjournaled, Refuse, MayBegin, TypeOK, UnsafeInv
  <2>2. CASE \E c \in Calls : Deny(c) \/ Begin(c) \/ BeginUnjournaled(c) \/ Refuse(c)
    BY <2>1, <2>2 DEF TypeOK, UnsafeInv
  <2>3. ASSUME NEW c \in Calls, Execute(c) PROVE UnsafeInv'
    BY <2>3 DEF Execute, TypeOK, UnsafeInv
  <2>4. ASSUME NEW c \in Calls, Finish(c) PROVE UnsafeInv'
    BY <2>4 DEF Finish, TypeOK, UnsafeInv
  <2>5. CASE CompleteBatch
    BY <2>5 DEF CompleteBatch, TypeOK, UnsafeInv
  <2>6. CASE Stop
    BY <2>6 DEF Stop, TypeOK, UnsafeInv
  <2>7. CASE Kill
    BY <2>7 DEF Kill, TypeOK, UnsafeInv
  <2>8. CASE Resume
    BY <2>8 DEF Resume, TypeOK, UnsafeInv
  <2>9. CASE Merge
    BY <2>9 DEF Merge, TypeOK, UnsafeInv
  <2>10. CASE UNCHANGED vars
    BY <2>10 DEF vars, UnsafeInv
  <2>11. QED
    BY <2>2, <2>3, <2>4, <2>5, <2>6, <2>7, <2>8, <2>9, <2>10 DEF Next, UnsafeInv
<1>3. UnsafeInv => UnsafeAtMostOnce
  BY DEF UnsafeInv, UnsafeAtMostOnce
<1>4. QED
  BY <1>1, <1>2, <1>3, TypeCorrect, PTL DEF Spec

--------------------------------------------------------------------------------
(* Finished calls *)

(* What is left to replay is interrupted; a call whose outcome is recorded is
   neither begun nor left to do, and its record is of its last execution. *)
FinishedCall(c) ==
    /\ c \in todo => proc = "replay" /\ phase[c] = "idle" /\ log[c].status = "intent"
    /\ proc = "run" /\ phase[c] = "idle" => log[c].status # "done"
    /\ proc = "down" => phase[c] = "idle"
    /\ phase[c] = "begun" => log[c].status # "done"
    /\ log[c].status = "done" => log[c].result = executions[c]
    /\ proc \in {"run", "down", "replay", "cancelled"} => shown[c] <= 0
    /\ shown[c] > 0 => shown[c] = executions[c]
FinishedInv == \A c \in Calls : FinishedCall(c)

(* A record other than "done" leaves the finished calls as they are. *)
LEMMA OtherRecords ==
    ASSUME NEW s \in CallStates, NEW st \in {"intent", "blocked", "cancelled"}
    PROVE  /\ Fold(s, st, 0).status = "done" <=> s.status = "done"
           /\ s.status = "done" => Fold(s, st, 0).result = s.result
BY DEF Fold, Terminal, CallStates, Statuses

LEMMA FinishedPreserved == TypeOK /\ FinishedInv /\ [Next]_vars => FinishedInv'
<1> SUFFICES ASSUME TypeOK, FinishedInv, [Next]_vars, NEW d \in Calls
             PROVE  FinishedCall(d)'
  BY DEF FinishedInv
<1> FinishedCall(d)
  BY DEF FinishedInv
<1>1. ASSUME NEW c \in Calls, Deny(c) PROVE FinishedCall(d)'
  <2>1. PICK s \in AfterAppend(log[c], "blocked", 0) : log' = [log EXCEPT ![c] = s]
    BY <1>1 DEF Deny
  <2>2. s.status = "done" <=> log[c].status = "done"
    BY <2>1, OtherRecords DEF AfterAppend, TypeOK
  <2>3. log[c].status # "done" /\ c \notin todo
    BY <1>1 DEF Deny, FinishedInv, FinishedCall
  <2>4. QED
    BY <1>1, <2>1, <2>2, <2>3 DEF Deny, TypeOK, FinishedCall
<1>2. ASSUME NEW c \in Calls, Begin(c) \/ BeginUnjournaled(c) \/ Refuse(c)
      PROVE FinishedCall(d)'
  <2>1. log[c].status # "done"
    BY <1>2 DEF Begin, BeginUnjournaled, Refuse, MayBegin, FinishedInv, FinishedCall
  <2>2. /\ todo' = todo \ {c} /\ proc' = proc /\ proc # "down"
        /\ executions' = executions /\ shown' = shown
        /\ \A e \in Calls \ {c} : log'[e] = log[e] /\ phase'[e] = phase[e]
        /\ phase'[c] \in {"begun", "refused"}
    BY <1>2 DEF Begin, BeginUnjournaled, Refuse, MayBegin, TypeOK
  <2>3. log'[c].status # "done"
    <3>1. CASE Begin(c)
      BY <3>1, <2>1, OtherRecords DEF Begin, TypeOK
    <3>2. CASE BeginUnjournaled(c)
      <4>1. PICK s \in AfterAppend(log[c], "intent", 0) : log' = [log EXCEPT ![c] = s]
        BY <3>2 DEF BeginUnjournaled
      <4>2. QED
        BY <4>1, <2>1, OtherRecords DEF AfterAppend, TypeOK
    <3>3. CASE Refuse(c)
      <4>1. PICK s \in AfterAppend(log[c], "intent", 0) :
               \E b \in AfterAppend(s, "blocked", 0) : log' = [log EXCEPT ![c] = b]
        BY <3>3 DEF Refuse
      <4>2. PICK b \in AfterAppend(s, "blocked", 0) : log' = [log EXCEPT ![c] = b]
        BY <4>1
      <4>3. b.status # "done"
        BY <2>1, <4>1, <4>2, RefuseFacts DEF TypeOK
      <4>4. QED
        BY <4>2, <4>3 DEF TypeOK
    <3>4. QED
      BY <1>2, <3>1, <3>2, <3>3
  <2>4. QED
    BY <2>2, <2>3 DEF FinishedCall
<1>3. ASSUME NEW c \in Calls, Execute(c) PROVE FinishedCall(d)'
  <2>1. log[c].status # "done" /\ shown[c] <= 0
    BY <1>3 DEF Execute, FinishedInv, FinishedCall
  <2>2. QED
    BY <1>3, <2>1 DEF Execute, TypeOK, FinishedCall
<1>4. ASSUME NEW c \in Calls, Finish(c) PROVE FinishedCall(d)'
  <2>1. PICK s \in AfterAppend(log[c], "done", executions[c]) : log' = [log EXCEPT ![c] = s]
    BY <1>4 DEF Finish
  <2>2. s.status = "done" => s.result = executions[c]
    BY <2>1 DEF AfterAppend, Fold, Terminal, TypeOK, FinishedInv, FinishedCall
  <2>4. QED
    BY <1>4, <2>1, <2>2 DEF Finish, TypeOK, FinishedCall
<1>5. CASE CompleteBatch
  BY <1>5 DEF CompleteBatch, TypeOK, FinishedCall, Refused
<1>6. CASE Stop
  <2>1. PICK lost : log' = [c \in Calls |-> IF Active(c) /\ c \notin lost
                               THEN Fold(log[c], "cancelled", 0) ELSE log[c]]
    BY <1>6 DEF Stop
  <2>2. /\ log'[d].status = "done" <=> log[d].status = "done"
        /\ log[d].status = "done" => log'[d].result = log[d].result
    BY <2>1, OtherRecords DEF TypeOK
  <2>3. QED
    BY <1>6, <2>2 DEF Stop, TypeOK, FinishedCall
<1>7. CASE Kill
  BY <1>7 DEF Kill, TypeOK, FinishedCall
<1>8. CASE Resume
  BY <1>8 DEF Resume, MayReplay, TypeOK, FinishedCall
<1>9. CASE Merge
  <2>1. shown'[d] > 0 => log[d].status = "done" /\ shown'[d] = log[d].result
    BY <1>9 DEF Merge, RecoveredContent, Interrupted, Refused
  <2>2. QED
    BY <1>9, <2>1 DEF Merge, TypeOK, FinishedCall
<1>10. CASE UNCHANGED vars
  BY <1>10 DEF vars, FinishedCall
<1>11. QED
  BY <1>1, <1>2, <1>3, <1>4, <1>5, <1>6, <1>7, <1>8, <1>9, <1>10 DEF Next

THEOREM FinishedInvariant == Spec => []FinishedInv
<1>1. Init => FinishedInv
  <2>1. ASSUME Init, NEW c \in Calls
        PROVE  /\ log[c].status = "none" /\ phase[c] = "idle"
               /\ shown[c] <= 0 /\ ~(shown[c] > 0)
               /\ c \notin todo
    BY <2>1 DEF Init, NoRecord, NotShown
  <2>2. ASSUME Init, NEW c \in Calls PROVE FinishedCall(c)
    BY <2>1, <2>2 DEF FinishedCall
  <2>3. QED
    BY <2>2 DEF FinishedInv
<1>2. QED
  BY <1>1, FinishedPreserved, TypeCorrect, PTL DEF Spec

(* The result the transcript gives for a call is that of its last execution. *)
THEOREM ShownIsReal == Spec => []ShownIsLatest
<1>1. FinishedInv => ShownIsLatest
  BY DEF FinishedInv, FinishedCall, ShownIsLatest
<1>2. QED
  BY <1>1, FinishedInvariant, PTL

(* A call whose outcome is journaled is never executed again. *)
THEOREM FinishedNeverRuns == Spec => FinishedStaysFinished
<1>1. TypeOK /\ FinishedInv /\ [Next]_vars
        => [\A c \in Calls : log[c].status = "done" => executions'[c] = executions[c]]_vars
  <2> SUFFICES ASSUME TypeOK, FinishedInv, Next, NEW c \in Calls, log[c].status = "done"
               PROVE  executions'[c] = executions[c]
    BY DEF vars
  <2>1. ASSUME NEW e \in Calls, Execute(e) PROVE executions'[c] = executions[c]
    <3>1. phase[e] = "begun" /\ e # c
      BY <2>1 DEF Execute, FinishedInv, FinishedCall
    <3>2. QED
      BY <2>1, <3>1 DEF Execute, TypeOK
  <2>2. CASE ~(\E e \in Calls : Execute(e))
    BY <2>2 DEF Next, Deny, Begin, BeginUnjournaled, Refuse, Finish,
                CompleteBatch, Stop, Kill, Resume, Merge
  <2>3. QED
    BY <2>1, <2>2
<1>2. QED
  BY <1>1, TypeCorrect, FinishedInvariant, PTL DEF Spec, FinishedStaysFinished

--------------------------------------------------------------------------------
(* Safe calls *)

(* Why a call runs at most twice: each execution has its own intent in the
   journal or was begun without one, and recovery begins a call only while
   the journal has one intent. *)
RetryCall(c) ==
    /\ c \in todo => log[c].intents <= 1
    /\ proc = "run" /\ phase[c] = "idle" => log[c].intents = 0
    /\ phase[c] = "begun" => executions[c] < log[c].intents + unrecorded[c]
    /\ executions[c] <= log[c].intents + unrecorded[c]
    /\ log[c].intents <= 2
RetryInv == \A c \in Calls : RetryCall(c)

(* Records other than an intent do not count. *)
LEMMA OnlyIntentsCount ==
    ASSUME NEW s \in CallStates, NEW st \in {"done", "blocked", "cancelled"}, NEW n \in Nat,
           NEW t, t \in AfterAppend(s, st, n) \/ t = Fold(s, st, n)
    PROVE  t.intents = s.intents
BY DEF AfterAppend, Fold, CallStates

LEMMA RetryPreserved == TypeOK /\ RetryInv /\ [Next]_vars => RetryInv'
<1> SUFFICES ASSUME TypeOK, RetryInv, [Next]_vars, NEW d \in Calls
             PROVE  RetryCall(d)'
  BY DEF RetryInv
<1> RetryCall(d) /\ executions[d] \in Nat /\ log[d].intents \in Nat /\ unrecorded[d] \in Nat
  BY DEF RetryInv, TypeOK, CallStates
<1>1. ASSUME NEW c \in Calls, Deny(c) PROVE RetryCall(d)'
  <2>1. PICK s \in AfterAppend(log[c], "blocked", 0) : log' = [log EXCEPT ![c] = s]
    BY <1>1 DEF Deny
  <2>2. s.intents = log[c].intents
    BY <2>1, OnlyIntentsCount DEF TypeOK
  <2>3. QED
    BY <1>1, <2>1, <2>2 DEF Deny, TypeOK, RetryCall
<1>2. ASSUME NEW c \in Calls, Begin(c) PROVE RetryCall(d)'
  <2>1. log[c].intents \in Nat /\ log[c].intents <= 1
        /\ executions[c] \in Nat /\ unrecorded[c] \in Nat
        /\ executions[c] <= log[c].intents + unrecorded[c]
    BY <1>2 DEF Begin, MayBegin, RetryInv, RetryCall, TypeOK, CallStates
  <2>2. log'[c].intents = log[c].intents + 1
    BY <1>2 DEF Begin, Fold, TypeOK
  <2>3. /\ todo' = todo \ {c} /\ proc' = proc
        /\ executions' = executions /\ unrecorded' = unrecorded
        /\ phase'[c] = "begun"
        /\ \A e \in Calls \ {c} : log'[e] = log[e] /\ phase'[e] = phase[e]
    BY <1>2 DEF Begin, TypeOK
  <2>4. QED
    BY <2>1, <2>2, <2>3 DEF RetryCall
<1>3. ASSUME NEW c \in Calls, BeginUnjournaled(c) PROVE RetryCall(d)'
  <2>1. log[c].intents \in Nat /\ log[c].intents <= 1
        /\ executions[c] \in Nat /\ unrecorded[c] \in Nat
        /\ executions[c] <= log[c].intents + unrecorded[c]
    BY <1>3 DEF BeginUnjournaled, MayBegin, RetryInv, RetryCall, TypeOK, CallStates
  <2>2. PICK s \in AfterAppend(log[c], "intent", 0) :
           /\ log' = [log EXCEPT ![c] = s]
           /\ unrecorded' = [unrecorded EXCEPT ![c] = IF s = log[c] THEN @ + 1 ELSE @]
    BY <1>3 DEF BeginUnjournaled
  <2>3. \/ /\ log'[c].intents = log[c].intents
           /\ unrecorded'[c] = unrecorded[c] + 1
        \/ /\ log'[c].intents = log[c].intents + 1
           /\ unrecorded'[c] = unrecorded[c]
    <3>1. CASE s = log[c]
      BY <2>2, <3>1 DEF TypeOK
    <3>2. CASE s # log[c]
      <4>1. s.intents = log[c].intents + 1
        BY <2>2, <3>2 DEF AfterAppend, Fold
      <4>2. QED
        BY <2>2, <3>2, <4>1 DEF TypeOK
    <3>3. QED
      BY <3>1, <3>2
  <2>4. /\ todo' = todo \ {c} /\ proc' = proc /\ executions' = executions
        /\ phase'[c] = "begun"
        /\ \A e \in Calls \ {c} : /\ log'[e] = log[e] /\ phase'[e] = phase[e]
                                  /\ unrecorded'[e] = unrecorded[e]
    BY <1>3, <2>2 DEF BeginUnjournaled, TypeOK
  <2>5. QED
    BY <2>1, <2>3, <2>4 DEF RetryCall
<1>4. ASSUME NEW c \in Calls, Refuse(c) PROVE RetryCall(d)'
  <2>1. log[c].intents \in Nat /\ log[c].intents <= 1
        /\ executions[c] \in Nat /\ unrecorded[c] \in Nat
        /\ executions[c] <= log[c].intents + unrecorded[c]
    BY <1>4 DEF Refuse, MayBegin, RetryInv, RetryCall, TypeOK, CallStates
  <2>2. PICK s \in AfterAppend(log[c], "intent", 0) :
           \E b \in AfterAppend(s, "blocked", 0) : log' = [log EXCEPT ![c] = b]
    BY <1>4 DEF Refuse
  <2>3. PICK b \in AfterAppend(s, "blocked", 0) : log' = [log EXCEPT ![c] = b]
    BY <2>2
  <2>4. /\ b \in CallStates
        /\ log[c].intents <= b.intents /\ b.intents <= log[c].intents + 1
    BY <2>2, <2>3, RefuseFacts DEF TypeOK
  <2>5. log'[c] = b
    BY <2>3 DEF TypeOK
  <2>6. /\ todo' = todo \ {c} /\ proc' = proc
        /\ executions' = executions /\ unrecorded' = unrecorded
        /\ phase'[c] = "refused"
        /\ \A e \in Calls \ {c} : log'[e] = log[e] /\ phase'[e] = phase[e]
    BY <1>4 DEF Refuse, TypeOK
  <2>7. b.intents \in Nat
    BY <2>4 DEF CallStates
  <2>8. QED
    BY <2>1, <2>4, <2>5, <2>6, <2>7 DEF RetryCall
<1>5. ASSUME NEW c \in Calls, Execute(c) PROVE RetryCall(d)'
  BY <1>5 DEF Execute, TypeOK, RetryCall
<1>6. ASSUME NEW c \in Calls, Finish(c) PROVE RetryCall(d)'
  <2>1. PICK s \in AfterAppend(log[c], "done", executions[c]) : log' = [log EXCEPT ![c] = s]
    BY <1>6 DEF Finish
  <2>2. s.intents = log[c].intents
    BY <2>1, OnlyIntentsCount DEF TypeOK
  <2>3. QED
    BY <1>6, <2>1, <2>2 DEF Finish, TypeOK, RetryCall
<1>7. CASE CompleteBatch
  BY <1>7 DEF CompleteBatch, TypeOK, RetryCall
<1>8. CASE Stop
  <2>1. PICK lost : log' = [c \in Calls |-> IF Active(c) /\ c \notin lost
                               THEN Fold(log[c], "cancelled", 0) ELSE log[c]]
    BY <1>8 DEF Stop
  <2>2. log'[d].intents = log[d].intents
    BY <2>1, OnlyIntentsCount DEF TypeOK
  <2>3. QED
    BY <1>8, <2>2 DEF Stop, TypeOK, RetryCall
<1>9. CASE Kill
  BY <1>9 DEF Kill, TypeOK, RetryCall
<1>10. CASE Resume
  BY <1>10 DEF Resume, MayReplay, TypeOK, RetryCall
<1>11. CASE Merge
  BY <1>11 DEF Merge, TypeOK, RetryCall
<1>12. CASE UNCHANGED vars
  BY <1>12 DEF vars, RetryCall
<1>13. QED
  BY <1>1, <1>2, <1>3, <1>4, <1>5, <1>6, <1>7, <1>8, <1>9, <1>10, <1>11, <1>12 DEF Next

(* A call is executed at most twice, however often recovery is killed,
   besides the executions whose intent best-effort mode could not write. *)
THEOREM SafeRunsTwice == Spec => []SafeAtMostTwice
<1>1. Init => RetryInv
  <2>1. ASSUME Init, NEW c \in Calls
        PROVE  /\ log[c].intents = 0 /\ executions[c] = 0 /\ unrecorded[c] = 0
               /\ phase[c] = "idle"
    BY <2>1 DEF Init, NoRecord
  <2>2. 0 <= 0 + 0 /\ 0 <= 1 /\ 0 <= 2
    OBVIOUS
  <2>3. QED
    BY <2>1, <2>2 DEF RetryInv, RetryCall
<1>2. TypeOK /\ RetryInv => SafeAtMostTwice
  <2>1. ASSUME TypeOK, RetryInv, NEW c \in Calls PROVE executions[c] <= 2 + unrecorded[c]
    <3>1. executions[c] \in Nat /\ log[c].intents \in Nat /\ unrecorded[c] \in Nat
      BY <2>1 DEF TypeOK, CallStates
    <3>2. executions[c] <= log[c].intents + unrecorded[c] /\ log[c].intents <= 2
      BY <2>1 DEF RetryInv, RetryCall
    <3>3. QED
      BY <3>1, <3>2
  <2>2. QED
    BY <2>1 DEF SafeAtMostTwice
<1>3. QED
  BY <1>1, <1>2, RetryPreserved, TypeCorrect, PTL DEF Spec
=============================================================================
