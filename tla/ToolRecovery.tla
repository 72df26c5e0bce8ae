----------------------------- MODULE ToolRecovery -----------------------------
(***************************************************************************)
(* The tool calls of one turn: each call's intent is journaled before the  *)
(* tool runs and its outcome after (agent/tool_pipeline.rs,                *)
(* agent/turn_journal.rs).  A kill, /stop or a failed append may come at   *)
(* any step.  A restarted process replays the calls the journal allows     *)
(* (AgentLoop::replay_interrupted_calls) and then merges the turn into the *)
(* transcript, each call with the outcome the journal knows                *)
(* (agent/recovery.rs).                                                    *)
(*                                                                         *)
(* The calls are one batch of the model's request; they run concurrently,  *)
(* which covers a sequential batch too.                                    *)
(***************************************************************************)
EXTENDS Integers

CONSTANTS
    Calls,         \* the tool calls of the turn
    Safe,          \* those whose tool declares replay_safe()
    MaxRestarts    \* bound: processes that resume the turn

ASSUME CallsAssumption == Safe \subseteq Calls
ASSUME RestartsAssumption == MaxRestarts \in Nat

VARIABLES
    mode,        \* durability.journalMode, read when a process starts
    log,         \* per call, what tool_call_states folds from the journal
    phase,       \* per call, how far this process is with it
    proc,        \* what the process does with the turn
    todo,        \* interrupted calls the running recovery has still to replay
    restarts,    \* resumes so far
    shown,       \* per call, what the transcript tells the model
    (* history *)
    executions,  \* per call, how often the tool was run
    unrecorded   \* per call, how often it was begun without its intent on disk

vars == <<mode, log, phase, proc, todo, restarts, shown, executions, unrecorded>>

Modes == {"strict", "best_effort"}
Statuses == {"none", "intent", "done", "blocked", "cancelled"}
Phases == {"idle", "begun", "executed", "finished", "refused"}
Procs == {"run", "down", "replay", "cancelled", "completed", "merged"}

(* What is shown for a call: the result of its n-th execution as n, or *)
Interrupted == 0
Refused == -1
NotShown == -2

(* The result is the number of the execution it came from.  Status "done"
   is Done or Error: recovery treats them alike. *)
CallStates == [status : Statuses, intents : Nat, result : Nat]
NoRecord == [status |-> "none", intents |-> 0, result |-> 0]

TypeOK ==
    /\ mode \in Modes
    /\ log \in [Calls -> CallStates]
    /\ phase \in [Calls -> Phases]
    /\ proc \in Procs
    /\ todo \subseteq Calls
    /\ restarts \in Nat
    /\ shown \in [Calls -> Int]
    /\ executions \in [Calls -> Nat]
    /\ unrecorded \in [Calls -> Nat]

Init ==
    /\ mode \in Modes
    /\ log = [c \in Calls |-> NoRecord]
    /\ phase = [c \in Calls |-> "idle"]
    /\ proc = "run"
    /\ todo = {}
    /\ restarts = 0
    /\ shown = [c \in Calls |-> NotShown]
    /\ executions = [c \in Calls |-> 0]
    /\ unrecorded = [c \in Calls |-> 0]

--------------------------------------------------------------------------------
(* The journal *)

Terminal(s) == s.status \in {"done", "blocked", "cancelled"}

(* Mutant of Fold: a terminal record takes its intent back. *)
FoldUncounts(s, status, result) ==
    [status  |-> IF Terminal(s) THEN s.status ELSE status,
     intents |-> IF status = "intent" THEN s.intents + 1 ELSE s.intents - 1,
     result  |-> IF Terminal(s) THEN s.result ELSE result]

(* tool_call_states: one more record of a call.  A terminal state is final,
   an intent is counted. *)
Fold(s, status, result) ==
    [status  |-> IF Terminal(s) THEN s.status ELSE status,
     intents |-> IF status = "intent" THEN s.intents + 1 ELSE s.intents,
     result  |-> IF Terminal(s) THEN s.result ELSE result]

(* What an append leaves: its record, or nothing when it failed.  (One whose
   flush failed leaves the record too.) *)
AfterAppend(s, status, result) == {s, Fold(s, status, result)}

(* Mutants of MayReplay: a second retry; a call that has its outcome. *)
MayReplayTwice(c) == log[c].status = "intent" /\ c \in Safe /\ log[c].intents <= 2
MayReplayFinished(c) ==
    log[c].status \in {"intent", "done"} /\ c \in Safe /\ log[c].intents <= 1

(* decide_tool_recovery *)
MayReplay(c) ==
    /\ log[c].status = "intent"
    /\ c \in Safe
    /\ log[c].intents <= 1

(* pending_call_content *)
RecoveredContent(c) ==
    IF log[c].status = "done" THEN log[c].result
    ELSE IF log[c].status = "blocked" THEN Refused
    ELSE Interrupted

--------------------------------------------------------------------------------
(* One call in the running process *)

Active(c) == phase[c] \in {"begun", "executed"}

(* The original run may start any call; a replay goes through its list one
   call at a time. *)
MayBegin(c) ==
    /\ phase[c] = "idle"
    /\ \/ proc = "run"
       \/ proc = "replay" /\ c \in todo /\ \A d \in Calls : ~Active(d)

(* authorize: a hook denied the call, record_blocked_call *)
Deny(c) ==
    /\ proc = "run" /\ phase[c] = "idle"
    /\ \E s \in AfterAppend(log[c], "blocked", 0) : log' = [log EXCEPT ![c] = s]
    /\ phase' = [phase EXCEPT ![c] = "refused"]
    /\ UNCHANGED <<mode, proc, todo, restarts, shown, executions, unrecorded>>

(* begin_tool_call: the intent is written *)
Begin(c) ==
    /\ MayBegin(c)
    /\ log' = [log EXCEPT ![c] = Fold(@, "intent", 0)]
    /\ phase' = [phase EXCEPT ![c] = "begun"]
    /\ todo' = todo \ {c}
    /\ UNCHANGED <<mode, proc, restarts, shown, executions, unrecorded>>

(* begin_tool_call, best effort: the append failed, the call runs anyway *)
BeginUnjournaled(c) ==
    /\ MayBegin(c) /\ mode = "best_effort"
    /\ \E s \in AfterAppend(log[c], "intent", 0) :
          /\ log' = [log EXCEPT ![c] = s]
          /\ unrecorded' = [unrecorded EXCEPT ![c] = IF s = log[c] THEN @ + 1 ELSE @]
    /\ phase' = [phase EXCEPT ![c] = "begun"]
    /\ todo' = todo \ {c}
    /\ UNCHANGED <<mode, proc, restarts, shown, executions>>

(* begin_tool_call, strict: the call is refused, a Blocked record is tried *)
Refuse(c) ==
    /\ MayBegin(c) /\ mode = "strict"
    /\ \E s \in AfterAppend(log[c], "intent", 0) :
          \E b \in AfterAppend(s, "blocked", 0) : log' = [log EXCEPT ![c] = b]
    /\ phase' = [phase EXCEPT ![c] = "refused"]
    /\ todo' = todo \ {c}
    /\ UNCHANGED <<mode, proc, restarts, shown, executions, unrecorded>>

Execute(c) ==
    /\ proc \in {"run", "replay"} /\ phase[c] = "begun"
    /\ executions' = [executions EXCEPT ![c] = @ + 1]
    /\ phase' = [phase EXCEPT ![c] = "executed"]
    /\ UNCHANGED <<mode, log, proc, todo, restarts, shown, unrecorded>>

(* InFlightToolCall::finish *)
Finish(c) ==
    /\ proc \in {"run", "replay"} /\ phase[c] = "executed"
    /\ \E s \in AfterAppend(log[c], "done", executions[c]) : log' = [log EXCEPT ![c] = s]
    /\ phase' = [phase EXCEPT ![c] = "finished"]
    /\ UNCHANGED <<mode, proc, todo, restarts, shown, executions, unrecorded>>

--------------------------------------------------------------------------------
(* The turn *)

(* Every call of the batch has its result: the turn goes on. *)
CompleteBatch ==
    /\ proc = "run"
    /\ \A c \in Calls : phase[c] \in {"finished", "refused"}
    /\ proc' = "completed"
    /\ shown' = [c \in Calls |-> IF phase[c] = "finished" THEN executions[c] ELSE Refused]
    /\ UNCHANGED <<mode, log, phase, todo, restarts, executions, unrecorded>>

(* /stop drops the turn: calls in flight are journaled as cancelled, and the
   turn is never resumed. *)
Stop ==
    /\ proc = "run"
    /\ proc' = "cancelled"
    /\ \E lost \in SUBSET Calls :
          log' = [c \in Calls |-> IF Active(c) /\ c \notin lost
                                 THEN Fold(log[c], "cancelled", 0) ELSE log[c]]
    /\ phase' = [c \in Calls |-> "idle"]
    /\ UNCHANGED <<mode, todo, restarts, shown, executions, unrecorded>>

Kill ==
    /\ proc \in {"run", "replay"}
    /\ proc' = "down"
    /\ phase' = [c \in Calls |-> "idle"]
    /\ todo' = {}
    /\ UNCHANGED <<mode, log, restarts, shown, executions, unrecorded>>

(* Mutant of Resume: the replay_safe() guards are dropped. *)
ResumeAll ==
    /\ proc = "down" /\ restarts < MaxRestarts
    /\ restarts' = restarts + 1
    /\ proc' = "replay"
    /\ todo' = {c \in Calls : log[c].status = "intent" /\ log[c].intents <= 1}
    /\ mode' \in Modes
    /\ UNCHANGED <<log, phase, shown, executions, unrecorded>>

(* replay_interrupted_calls: one scan decides; `declared` are the safe calls
   whose tool the new process still registers as replay safe. *)
Resume ==
    /\ proc = "down" /\ restarts < MaxRestarts
    /\ restarts' = restarts + 1
    /\ proc' = "replay"
    /\ \E declared \in SUBSET Safe : todo' = {c \in declared : MayReplay(c)}
    /\ mode' \in Modes
    /\ UNCHANGED <<log, phase, shown, executions, unrecorded>>

(* restore_from_journal: after the replays, or (not resumed) without any *)
Merge ==
    /\ \/ proc \in {"down", "cancelled"}
       \/ proc = "replay" /\ todo = {} /\ \A c \in Calls : ~Active(c)
    /\ proc' = "merged"
    /\ shown' = [c \in Calls |-> RecoveredContent(c)]
    /\ UNCHANGED <<mode, log, phase, todo, restarts, executions, unrecorded>>

Next ==
    \/ \E c \in Calls : \/ Deny(c) \/ Begin(c) \/ BeginUnjournaled(c) \/ Refuse(c)
                        \/ Execute(c) \/ Finish(c)
    \/ CompleteBatch \/ Stop \/ Kill \/ Resume \/ Merge

Spec == Init /\ [][Next]_vars

--------------------------------------------------------------------------------
(* Properties *)

(* "Tools that are not [safe to repeat] are ... never repeated": whatever
   appends fail, an unsafe call runs at most once. *)
UnsafeAtMostOnce == \A c \in Calls \ Safe : executions[c] <= 1

(* A safe call is "executed once more", and "a second crash during that re-run
   is not retried" (docs/DURABILITY.md:61): however often recovery is killed,
   a call runs at most twice, besides the times best-effort mode ran it
   although its intent was lost. *)
SafeAtMostTwice == \A c \in Calls : executions[c] <= 2 + unrecorded[c]

(* The result the transcript gives for a call is the one of its last
   execution; a refused call did not run in this process. *)
ShownIsLatest == \A c \in Calls : shown[c] > 0 => shown[c] = executions[c]

(* A call whose outcome is journaled is never executed again. *)
FinishedStaysFinished ==
    [][\A c \in Calls : log[c].status = "done" => executions'[c] = executions[c]]_vars
=============================================================================
