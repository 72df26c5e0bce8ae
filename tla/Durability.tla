------------------------------ MODULE Durability ------------------------------
(***************************************************************************)
(* One chat session of the gateway across process kills: messages are      *)
(* admitted to the inbox ledger and the bus (bus/queue.rs, inbox.rs), run  *)
(* one at a time as turns under the session lock (AgentLoop::run and       *)
(* dispatch), journaled step by step, merged into the transcript, answered *)
(* and closed.  After a kill the startup task resumes the interrupted turn *)
(* and re-drives the ledger while new messages are already consumed        *)
(* (agent/agent_loop.rs, agent/runner.rs).                                 *)
(*                                                                         *)
(* Each step of the lock holder (the lane) ends at a durable write or at   *)
(* an await, the places where a kill, /stop or another task can come in    *)
(* between.  The model is told apart only by its turn number: turn t       *)
(* answers <<"answer", t>>.  What a turn does with tools is ToolRecovery.  *)
(***************************************************************************)
EXTENDS RecoveryPlan

CONSTANTS
    Prompts,        \* requests that need a turn of the model
    Statuses,       \* requests that are a priority command such as /status
    Stops,          \* requests that are /stop
    Resets,         \* requests that are /new
    NoReq,          \* no request
    TurnsGoStale,   \* whether an interrupted turn may exceed resumeMaxAgeSecs
    TurnsPanic,     \* whether a turn may panic
    MaxDeliveries,  \* bound: how often a channel delivers one request
    MaxCrashes      \* bound: process kills

Dispatched == Prompts \cup Resets
Reqs == Dispatched \cup Statuses \cup Stops
ASSUME RequestsAssumption == NoReq \notin Reqs /\ IsFiniteSet(Reqs)
ASSUME SwitchesAssumption == {TurnsGoStale, TurnsPanic} \subseteq BOOLEAN
ASSUME BoundsAssumption == MaxDeliveries \in Nat /\ MaxCrashes \in Nat

VARIABLES
    journal,     \* the session's run journal
    disk,        \* the saved transcript
    cache,       \* the session manager's copy of it
    bus,         \* inbound queue
    waiting,     \* dispatch tasks waiting for the session lock
    lane,        \* the task that holds the session lock
    startup,     \* the startup task
    delivered,   \* deliveries so far, by request
    crashes,     \* kills so far
    (* history *)
    admitted,    \* how often the ledger accepted a request as new
    turns,       \* the turns ever started: request and attempt
    replies,     \* the replies ever published: request, turn (0: an error text) and
                 \* whether it is the stored reply of a redelivered request
    streak,      \* turns a request has started since it was accepted, one of
                 \* them ended or was found answered, another message's turn
                 \* merged one, or a kill came between a merge and its continuation
    stopped      \* requests whose task /stop aborted

stores == <<journal, disk, cache>>
queues == <<bus, waiting>>
history == <<admitted, turns, replies, streak, stopped>>
vars == <<stores, queues, lane, startup, delivered, crashes, history>>

--------------------------------------------------------------------------------
(* Messages and sessions *)

User(r) == <<"user", r>>
Answer(t) == <<"answer", t>>
Command(r) == <<"command", r>>
SystemPrompt == <<"system">>

(* get_history: command turns are kept in the session, not shown to the model. *)
ChatHistory(session) == Part(session, {i \in DOMAIN session : session[i][1] # "command"})

(* turn_start_index: the turn's messages begin at the latest user message;
   without one, at the system prompt. *)
UsersOf(messages) == {i \in DOMAIN messages : messages[i][1] = "user"}
TurnLocal(messages) ==
    IF UsersOf(messages) = {} THEN <<SystemPrompt>> \o messages
    ELSE SubSeq(messages, Last1(UsersOf(messages)), Len(messages))
UserMessage(messages) ==
    IF UsersOf(messages) = {} THEN <<>> ELSE <<messages[Last1(UsersOf(messages))]>>

HasFinalAnswer(session) ==
    LET h == ChatHistory(session) IN h # <<>> /\ h[Len(h)][1] = "answer"
FinalAnswer(session) == LET h == ChatHistory(session) IN h[Len(h)][2]

Idle == [pc |-> "idle", req |-> NoReq, resumed |-> FALSE, attempt |-> 0,
         session |-> <<>>, turn |-> 0, outcome |-> "completed", aborted |-> FALSE]
NoTurn == [pc |-> "done", turn |-> 0, req |-> NoReq, attempt |-> 0, todo |-> <<>>]

Write(rec) == journal' = Append(journal, rec)

Init ==
    /\ journal = <<>> /\ disk = <<>> /\ cache = <<>>
    /\ bus = <<>> /\ waiting = <<>>
    /\ lane = Idle
    /\ startup = NoTurn
    /\ delivered = [r \in Reqs |-> 0]
    /\ crashes = 0
    /\ admitted = [r \in Reqs |-> 0]
    /\ turns = <<>>
    /\ replies = <<>>
    /\ streak = [r \in Reqs |-> 0]
    /\ stopped = {}

--------------------------------------------------------------------------------
(* Publishing: MessageBus::publish_inbound behind LedgerGuard *)

Deliver(r) ==
    /\ delivered[r] < MaxDeliveries
    /\ delivered' = [delivered EXCEPT ![r] = @ + 1]
    /\ UNCHANGED <<disk, cache, waiting, lane, startup, crashes, turns, stopped>>

(* admit: first sighting *)
PublishNew(r) ==
    /\ ~InLedger(journal, r)
    /\ Write(Inbox(r, "queued", NoOutcome, TRUE))
    /\ bus' = Append(bus, r)
    /\ admitted' = [admitted EXCEPT ![r] = @ + 1]
    /\ streak' = [streak EXCEPT ![r] = 0]
    /\ UNCHANGED replies
    /\ Deliver(r)

Reply(r, t, again) == replies' = Append(replies, [req |-> r, turn |-> t, redelivered |-> again])

(* Mutant of PublishDuplicate: the duplicate is passed on. *)
PublishDuplicateToo(r) ==
    /\ InLedger(journal, r)
    /\ bus' = Append(bus, r)
    /\ UNCHANGED <<journal, admitted, replies, streak>>
    /\ Deliver(r)

(* admit: a duplicate of an answered request gets the stored reply once more,
   any other duplicate is dropped. *)
PublishDuplicate(r) ==
    /\ InLedger(journal, r)
    /\ LET entry == Entry(journal, r)
       IN IF entry.state = "done" /\ entry.outcome # NoOutcome
          THEN Reply(r, entry.outcome, TRUE)
          ELSE UNCHANGED replies
    /\ UNCHANGED <<journal, bus, admitted, streak>>
    /\ Deliver(r)

--------------------------------------------------------------------------------
(* AgentLoop::run: consume the bus *)

(* Mutant of ConsumePrompt: commands are not told apart. *)
ConsumeAsPrompt ==
    /\ bus # <<>>
    /\ bus' = Tail(bus)
    /\ waiting' = Append(waiting, Head(bus))
    /\ UNCHANGED <<stores, lane, startup, delivered, crashes, history>>

ConsumePrompt ==
    /\ bus # <<>> /\ Head(bus) \in Dispatched
    /\ bus' = Tail(bus)
    /\ waiting' = Append(waiting, Head(bus))
    /\ UNCHANGED <<stores, lane, startup, delivered, crashes, history>>

(* persist_command_turn; the manager's mutex excludes a restore in progress *)
PersistCommand(r) ==
    /\ lane.pc # "restoring"
    /\ cache' = Append(cache, Command(r))
    /\ disk' = cache'

ReplyWith(r, t) == Reply(r, t, FALSE)

(* A priority command runs inline, and is not marked in the ledger. *)
ConsumeStatus ==
    /\ bus # <<>> /\ Head(bus) \in Statuses
    /\ bus' = Tail(bus)
    /\ PersistCommand(Head(bus))
    /\ ReplyWith(Head(bus), 0)
    /\ UNCHANGED <<journal, waiting, lane, startup, delivered, crashes,
                   admitted, turns, streak, stopped>>

(* Mutant of PendingClosed: /stop leaves the ledger alone. *)
PendingLeft == journal

(* abort_session closes every pending entry of the ledger. *)
PendingClosed ==
    LET pending == Pending(journal)
    IN journal \o [n \in DOMAIN pending |->
                     Inbox(pending[n].req, "done", NoOutcome, FALSE)]

(* Resumed turns are not registered in active_tasks. *)
Abortable == lane.pc # "idle" /\ ~lane.resumed

ConsumeStop ==
    /\ bus # <<>> /\ Head(bus) \in Stops
    /\ bus' = Tail(bus)
    /\ waiting' = <<>>
    /\ lane' = [lane EXCEPT !.aborted = Abortable]
    /\ journal' = PendingClosed
    /\ PersistCommand(Head(bus))
    /\ ReplyWith(Head(bus), 0)
    /\ stopped' = stopped \cup ToSet(waiting)
                     \cup (IF Abortable THEN {lane.req} ELSE {})
    /\ UNCHANGED <<startup, delivered, crashes, admitted, turns, streak>>

Consume == ConsumePrompt \/ ConsumeStatus \/ ConsumeStop

--------------------------------------------------------------------------------
(* The lane: a turn under the session lock *)

laneOnly == <<queues, startup, delivered, crashes>>

Goto(pc) == lane' = [lane EXCEPT !.pc = pc]

(* dispatch: acquire_turn_slot, then mark_processing *)
TakeLock ==
    /\ lane.pc = "idle"
    /\ \E n \in DOMAIN waiting :
          /\ lane' = [Idle EXCEPT !.pc = "locked", !.req = waiting[n]]
          /\ waiting' = RemoveAt(waiting, n)
    /\ UNCHANGED <<stores, bus, startup, delivered, crashes, history>>

MarkProcessing ==
    /\ lane.pc = "locked"
    /\ Write(Inbox(lane.req, "processing", NoOutcome, FALSE))
    /\ Goto("restore")
    /\ UNCHANGED <<disk, cache, laneOnly, history>>

MergedFor(r) ==
    streak' = IF lane.resumed /\ lane.req = r THEN streak ELSE [streak EXCEPT ![r] = 0]

(* Mutant of RestoreTurn: the turn replaces the session. *)
RestoreOverSession ==
    /\ lane.pc \in {"restore", "restoring"}
    /\ ToRestore(journal) # {}
    /\ LET t == First1(ToRestore(journal))
       IN /\ cache' = RestoredMessages(journal, t)
          /\ Write(TurnRestored(t))
          /\ MergedFor(turns[t].req)
    /\ Goto("restoring")
    /\ UNCHANGED <<disk, laneOnly, admitted, turns, replies, stopped>>

(* restore_from_journal: merge the open turns, oldest first *)
RestoreTurn ==
    /\ lane.pc \in {"restore", "restoring"}
    /\ ToRestore(journal) # {}
    /\ LET t == First1(ToRestore(journal))
       IN /\ cache' = cache \o RestoredMessages(journal, t)
          /\ Write(TurnRestored(t))
          /\ MergedFor(turns[t].req)
    /\ Goto("restoring")
    /\ UNCHANGED <<disk, laneOnly, admitted, turns, replies, stopped>>

(* Mutant of SaveRestored: a turn may begin with open turns left. *)
SaveRestoredEarly ==
    /\ lane.pc \in {"restore", "restoring"}
    /\ disk' = cache
    /\ lane' = [lane EXCEPT !.pc = IF lane.resumed THEN "resume" ELSE "begin",
                            !.session = cache]
    /\ UNCHANGED <<journal, cache, laneOnly, history>>

(* restore_runtime_checkpoint returned: save what was merged *)
SaveRestored ==
    /\ lane.pc \in {"restore", "restoring"}
    /\ ToRestore(journal) = {}
    /\ disk' = IF lane.pc = "restoring" THEN cache ELSE disk
    /\ lane' = [lane EXCEPT !.pc = IF lane.resumed THEN "resume" ELSE "begin",
                            !.session = cache]
    /\ UNCHANGED <<journal, cache, laneOnly, history>>

(* resume_turn_inner: a turn that died after its final answer *)
FindFinalAnswer ==
    /\ lane.pc = "resume" /\ HasFinalAnswer(lane.session)
    /\ lane' = [lane EXCEPT !.pc = "close", !.turn = FinalAnswer(lane.session)]
    /\ streak' = [streak EXCEPT ![lane.req] = 0]
    /\ UNCHANGED <<stores, laneOnly, admitted, turns, replies, stopped>>

(* begin_turn_journal.  A message is read behind the session as it is now, a
   resumed turn continues the session it restored. *)
Begin(session) ==
    /\ lane' = [lane EXCEPT !.pc = "pre_model", !.turn = Len(turns) + 1,
                            !.session = session]
    /\ turns' = Append(turns, [req |-> lane.req, attempt |-> lane.attempt])
    /\ streak' = [streak EXCEPT ![lane.req] = @ + 1]
    /\ Write(TurnStart(Len(turns) + 1, lane.req, lane.attempt,
                       UserMessage(ChatHistory(session))))
    /\ UNCHANGED <<disk, cache, laneOnly, admitted, replies, stopped>>

BeginTurn ==
    \/ lane.pc = "begin" /\ lane.req \in Prompts /\ Begin(Append(cache, User(lane.req)))
    \/ lane.pc = "resume" /\ ~HasFinalAnswer(lane.session) /\ Begin(lane.session)

(* CmdNew: reset_session deletes the journal, with it the ledger, and clears
   the session. *)
NewSession ==
    /\ lane.pc = "begin" /\ lane.req \in Resets
    /\ journal' = <<>> /\ disk' = <<>> /\ cache' = <<>>
    /\ Goto("reply")
    /\ UNCHANGED <<laneOnly, history>>

CheckpointPreModel ==
    /\ lane.pc = "pre_model"
    /\ Write(StepCheckpoint(lane.turn, TurnLocal(ChatHistory(lane.session))))
    /\ Goto("model")
    /\ UNCHANGED <<disk, cache, laneOnly, history>>

(* AgentRunner::run: only a normal completion writes the final checkpoint. *)
ModelAnswers ==
    /\ lane.pc = "model"
    /\ Write(StepCheckpoint(lane.turn,
                Append(TurnLocal(ChatHistory(lane.session)), Answer(lane.turn))))
    /\ Goto("end")
    /\ UNCHANGED <<disk, cache, laneOnly, history>>

ModelFails ==
    /\ lane.pc = "model"
    /\ lane' = [lane EXCEPT !.pc = "end", !.outcome = "failed"]
    /\ UNCHANGED <<stores, laneOnly, history>>

(* No TurnEnd while panicking: dispatch catches the panic, the task of a
   resumed turn just dies. *)
ModelPanics ==
    /\ TurnsPanic /\ lane.pc = "model"
    /\ lane' = IF lane.resumed THEN Idle
               ELSE [lane EXCEPT !.pc = "close", !.turn = 0]
    /\ startup' = IF lane.resumed THEN [startup EXCEPT !.pc = "redrive"] ELSE startup
    /\ UNCHANGED <<stores, queues, delivered, crashes, history>>

EndTurn ==
    /\ lane.pc = "end"
    /\ Write(TurnEnd(lane.turn, lane.outcome))
    /\ streak' = [streak EXCEPT ![lane.req] = 0]
    /\ Goto("prune")
    /\ UNCHANGED <<disk, cache, laneOnly, admitted, turns, replies, stopped>>

PruneJournal ==
    /\ lane.pc = "prune"
    /\ journal' = Pruned(journal)
    /\ Goto("compact")
    /\ UNCHANGED <<disk, cache, laneOnly, history>>

CompactLedger ==
    /\ lane.pc = "compact"
    /\ journal' = CompactedLedger(journal)
    /\ Goto("persist")
    /\ UNCHANGED <<disk, cache, laneOnly, history>>

(* persist_finished_turn saves the session the turn began with. *)
PersistTurn ==
    /\ lane.pc = "persist"
    /\ disk' = Append(lane.session, Answer(lane.turn))
    /\ cache' = disk'
    /\ Goto(IF lane.resumed THEN "close" ELSE "reply")
    /\ UNCHANGED <<journal, laneOnly, history>>

(* dispatch: publish the reply, then mark_done *)
PublishReply ==
    /\ lane.pc = "reply"
    /\ ReplyWith(lane.req, lane.turn)
    /\ Goto("mark_done")
    /\ UNCHANGED <<stores, laneOnly, admitted, turns, streak, stopped>>

MarkDone ==
    /\ lane.pc = "mark_done"
    /\ Write(Inbox(lane.req, "done", lane.turn, FALSE))
    /\ lane' = Idle
    /\ UNCHANGED <<disk, cache, laneOnly, history>>

(* A panic and a resumed turn close the request first, then publish. *)
CloseRequest ==
    /\ lane.pc = "close"
    /\ IF lane.resumed /\ ~InLedger(journal, lane.req)
       THEN UNCHANGED journal
       ELSE Write(Inbox(lane.req, "done", lane.turn, FALSE))
    /\ Goto("publish")
    /\ UNCHANGED <<disk, cache, laneOnly, history>>

PublishClosed ==
    /\ lane.pc = "publish"
    /\ ReplyWith(lane.req, lane.turn)
    /\ lane' = Idle
    /\ startup' = IF lane.resumed THEN [startup EXCEPT !.pc = "redrive"] ELSE startup
    /\ UNCHANGED <<stores, queues, delivered, crashes, admitted, turns, streak, stopped>>

(* /stop reaches the task at an await; the turn guard cancels an open turn. *)
Aborted ==
    /\ lane.aborted /\ lane.pc \in {"begin", "model", "reply"}
    /\ IF lane.pc = "model" THEN Write(TurnEnd(lane.turn, "cancelled"))
                            ELSE UNCHANGED journal
    /\ lane' = Idle
    /\ UNCHANGED <<disk, cache, laneOnly, history>>

LaneStep ==
    \/ TakeLock \/ MarkProcessing \/ RestoreTurn \/ SaveRestored
    \/ FindFinalAnswer \/ BeginTurn \/ NewSession \/ CheckpointPreModel
    \/ ModelAnswers \/ ModelFails \/ ModelPanics
    \/ EndTurn \/ PruneJournal \/ CompactLedger \/ PersistTurn
    \/ PublishReply \/ MarkDone \/ CloseRequest \/ PublishClosed \/ Aborted

--------------------------------------------------------------------------------
(* Kill and startup *)

(* Killed between the merge of a turn and the start of the one that continues
   it: no open turn tells how often the request was tried. *)
AttemptsLost == lane.resumed /\ \A t \in ToRestore(journal) : turns[t].req # lane.req

Crash ==
    /\ crashes < MaxCrashes
    /\ crashes' = crashes + 1
    /\ journal' = [n \in DOMAIN journal |-> [journal[n] EXCEPT !.live = FALSE]]
    /\ cache' = disk
    /\ bus' = <<>> /\ waiting' = <<>>
    /\ lane' = Idle
    /\ startup' = [NoTurn EXCEPT !.pc = "plan"]
    /\ streak' = IF AttemptsLost THEN [streak EXCEPT ![lane.req] = 0] ELSE streak
    /\ UNCHANGED <<disk, delivered, admitted, turns, replies, stopped>>

(* resume_interrupted_turns: abandon, and spawn the resume that is due *)
PlanResumes ==
    /\ startup.pc = "plan"
    /\ LET abandoned == InOrder(ToAbandon(journal))
       IN journal' = journal \o [n \in DOMAIN abandoned |-> TurnEnd(abandoned[n], "abandoned")]
    /\ startup' =
          IF ToResume(journal) = {} THEN [startup EXCEPT !.pc = "redrive"]
          ELSE LET t == First1(ToResume(journal))
                   start == StartOf(journal, t)
               IN [startup EXCEPT !.pc = "resume", !.turn = t, !.req = start.req,
                                  !.attempt = start.attempt + 1]
    /\ UNCHANGED <<disk, cache, queues, lane, delivered, crashes, history>>

(* The newest turn is too old: it stays for the next message to restore. *)
PlanStale ==
    /\ startup.pc = "plan" /\ TurnsGoStale /\ Interrupted(journal) # {}
    /\ LET older == InOrder(Interrupted(journal) \ {Newest(Interrupted(journal))})
       IN journal' = journal \o [n \in DOMAIN older |-> TurnEnd(older[n], "abandoned")]
    /\ startup' = [startup EXCEPT !.pc = "redrive"]
    /\ UNCHANGED <<disk, cache, queues, lane, delivered, crashes, history>>

(* resume_turn_inner takes the session lock like any message. *)
StartResume ==
    /\ startup.pc = "resume" /\ lane.pc = "idle"
    /\ lane' = [Idle EXCEPT !.pc = "restore", !.req = startup.req,
                            !.resumed = TRUE, !.attempt = startup.attempt]
    /\ startup' = [startup EXCEPT !.pc = "resuming"]
    /\ UNCHANGED <<stores, queues, delivered, crashes, history>>

(* redrive_pending_inbound: one scan, then one action per entry *)
PlanRedrive ==
    /\ startup.pc = "redrive"
    /\ startup' = [NoTurn EXCEPT !.pc = "redriving", !.todo = RedrivePlan(journal)]
    /\ UNCHANGED <<stores, queues, lane, delivered, crashes, history>>

RedriveEntry ==
    /\ startup.pc = "redriving" /\ startup.todo # <<>>
    /\ LET step == Head(startup.todo)
       IN /\ IF step.action = "close"
             THEN Write(Inbox(step.entry.req, "done", NoOutcome, FALSE))
             ELSE UNCHANGED journal
          /\ bus' = IF step.action = "redrive" THEN Append(bus, step.entry.req) ELSE bus
    /\ startup' = [startup EXCEPT !.todo = Tail(@)]
    /\ UNCHANGED <<disk, cache, waiting, lane, delivered, crashes, history>>

RedriveFinished ==
    /\ startup.pc = "redriving" /\ startup.todo = <<>>
    /\ startup' = NoTurn
    /\ UNCHANGED <<stores, queues, lane, delivered, crashes, history>>

StartupStep ==
    \/ PlanResumes \/ PlanStale \/ StartResume
    \/ PlanRedrive \/ RedriveEntry \/ RedriveFinished

Publish == \E r \in Reqs : PublishNew(r) \/ PublishDuplicate(r)

SystemStep == Consume \/ LaneStep \/ StartupStep

Next == Publish \/ SystemStep \/ Crash

Spec == Init /\ [][Next]_vars

(* The executor never idles while a task is ready: the least that tokio's
   scheduler and the session lock give.  Which task runs is not assumed.
   (WF_vars(SystemStep), with its ENABLED written out.) *)
Ready == \/ bus # <<>> \/ waiting # <<>> \/ lane.pc # "idle" \/ startup.pc # "done"
FairSpec == Spec /\ ([]<>~Ready \/ []<><<SystemStep>>_vars)

--------------------------------------------------------------------------------
(* Properties *)

Messages == {User(r) : r \in Reqs} \cup {Command(r) : r \in Reqs}
               \cup {Answer(t) : t \in 1..Len(turns)} \cup {SystemPrompt}
LanePcs == {"idle", "locked", "restore", "restoring", "begin", "resume", "pre_model",
            "model", "end", "prune", "compact", "persist", "reply", "mark_done",
            "close", "publish"}
StartupPcs == {"plan", "resume", "resuming", "redrive", "redriving", "done"}

TypeOK ==
    /\ \A i \in DOMAIN journal :
          journal[i].kind \in {"inbox", "turn_start", "step_checkpoint",
                              "turn_end", "turn_restored"}
    /\ \A s \in {disk, cache, lane.session} : ToSet(s) \subseteq Messages
    /\ ToSet(bus) \subseteq Reqs
    /\ ToSet(waiting) \subseteq Dispatched
    /\ lane.pc \in LanePcs /\ lane.req \in Reqs \cup {NoReq}
    /\ lane.turn \in 0..Len(turns) /\ lane.attempt \in Nat
    /\ startup.pc \in StartupPcs /\ startup.turn \in 0..Len(turns)
    /\ delivered \in [Reqs -> 0..MaxDeliveries] /\ crashes \in 0..MaxCrashes
    /\ admitted \in [Reqs -> Nat] /\ streak \in [Reqs -> Nat]
    /\ stopped \subseteq Dispatched

TurnsFor(r) == {t \in DOMAIN turns : turns[t].req = r}
RepliesTo(r) == {n \in DOMAIN replies : replies[n].req = r}
AnswersTo(r) == {n \in RepliesTo(r) : ~replies[n].redelivered}
IsPending(r) == InLedger(journal, r) /\ Entry(journal, r).state # "done"

(* A prompt that was accepted, has not been started or answered, and was not
   stopped is on disk as pending with its message: a kill at any point leaves
   it to be re-driven ("no queued message is lost"). *)
QueuedNeverLost ==
    \A r \in Prompts \ stopped :
        admitted[r] > 0 /\ TurnsFor(r) = {} /\ RepliesTo(r) = {}
            => IsPending(r) /\ Entry(journal, r).message

(* A request has one turn and one reply each time the ledger accepts it, and a
   kill costs at most one more of each.  A redelivery starts no turn and makes
   the agent answer nothing: at most it has the stored reply sent once more, so
   that all in all no more replies go out than deliveries came in and kills
   happened. *)
OneMorePerCrash ==
    \A r \in Prompts :
        /\ Cardinality(TurnsFor(r)) <= admitted[r] + crashes
        /\ Cardinality(AnswersTo(r)) <= admitted[r] + crashes
        /\ Cardinality(RepliesTo(r)) <= delivered[r] + crashes

(* A turn that keeps killing the process is resumed maxResumeAttempts times
   and then given up.  Only two things start the count again: the turn of
   another message that merges it before, and a kill right after the resume
   has merged it, when the next message's turn prunes the journal. *)
CrashLoopBounded == \A r \in Prompts : streak[r] <= 1 + MaxAttempts

(* A turn starts only when every earlier one was ended or merged: startup
   never has more than one turn of a session to resume. *)
AtMostOneOpenTurn == Cardinality(Unfinished(journal)) <= 1

(* The answer of a turn is in the transcript at most once, whether it was
   saved by the turn or merged from the journal. *)
AnswerSavedOnce ==
    \A s \in {disk, cache} : \A i, k \in DOMAIN s :
        s[i] = s[k] /\ s[i][1] = "answer" => i = k

(* A request that /stop aborted is not fed back to the agent, not even by a
   restart ("a stopped request must not be re-driven after a restart"). *)
StoppedNotRedriven == stopped \cap ToSet(bus) = {}

(* Saving a session never drops a prompt or an answer that was saved before,
   whichever snapshot or merge it comes from.  (A command turn may be lost.) *)
TranscriptOnlyGrows == [][IsPrefix(ChatHistory(disk), ChatHistory(disk'))]_vars

(* The ledger read from the journal behaves like RequestLife: no kill, merge,
   prune or eviction loses a pending request, reopens a settled one or
   forgets one that is still pending. *)
LedgerStatus(r) ==
    IF ~InLedger(journal, r) THEN "unknown"
    ELSE IF IsPending(r) THEN "pending" ELSE "settled"
Life == INSTANCE RequestLife
          WITH Requests <- Prompts, status <- [r \in Prompts |-> LedgerStatus(r)]
LedgerImplementsLife == Life!Spec

(* Every accepted prompt is closed in the ledger in the end, unless kills
   go on: it was answered, or given up. *)
AcceptedIsSettled == \A r \in Prompts : IsPending(r) ~> ~IsPending(r)

--------------------------------------------------------------------------------
(* What the documentation and the comments say, and the code does not do *)

(* "no message gets a second model turn" (docs/DURABILITY.md:6): a request is
   started afresh once, everything later resumes that turn. *)
FreshTurnsFor(r) == {t \in TurnsFor(r) : turns[t].attempt = 0}
NoSecondModelTurn == \A r \in Prompts : Cardinality(FreshTurnsFor(r)) <= admitted[r]

(* "`Completed` and `Failed` turns were saved by the normal path"
   (agent/recovery.rs:213), which is why recovery does not merge them. *)
EndedIsSaved ==
    \A i \in Records(journal, "turn_end") :
        \/ journal[i].outcome \notin {"completed", "failed"}
        \/ lane.turn = journal[i].turn
        \/ Answer(journal[i].turn) \in ToSet(disk)

(* "a turn is merged exactly once" (docs/DURABILITY.md:50): a turn marked as
   merged is in the saved transcript. *)
RestoredIsSaved ==
    \A t \in TurnsWith(journal, "turn_restored") :
        lane.pc = "restoring" \/ User(turns[t].req) \in ToSet(disk)

(* The other half of "merged exactly once": a prompt is not in the saved
   transcript more often than it was given to the agent afresh. *)
PromptSavedOnce ==
    \A r \in Prompts :
        Cardinality({i \in DOMAIN disk : disk[i] = User(r)})
            <= Cardinality(FreshTurnsFor(r))

(* "The reply of a resumed turn is published" (docs/DURABILITY.md:77): the
   reply to a request is the answer of one of its own turns. *)
ReplyIsOwn ==
    \A n \in DOMAIN replies :
        replies[n].turn # 0 => turns[replies[n].turn].req = replies[n].req

(* "at-least-once outbound" (docs/DURABILITY.md:10): what the ledger records
   as answered was sent, once its task is over. *)
AnsweredWasSent ==
    \A r \in Prompts :
        InLedger(journal, r) /\ Entry(journal, r).state = "done"
            /\ Entry(journal, r).outcome # NoOutcome /\ lane.req # r
            => RepliesTo(r) # {}

(* The gateway "re-drives messages that were queued but never answered"
   (docs/DURABILITY.md:76): an answered request does not enter the bus again. *)
AnsweredNotRedriven == \A r \in ToSet(bus) : RepliesTo(r) = {}
=============================================================================
