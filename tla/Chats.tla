--------------------------------- MODULE Chats ---------------------------------
(***************************************************************************)
(* One web chat and the control its users have over its turns.             *)
(*                                                                         *)
(* A message is registered as the running turn of the chat when it arrives *)
(* (session/websocket_turns.rs), published on the bus, spawned as a task   *)
(* and run when it gets the session lock.  A turn that wants to call a     *)
(* tool asks the user through the approval broker (agent/tool_approval.rs) *)
(* and waits, with a timeout.  The end of a turn is an outbound event that *)
(* the channel turns into the end of the registration.                     *)
(*                                                                         *)
(* Meanwhile the user may answer, press Stop, type /stop, clear or delete  *)
(* the chat, or revoke what was pre-approved.  Stopping aborts the tasks   *)
(* without waiting for them.  Turns that other parts of the program run on *)
(* the chat (process_direct: scheduled jobs, the REST API) take no lock,   *)
(* are not registered and cannot be stopped, but ask like the others.      *)
(*                                                                         *)
(* Everything here is in memory: a restart is Init again.                  *)
(***************************************************************************)
EXTENDS Integers, Sequences, FiniteSets

CONSTANTS
    Messages,     \* messages sent to the chat, each the turn it starts
    DirectTurns,  \* those that are turns run by process_direct
    NoMessage,
    Tools,        \* names of tools
    NoTool,
    Tabs,         \* tasks of connections that handle an envelope
    Loop,         \* the task of AgentLoop::run, which handles /stop itself
    MaxCalls,     \* bound: tool calls of a turn
    MaxGrants,    \* bound: grants given with an answer
    MaxEvents     \* bound: stops, clears and revocations

ASSUME MessagesAssumption == DirectTurns \subseteq Messages /\ NoMessage \notin Messages
ASSUME ToolsAssumption == NoTool \notin Tools
ASSUME HandlersAssumption == Loop \notin Tabs
ASSUME BoundsAssumption == MaxCalls \in Nat /\ MaxGrants \in Nat /\ MaxEvents \in Nat

VARIABLES
    phase,        \* per message, how far it is
    owned,        \* messages under way whose metadata names an owner of the registry
    registered,   \* the owner the turn registry shows as running, or none
    aborted,      \* messages whose task was aborted
    calls,        \* per message, tool calls so far
    tool,         \* per message, the tool of its call
    pending,      \* messages whose approval request the broker holds
    answered,     \* messages whose receiver was sent an answer
    grants,       \* what the chat has pre-approved
    outbox,       \* TurnEnd events on the bus: their owner, or none
    step,         \* per handler, what it does next
    clearing,     \* tabs that clear or delete the chat, not just stop it
    (* history *)
    given,        \* grants the user gave since they were last revoked
    overreach,    \* a call was let through that no such grant covers
    blurred,      \* owned messages under way when the whole chat was unregistered
    granted,      \* grants given so far
    events        \* stops, clears and revocations so far

turnVars == <<phase, aborted, calls, tool>>
registryVars == <<owned, registered, blurred>>
approvalVars == <<pending, answered>>
grantVars == <<grants, given, overreach, granted>>
handlerVars == <<step, clearing>>
vars == <<turnVars, registryVars, approvalVars, grantVars, handlerVars, outbox, events>>

Handlers == Tabs \union {Loop}
Owners == Messages \union {NoMessage}

(* "announced": registered, not yet published.  "expiring": its timeout fired,
   the guard of the request is not dropped yet.  "ending": its run returned,
   the stretch up to the TurnEnd awaits nothing any more. *)
Phases == {"unsent", "announced", "queued", "waiting", "running", "asking",
           "expiring", "ending", "over"}
Steps == {"idle", "cancel", "end", "revoke", "unregister"}
Grants == [turn : Owners, all : BOOLEAN, tools : SUBSET Tools]
NoGrants == [turn |-> NoMessage, all |-> FALSE, tools |-> {}]
Scopes == {"turn", "session", "session_tool"}
GivenGrants == [scope : Scopes, turn : Owners, tool : Tools \union {NoTool}]

TypeOK ==
    /\ phase \in [Messages -> Phases] /\ aborted \subseteq Messages
    /\ calls \in [Messages -> Nat] /\ tool \in [Messages -> Tools \union {NoTool}]
    /\ owned \subseteq Messages /\ registered \in Owners /\ blurred \subseteq Messages
    /\ pending \subseteq Messages /\ answered \subseteq Messages
    /\ grants \in Grants /\ given \subseteq GivenGrants /\ overreach \in BOOLEAN
    /\ step \in [Handlers -> Steps] /\ clearing \subseteq Tabs
    /\ outbox \in Seq(Owners)
    /\ granted \in Nat /\ events \in Nat

OfBus(m) == m \notin DirectTurns

Init ==
    /\ phase = [m \in Messages |-> "unsent"] /\ aborted = {}
    /\ calls = [m \in Messages |-> 0] /\ tool = [m \in Messages |-> NoTool]
    /\ owned = {} /\ registered = NoMessage /\ blurred = {}
    /\ pending = {} /\ answered = {}
    /\ grants = NoGrants /\ given = {} /\ overreach = FALSE
    /\ step = [h \in Handlers |-> "idle"] /\ clearing = {}
    /\ outbox = <<>>
    /\ granted = 0 /\ events = 0

UnderWay == {"announced", "queued", "waiting", "running", "asking", "expiring", "ending"}
HoldsLock == {"running", "asking", "expiring", "ending"}

Goto(m, p) == phase' = [phase EXCEPT ![m] = p]

--------------------------------------------------------------------------------
(* The turn registry *)

(* What the model keeps of a message that is over: nothing. *)
Forgotten(m) ==
    /\ aborted' = aborted \ {m}
    /\ calls' = [calls EXCEPT ![m] = 0]
    /\ owned' = owned \ {m}
    /\ blurred' = blurred \ {m}

(* Mutant of ClearedBy: an owner that ended clears the whole chat. *)
ClearedByAny(owner) == registered # NoMessage

(* clear_turn_if_current with an owner, clear_chat without one *)
ClearedBy(owner) == owner = NoMessage \/ owner = registered

Cleared(owner) == registered' = IF ClearedBy(owner) THEN NoMessage ELSE registered

Unregistered(owner) ==
    /\ Cleared(owner)
    /\ blurred' = IF owner = NoMessage THEN owned ELSE blurred
    /\ UNCHANGED owned

(* handle_envelope_message: a message that starts a turn is registered if the
   chat has no running turn.  A command does not; neither does a message that
   is the bare name of one, which the loop takes for text.  Awaits follow before
   the message is published. *)
Arrive(m) ==
    /\ phase[m] = "unsent" /\ OfBus(m)
    /\ Goto(m, "announced")
    /\ \/ /\ registered = NoMessage
          /\ registered' = m /\ owned' = owned \union {m}
       \/ UNCHANGED <<registered, owned>>
    /\ UNCHANGED <<blurred, aborted, calls, tool, approvalVars, grantVars, handlerVars,
                   outbox, events>>

Publish(m) ==
    /\ phase[m] = "announced"
    /\ Goto(m, "queued")
    /\ UNCHANGED <<aborted, calls, tool, registryVars, approvalVars, grantVars,
                   handlerVars, outbox, events>>

(* Mutant of PublishFails: the registration of a message that was not published stays. *)
PublishFailsKept(m) ==
    /\ phase[m] = "announced"
    /\ Goto(m, "over") /\ Forgotten(m)
    /\ UNCHANGED <<registered, tool, approvalVars, grantVars, handlerVars, outbox, events>>

(* The sender was disallowed during the awaits, or the bus is closed. *)
PublishFails(m) ==
    /\ phase[m] = "announced"
    /\ Goto(m, "over") /\ Forgotten(m)
    /\ IF m \in owned THEN Cleared(m) ELSE UNCHANGED registered
    /\ UNCHANGED <<tool, approvalVars, grantVars, handlerVars, outbox, events>>

(* The channel manager hands the next TurnEnd to the channel. *)
Deliver ==
    /\ outbox # <<>>
    /\ Unregistered(Head(outbox))
    /\ outbox' = Tail(outbox)
    /\ UNCHANGED <<turnVars, approvalVars, grantVars, handlerVars, events>>

--------------------------------------------------------------------------------
(* A turn *)

(* AgentLoop::run spawns a task per message; /stop runs in its place. *)
Spawn(m) ==
    /\ phase[m] = "queued" /\ step[Loop] = "idle"
    /\ Goto(m, "waiting")
    /\ UNCHANGED <<aborted, calls, tool, registryVars, approvalVars, grantVars,
                   handlerVars, outbox, events>>

TakeLock(m) ==
    /\ phase[m] = "waiting" /\ m \notin aborted
    /\ \A n \in Messages : OfBus(n) => phase[n] \notin HoldsLock
    /\ Goto(m, "running")
    /\ UNCHANGED <<aborted, calls, tool, registryVars, approvalVars, grantVars,
                   handlerVars, outbox, events>>

StartDirect(m) ==
    /\ phase[m] = "unsent" /\ ~OfBus(m)
    /\ Goto(m, "running")
    /\ UNCHANGED <<aborted, calls, tool, registryVars, approvalVars, grantVars,
                   handlerVars, outbox, events>>

(* Mutant of IsGranted: the turn a turn grant is pinned to is not compared. *)
IsGrantedAnyTurn(m, t) ==
    grants.all \/ t \in grants.tools \/ grants.turn # NoMessage

IsGranted(m, t) == grants.all \/ t \in grants.tools \/ grants.turn = m

Covers(g, m, t) ==
    \/ g.scope = "session"
    \/ g.scope = "session_tool" /\ g.tool = t
    \/ g.scope = "turn" /\ g.turn = m

Calls(m) ==
    /\ phase[m] = "running" /\ calls[m] < MaxCalls
    /\ calls' = [calls EXCEPT ![m] = @ + 1]

(* authorize_call: an earlier grant lets the call through. *)
CallGranted(m, t) ==
    /\ Calls(m) /\ IsGranted(m, t)
    /\ overreach' = (overreach \/ ~\E g \in given : Covers(g, m, t))
    /\ UNCHANGED <<phase, aborted, tool, grants, given, granted, registryVars, approvalVars,
                   handlerVars, outbox, events>>

(* authorize_call: the request is registered and sent to the tabs.  From now on
   a tab may answer it: one that attaches is sent the pending ones at once. *)
Ask(m, t) ==
    /\ Calls(m) /\ ~IsGranted(m, t)
    /\ Goto(m, "asking")
    /\ tool' = [tool EXCEPT ![m] = t]
    /\ pending' = pending \union {m}
    /\ UNCHANGED <<aborted, answered, registryVars, grantVars, handlerVars, outbox, events>>

(* PendingGuard is dropped with the call it waits for. *)
GuardDropped(m) ==
    /\ pending' = pending \ {m}
    /\ answered' = answered \ {m}
    /\ tool' = [tool EXCEPT ![m] = NoTool]

(* The turn is polled again after an answer: allowed or denied, it goes on. *)
Proceed(m) ==
    /\ phase[m] = "asking" /\ m \notin aborted /\ m \in answered
    /\ Goto(m, "running")
    /\ GuardDropped(m)
    /\ UNCHANGED <<aborted, calls, registryVars, grantVars,
                   handlerVars, outbox, events>>

(* Mutant of Expire: the wait has no timeout. *)
ExpireNever(m) == m \notin Messages /\ UNCHANGED vars

(* The timeout fires: the call is denied, whatever arrives now. *)
Expire(m) ==
    /\ phase[m] = "asking" /\ m \notin aborted /\ m \notin answered
    /\ Goto(m, "expiring")
    /\ UNCHANGED <<aborted, calls, tool, registryVars, approvalVars, grantVars,
                   handlerVars, outbox, events>>

Denied(m) ==
    /\ phase[m] = "expiring"
    /\ Goto(m, "running")
    /\ GuardDropped(m)
    /\ UNCHANGED <<aborted, calls, registryVars, grantVars, handlerVars, outbox, events>>

(* The run returns.  An aborted task that is being polled still gets here. *)
RunReturns(m) ==
    /\ phase[m] = "running"
    /\ IF OfBus(m) THEN Goto(m, "ending") /\ UNCHANGED <<aborted, calls, owned, blurred>>
                   ELSE Goto(m, "over") /\ Forgotten(m)
    /\ UNCHANGED <<registered, tool, approvalVars, grantVars, handlerVars, outbox, events>>

OwnerOf(m) == IF m \in owned THEN m ELSE NoMessage

PublishTurnEnd(m) ==
    /\ phase[m] = "ending"
    /\ Goto(m, "over") /\ Forgotten(m)
    /\ outbox' = Append(outbox, OwnerOf(m))
    /\ UNCHANGED <<registered, tool, approvalVars, grantVars, handlerVars, events>>

(* Mutant of Dropped: nothing removes the request of a turn that is dropped. *)
DroppedUnguarded(m) ==
    /\ m \in aborted /\ phase[m] \in {"waiting", "running", "asking"}
    /\ Goto(m, "over") /\ Forgotten(m)
    /\ UNCHANGED <<registered, tool, approvalVars, grantVars, handlerVars, outbox, events>>

(* An aborted task is dropped at its next await: it publishes no TurnEnd. *)
Dropped(m) ==
    /\ m \in aborted /\ phase[m] \in {"waiting", "running", "asking"}
    /\ Goto(m, "over")
    /\ GuardDropped(m) /\ Forgotten(m)
    /\ UNCHANGED <<registered, grantVars, handlerVars, outbox, events>>

--------------------------------------------------------------------------------
(* The user *)

Spend == events < MaxEvents /\ events' = events + 1

(* Mutant of WithGrant: the tools of the grant are those the client names. *)
WithGrantOfClient(scope, m) ==
    CASE scope = "turn" -> [grants EXCEPT !.turn = m]
      [] scope = "session" -> [grants EXCEPT !.all = TRUE]
      [] scope = "session_tool" -> [grants EXCEPT !.tools = @ \union {NoTool}]

WithGrant(scope, m) ==
    CASE scope = "turn" -> [grants EXCEPT !.turn = m]
      [] scope = "session" -> [grants EXCEPT !.all = TRUE]
      [] scope = "session_tool" -> [grants EXCEPT !.tools = @ \union {tool[m]}]

(* The same, for the history. *)
Given(scope, m) ==
    [scope |-> scope,
     turn |-> IF scope = "turn" THEN m ELSE NoMessage,
     tool |-> IF scope = "session_tool" THEN tool[m] ELSE NoTool]

(* resolve_with_grant: the first answer to a pending request wins, and what it
   says only decides whether this call is let through.  A grant is recorded with
   an approval only, for what the request asked.  The turn may be past waiting. *)
Answer(m, scope) ==
    /\ m \in pending
    /\ pending' = pending \ {m}
    /\ answered' = answered \union {m}
    /\ IF scope \in Scopes
       THEN /\ granted < MaxGrants /\ granted' = granted + 1
            /\ grants' = WithGrant(scope, m)
            /\ given' = given \union {Given(scope, m)}
       ELSE UNCHANGED <<grants, given, granted>>
    /\ UNCHANGED <<overreach, turnVars, registryVars, handlerVars, outbox, events>>

RevokedGrants == grants' = NoGrants /\ given' = {} /\ UNCHANGED <<overreach, granted>>

Revoke ==
    /\ Spend /\ RevokedGrants
    /\ UNCHANGED <<turnVars, registryVars, approvalVars, handlerVars, outbox>>

(* handle_envelope_abort_turn: a click that names another turn than the one
   registered is refused; one that names none, or finds none, goes through. *)
ClickStop(h, requested) ==
    /\ h # Loop /\ step[h] = "idle" /\ Spend
    /\ requested = NoMessage \/ registered \in {NoMessage, requested}
    /\ step' = [step EXCEPT ![h] = "cancel"]
    /\ UNCHANGED <<clearing, turnVars, registryVars, approvalVars, grantVars, outbox>>

(* handle_envelope_clear_session, handle_envelope_delete_chat *)
ClickClear(h) ==
    /\ h # Loop /\ step[h] = "idle" /\ Spend
    /\ step' = [step EXCEPT ![h] = "cancel"]
    /\ clearing' = clearing \union {h}
    /\ UNCHANGED <<turnVars, registryVars, approvalVars, grantVars, outbox>>

(* The loop takes /stop from the bus and handles it inline. *)
TypeStop ==
    /\ step[Loop] = "idle" /\ Spend
    /\ step' = [step EXCEPT ![Loop] = "cancel"]
    /\ UNCHANGED <<clearing, turnVars, registryVars, approvalVars, grantVars, outbox>>

Abortable == {"waiting", "running", "asking", "expiring"}

(* abort_session takes the tasks of the session and aborts them.  One in its last
   stretch awaits nothing any more: it does not notice. *)
AbortTasks(h) ==
    /\ step[h] = "cancel"
    /\ step' = [step EXCEPT ![h] = "end"]
    /\ aborted' = aborted \union {m \in Messages : OfBus(m) /\ phase[m] \in Abortable}
    /\ UNCHANGED <<clearing, phase, calls, tool, registryVars, approvalVars, grantVars,
                   outbox, events>>

AfterEnd(h) ==
    IF h = Loop THEN "idle" ELSE IF h \in clearing THEN "revoke" ELSE "unregister"

(* Mutant of AbortEnds: the abort publishes no TurnEnd for the tasks it ended. *)
AbortEndsSilently(h) ==
    /\ step[h] = "end"
    /\ step' = [step EXCEPT ![h] = AfterEnd(h)]
    /\ UNCHANGED <<outbox, clearing, turnVars, registryVars, approvalVars, grantVars, events>>

(* Its subagents cancelled, abort_session publishes a TurnEnd; the message it
   was called with names no owner. *)
AbortEnds(h) ==
    /\ step[h] = "end"
    /\ step' = [step EXCEPT ![h] = AfterEnd(h)]
    /\ outbox' = Append(outbox, NoMessage)
    /\ UNCHANGED <<clearing, turnVars, registryVars, approvalVars, grantVars, events>>

ClearRevokes(h) ==
    /\ step[h] = "revoke"
    /\ step' = [step EXCEPT ![h] = "unregister"]
    /\ RevokedGrants
    /\ UNCHANGED <<clearing, turnVars, registryVars, approvalVars, outbox, events>>

Unregister(h) ==
    /\ step[h] = "unregister"
    /\ step' = [step EXCEPT ![h] = "idle"]
    /\ clearing' = clearing \ {h}
    /\ Unregistered(NoMessage)
    /\ UNCHANGED <<turnVars, approvalVars, grantVars, outbox, events>>

--------------------------------------------------------------------------------

(* What the runtime, the timer and the dropping of a task do to a message. *)
Progress(m) ==
    \/ Publish(m) \/ PublishFails(m) \/ Spawn(m) \/ TakeLock(m)
    \/ Proceed(m) \/ Expire(m) \/ Denied(m)
    \/ RunReturns(m) \/ PublishTurnEnd(m) \/ Dropped(m)

Call(m) == \E t \in Tools : CallGranted(m, t) \/ Ask(m, t)

UserStep ==
    \/ \E m \in Messages, scope \in Scopes \union {"none"} : Answer(m, scope)
    \/ Revoke \/ TypeStop
    \/ \E h \in Tabs :
          ClickClear(h) \/ \E requested \in Owners : ClickStop(h, requested)

HandlerStep(h) == AbortTasks(h) \/ AbortEnds(h) \/ ClearRevokes(h) \/ Unregister(h)

Next ==
    \/ \E m \in Messages : Arrive(m) \/ StartDirect(m) \/ Progress(m) \/ Call(m)
    \/ UserStep
    \/ \E h \in Handlers : HandlerStep(h)
    \/ Deliver

Spec == Init /\ [][Next]_vars

(* Every task is polled when it can go on, the timeout of a request fires, a run
   returns (the runner bounds its iterations and the provider its waits), and
   the channel manager's dispatcher goes on.  Nothing the user does is fair. *)
Fairness ==
    /\ \A m \in Messages : WF_vars(Progress(m))
    /\ \A h \in Handlers : WF_vars(HandlerStep(h))
    /\ WF_vars(Deliver)

FairSpec == Spec /\ Fairness

--------------------------------------------------------------------------------
(* Properties *)

(* A call that was not put to the user is covered by a grant he gave since the
   grants were last revoked: for this very turn, for this tool, or for the
   chat.  Two turns may run at once and ask in turns, and an answer may come
   after its turn stopped waiting (ApprovalGrants::is_granted, doc of
   ApprovalGrant). *)
GrantCoversCall == ~overreach

(* A request the broker holds belongs to a turn that waits for it, or did until
   it was aborted or timed out a moment ago: a tab that attaches is never sent
   a request nobody waits for any more (PendingGuard,
   resend_pending_tool_approvals). *)
PendingHasWaiter == \A m \in pending : phase[m] \in {"asking", "expiring"}

IsIn(owner, box) == \E i \in 1..Len(box) : box[i] = owner

(* Something is under way that unregisters the whole chat. *)
Settling ==
    \/ IsIn(NoMessage, outbox)
    \/ \E h \in Handlers : step[h] \in {"end", "revoke", "unregister"}

(* A chat shown as running has a turn under way, or something is under way that
   takes the registration back: the turn's own TurnEnd, or what an abort still
   has to do.  It is never left reading as running with nothing behind it
   (comment in handle_envelope_abort_turn). *)
RegisteredIsUnderWay ==
    registered # NoMessage =>
        \/ phase[registered] \in UnderWay
        \/ IsIn(registered, outbox)
        \/ Settling

(* A turn that was registered is shown as running until it ends, unless the
   whole chat was unregistered meanwhile: the end of another turn of the chat
   does not take its registration away (doc of clear_turn_if_current). *)
ShownWhileRunning ==
    \A m \in owned \ blurred : phase[m] \in UnderWay /\ registered = m

(* Every message comes to an end, whoever fails to answer and whatever is
   stopped: no turn waits for ever, for an answer or for the lock of a turn that
   was aborted.  Messages are few, so that in the end none is under way
   (timeout of authorize_call, drop of TurnSlot). *)
MessagesEnd == []<>(\A m \in Messages : phase[m] \in {"unsent", "over"})

(* A chat shown as running is shown as idle again (Deliver, PublishFails and
   what an abort does are all there is to see to it). *)
IdleAgain == []<>(registered = NoMessage)

================================================================================
