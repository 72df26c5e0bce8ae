------------------------------ MODULE Chats_proofs ------------------------------
(***************************************************************************)
(* Proofs about one web chat, for any messages, tools, tabs and bounds.    *)
(***************************************************************************)
EXTENDS Chats, TLAPS

--------------------------------------------------------------------------------
(* Types *)

(* A request that is pending names its tool. *)
Asked == \A m \in pending : tool[m] \in Tools

TypeInv == TypeOK /\ Asked

LEMMA TypeInit == Init => TypeInv
  <1> SUFFICES ASSUME Init PROVE TypeInv
    OBVIOUS
  <1>1. outbox \in Seq(Owners)
    BY DEF Init
  <1>2. Asked
    BY DEF Init, Asked
  <1>3. NoGrants \in Grants
    BY DEF NoGrants, Grants, Owners
  <1>4. /\ phase \in [Messages -> Phases] /\ step \in [Handlers -> Steps]
        /\ tool \in [Messages -> Tools \union {NoTool}] /\ calls \in [Messages -> Nat]
    BY DEF Init, Phases, Steps
  <1>5. overreach \in BOOLEAN
    BY DEF Init
  <1>6. /\ aborted \subseteq Messages /\ owned \subseteq Messages /\ blurred \subseteq Messages
        /\ pending \subseteq Messages /\ answered \subseteq Messages
        /\ given \subseteq GivenGrants /\ clearing \subseteq Tabs
        /\ registered \in Owners /\ granted \in Nat /\ events \in Nat
    BY DEF Init, Owners
  <1>7. grants \in Grants
    BY <1>3 DEF Init
  <1>q. QED
    BY <1>1, <1>2, <1>4, <1>5, <1>6, <1>7 DEF TypeInv, TypeOK

LEMMA TypeStep == TypeInv /\ [Next]_vars => TypeInv'
  <1> SUFFICES ASSUME TypeInv, [Next]_vars PROVE TypeInv'
    OBVIOUS
  <1>1. ASSUME NEW m \in Messages, Arrive(m) PROVE TypeInv'
    BY <1>1, MessagesAssumption, ToolsAssumption, HandlersAssumption
    DEF Arrive, OfBus, Goto, turnVars, registryVars, approvalVars, grantVars, handlerVars, vars,
        TypeInv, TypeOK, Asked, Phases, Owners, Handlers, Steps, Grants, NoGrants,
        GivenGrants, Scopes
  <1>2. ASSUME NEW m \in Messages, StartDirect(m) PROVE TypeInv'
    BY <1>2, MessagesAssumption, ToolsAssumption, HandlersAssumption
    DEF StartDirect, OfBus, Goto, turnVars, registryVars, approvalVars, grantVars,
        handlerVars, vars,
        TypeInv, TypeOK, Asked, Phases, Owners, Handlers, Steps, Grants, NoGrants,
        GivenGrants, Scopes
  <1>3. ASSUME NEW m \in Messages, Publish(m) PROVE TypeInv'
    BY <1>3, MessagesAssumption, ToolsAssumption, HandlersAssumption
    DEF Publish, Goto, turnVars, registryVars, approvalVars, grantVars, handlerVars, vars,
        TypeInv, TypeOK, Asked, Phases, Owners, Handlers, Steps, Grants, NoGrants,
        GivenGrants, Scopes
  <1>4. ASSUME NEW m \in Messages, PublishFails(m) PROVE TypeInv'
    BY <1>4, MessagesAssumption, ToolsAssumption, HandlersAssumption
    DEF PublishFails, Goto, Forgotten, Cleared, ClearedBy, turnVars, registryVars,
        approvalVars, grantVars, handlerVars, vars,
        TypeInv, TypeOK, Asked, Phases, Owners, Handlers, Steps, Grants, NoGrants,
        GivenGrants, Scopes
  <1>5. ASSUME NEW m \in Messages, Spawn(m) PROVE TypeInv'
    BY <1>5, MessagesAssumption, ToolsAssumption, HandlersAssumption
    DEF Spawn, Goto, turnVars, registryVars, approvalVars, grantVars, handlerVars, vars,
        TypeInv, TypeOK, Asked, Phases, Owners, Handlers, Steps, Grants, NoGrants,
        GivenGrants, Scopes
  <1>6. ASSUME NEW m \in Messages, TakeLock(m) PROVE TypeInv'
    BY <1>6, MessagesAssumption, ToolsAssumption, HandlersAssumption
    DEF TakeLock, Goto, HoldsLock, OfBus, turnVars, registryVars, approvalVars, grantVars,
        handlerVars, vars,
        TypeInv, TypeOK, Asked, Phases, Owners, Handlers, Steps, Grants, NoGrants,
        GivenGrants, Scopes
  <1>7. ASSUME NEW m \in Messages, Proceed(m) PROVE TypeInv'
    BY <1>7, MessagesAssumption, ToolsAssumption, HandlersAssumption
    DEF Proceed, Goto, GuardDropped, turnVars, registryVars, approvalVars, grantVars,
        handlerVars, vars,
        TypeInv, TypeOK, Asked, Phases, Owners, Handlers, Steps, Grants, NoGrants,
        GivenGrants, Scopes
  <1>8. ASSUME NEW m \in Messages, Expire(m) PROVE TypeInv'
    BY <1>8, MessagesAssumption, ToolsAssumption, HandlersAssumption
    DEF Expire, Goto, turnVars, registryVars, approvalVars, grantVars, handlerVars, vars,
        TypeInv, TypeOK, Asked, Phases, Owners, Handlers, Steps, Grants, NoGrants,
        GivenGrants, Scopes
  <1>9. ASSUME NEW m \in Messages, Denied(m) PROVE TypeInv'
    BY <1>9, MessagesAssumption, ToolsAssumption, HandlersAssumption
    DEF Denied, Goto, GuardDropped, turnVars, registryVars, approvalVars, grantVars,
        handlerVars, vars,
        TypeInv, TypeOK, Asked, Phases, Owners, Handlers, Steps, Grants, NoGrants,
        GivenGrants, Scopes
  <1>10. ASSUME NEW m \in Messages, RunReturns(m) PROVE TypeInv'
    <2>1. CASE OfBus(m)
      BY <1>10, <2>1 DEF RunReturns, OfBus, Goto, approvalVars, grantVars, handlerVars,
        TypeInv, TypeOK, Asked, Phases
    <2>2. CASE ~OfBus(m)
      <3>1. /\ phase' = [phase EXCEPT ![m] = "over"] /\ calls' = [calls EXCEPT ![m] = 0]
            /\ aborted' = aborted \ {m} /\ owned' = owned \ {m} /\ blurred' = blurred \ {m}
        BY <1>10, <2>2 DEF RunReturns, Goto, Forgotten
      <3>2. UNCHANGED <<registered, tool, pending, answered, grants, given, overreach, granted,
                        step, clearing, outbox, events>>
        BY <1>10 DEF RunReturns, approvalVars, grantVars, handlerVars
      <3>q. QED
        BY <3>1, <3>2 DEF TypeInv, TypeOK, Asked, Phases
    <2>q. QED
      BY <2>1, <2>2
  <1>11. ASSUME NEW m \in Messages, PublishTurnEnd(m) PROVE TypeInv'
    BY <1>11, MessagesAssumption, ToolsAssumption, HandlersAssumption
    DEF PublishTurnEnd, Goto, Forgotten, OwnerOf, turnVars, registryVars, approvalVars,
        grantVars, handlerVars, vars,
        TypeInv, TypeOK, Asked, Phases, Owners, Handlers, Steps, Grants, NoGrants,
        GivenGrants, Scopes
  <1>12. ASSUME NEW m \in Messages, Dropped(m) PROVE TypeInv'
    BY <1>12, MessagesAssumption, ToolsAssumption, HandlersAssumption
    DEF Dropped, Goto, GuardDropped, Forgotten, turnVars, registryVars, approvalVars,
        grantVars, handlerVars, vars,
        TypeInv, TypeOK, Asked, Phases, Owners, Handlers, Steps, Grants, NoGrants,
        GivenGrants, Scopes
  <1>13. ASSUME NEW m \in Messages, NEW t \in Tools, CallGranted(m, t) PROVE TypeInv'
    BY <1>13, MessagesAssumption, ToolsAssumption, HandlersAssumption
    DEF CallGranted, Calls, IsGranted, Covers, turnVars, registryVars, approvalVars,
        grantVars, handlerVars, vars,
        TypeInv, TypeOK, Asked, Phases, Owners, Handlers, Steps, Grants, NoGrants,
        GivenGrants, Scopes
  <1>14. ASSUME NEW m \in Messages, NEW t \in Tools, Ask(m, t) PROVE TypeInv'
    BY <1>14, MessagesAssumption, ToolsAssumption, HandlersAssumption
    DEF Ask, Calls, Goto, IsGranted, turnVars, registryVars, approvalVars, grantVars,
        handlerVars, vars,
        TypeInv, TypeOK, Asked, Phases, Owners, Handlers, Steps, Grants, NoGrants,
        GivenGrants, Scopes
  <1>15. ASSUME NEW m \in Messages, NEW scope \in Scopes \union {"none"}, Answer(m, scope)
       PROVE TypeInv'
    <2>1. m \in pending /\ tool[m] \in Tools /\ grants \in Grants
      BY <1>15 DEF Answer, TypeInv, TypeOK, Asked
    <2>2. ASSUME scope \in Scopes PROVE WithGrant(scope, m) \in Grants
      BY <2>1, <2>2 DEF WithGrant, Grants, Scopes, Owners
    <2>3. ASSUME scope \in Scopes PROVE Given(scope, m) \in GivenGrants
      BY <2>1, <2>3 DEF Given, GivenGrants, Owners
    <2>4. grants' \in Grants /\ given' \subseteq GivenGrants /\ granted' \in Nat
      BY <1>15, <2>2, <2>3 DEF Answer, TypeInv, TypeOK
    <2>5. overreach' \in BOOLEAN
      BY <1>15 DEF Answer, TypeInv, TypeOK
    <2>q. QED
      BY <1>15, <2>4, <2>5 DEF Answer, turnVars, registryVars, handlerVars, TypeInv, TypeOK,
          Asked
  <1>16. CASE Revoke
    BY <1>16, MessagesAssumption, ToolsAssumption, HandlersAssumption
    DEF Revoke, Spend, RevokedGrants, turnVars, registryVars, approvalVars, grantVars,
        handlerVars, vars,
        TypeInv, TypeOK, Asked, Phases, Owners, Handlers, Steps, Grants, NoGrants,
        GivenGrants, Scopes
  <1>17. CASE TypeStop
    BY <1>17, MessagesAssumption, ToolsAssumption, HandlersAssumption
    DEF TypeStop, Spend, turnVars, registryVars, approvalVars, grantVars, handlerVars, vars,
        TypeInv, TypeOK, Asked, Phases, Owners, Handlers, Steps, Grants, NoGrants,
        GivenGrants, Scopes
  <1>18. ASSUME NEW h \in Tabs, ClickClear(h) PROVE TypeInv'
    BY <1>18, MessagesAssumption, ToolsAssumption, HandlersAssumption
    DEF ClickClear, Spend, turnVars, registryVars, approvalVars, grantVars, handlerVars, vars,
        TypeInv, TypeOK, Asked, Phases, Owners, Handlers, Steps, Grants, NoGrants,
        GivenGrants, Scopes
  <1>19. ASSUME NEW h \in Tabs, NEW requested \in Owners, ClickStop(h, requested)
       PROVE TypeInv'
    BY <1>19, MessagesAssumption, ToolsAssumption, HandlersAssumption
    DEF ClickStop, Spend, turnVars, registryVars, approvalVars, grantVars, handlerVars, vars,
        TypeInv, TypeOK, Asked, Phases, Owners, Handlers, Steps, Grants, NoGrants,
        GivenGrants, Scopes
  <1>20. ASSUME NEW h \in Handlers, AbortTasks(h) PROVE TypeInv'
    BY <1>20, MessagesAssumption, ToolsAssumption, HandlersAssumption
    DEF AbortTasks, OfBus, Abortable, turnVars, registryVars, approvalVars, grantVars,
        handlerVars, vars,
        TypeInv, TypeOK, Asked, Phases, Owners, Handlers, Steps, Grants, NoGrants,
        GivenGrants, Scopes
  <1>21. ASSUME NEW h \in Handlers, AbortEnds(h) PROVE TypeInv'
    BY <1>21, MessagesAssumption, ToolsAssumption, HandlersAssumption
    DEF AbortEnds, AfterEnd, turnVars, registryVars, approvalVars, grantVars, handlerVars, vars,
        TypeInv, TypeOK, Asked, Phases, Owners, Handlers, Steps, Grants, NoGrants,
        GivenGrants, Scopes
  <1>22. ASSUME NEW h \in Handlers, ClearRevokes(h) PROVE TypeInv'
    BY <1>22, MessagesAssumption, ToolsAssumption, HandlersAssumption
    DEF ClearRevokes, RevokedGrants, turnVars, registryVars, approvalVars, grantVars,
        handlerVars, vars,
        TypeInv, TypeOK, Asked, Phases, Owners, Handlers, Steps, Grants, NoGrants,
        GivenGrants, Scopes
  <1>23. ASSUME NEW h \in Handlers, Unregister(h) PROVE TypeInv'
    BY <1>23, MessagesAssumption, ToolsAssumption, HandlersAssumption
    DEF Unregister, Unregistered, Cleared, ClearedBy, turnVars, registryVars, approvalVars,
        grantVars, handlerVars, vars,
        TypeInv, TypeOK, Asked, Phases, Owners, Handlers, Steps, Grants, NoGrants,
        GivenGrants, Scopes
  <1>24. CASE Deliver
    BY <1>24, MessagesAssumption, ToolsAssumption, HandlersAssumption
    DEF Deliver, Unregistered, Cleared, ClearedBy, turnVars, registryVars, approvalVars,
        grantVars, handlerVars, vars,
        TypeInv, TypeOK, Asked, Phases, Owners, Handlers, Steps, Grants, NoGrants,
        GivenGrants, Scopes
  <1>25. CASE UNCHANGED vars
    BY <1>25, MessagesAssumption, ToolsAssumption, HandlersAssumption
    DEF turnVars, registryVars, approvalVars, grantVars, handlerVars, vars,
        TypeInv, TypeOK, Asked, Phases, Owners, Handlers, Steps, Grants, NoGrants,
        GivenGrants, Scopes
  <1>q. QED
    BY <1>1, <1>2, <1>3, <1>4, <1>5, <1>6, <1>7, <1>8, <1>9, <1>10, <1>11, <1>12, <1>13,
        <1>14, <1>15, <1>16, <1>17, <1>18, <1>19, <1>20, <1>21, <1>22, <1>23, <1>24, <1>25
    DEF Next, Progress, Call, UserStep, HandlerStep, Handlers

(* The type invariant, with the one fact about pending requests it needs. *)
THEOREM TypeCorrect == Spec => [](TypeOK /\ Asked)
  <1>1. Spec => []TypeInv
    BY TypeInit, TypeStep, PTL DEF Spec
  <1>q. QED
    BY <1>1, PTL DEF TypeInv

--------------------------------------------------------------------------------
(* Requests *)

LEMMA WaitersStep == TypeInv /\ PendingHasWaiter /\ [Next]_vars => PendingHasWaiter'
  <1> SUFFICES ASSUME TypeInv, PendingHasWaiter, [Next]_vars PROVE PendingHasWaiter'
    OBVIOUS
  <1> USE DEF PendingHasWaiter
  <1>1. ASSUME NEW m \in Messages, Arrive(m) PROVE PendingHasWaiter'
    BY <1>1 DEF Arrive, Goto, turnVars, approvalVars, TypeInv, TypeOK
  <1>2. ASSUME NEW m \in Messages, StartDirect(m) PROVE PendingHasWaiter'
    BY <1>2 DEF StartDirect, Goto, turnVars, approvalVars, TypeInv, TypeOK
  <1>3. ASSUME NEW m \in Messages, Publish(m) PROVE PendingHasWaiter'
    BY <1>3 DEF Publish, Goto, turnVars, approvalVars, TypeInv, TypeOK
  <1>4. ASSUME NEW m \in Messages, PublishFails(m) PROVE PendingHasWaiter'
    BY <1>4 DEF PublishFails, Goto, turnVars, approvalVars, TypeInv, TypeOK
  <1>5. ASSUME NEW m \in Messages, Spawn(m) PROVE PendingHasWaiter'
    BY <1>5 DEF Spawn, Goto, turnVars, approvalVars, TypeInv, TypeOK
  <1>6. ASSUME NEW m \in Messages, TakeLock(m) PROVE PendingHasWaiter'
    BY <1>6 DEF TakeLock, Goto, turnVars, approvalVars, TypeInv, TypeOK
  <1>7. ASSUME NEW m \in Messages, Proceed(m) PROVE PendingHasWaiter'
    BY <1>7 DEF Proceed, Goto, GuardDropped, turnVars, approvalVars, TypeInv, TypeOK
  <1>8. ASSUME NEW m \in Messages, Expire(m) PROVE PendingHasWaiter'
    BY <1>8 DEF Expire, Goto, turnVars, approvalVars, TypeInv, TypeOK
  <1>9. ASSUME NEW m \in Messages, Denied(m) PROVE PendingHasWaiter'
    BY <1>9 DEF Denied, Goto, GuardDropped, turnVars, approvalVars, TypeInv, TypeOK
  <1>10. ASSUME NEW m \in Messages, RunReturns(m) PROVE PendingHasWaiter'
    BY <1>10 DEF RunReturns, Goto, turnVars, approvalVars, TypeInv, TypeOK
  <1>11. ASSUME NEW m \in Messages, PublishTurnEnd(m) PROVE PendingHasWaiter'
    BY <1>11 DEF PublishTurnEnd, Goto, turnVars, approvalVars, TypeInv, TypeOK
  <1>12. ASSUME NEW m \in Messages, Dropped(m) PROVE PendingHasWaiter'
    BY <1>12 DEF Dropped, Goto, GuardDropped, turnVars, approvalVars, TypeInv, TypeOK
  <1>13. ASSUME NEW m \in Messages, NEW t \in Tools, CallGranted(m, t)
       PROVE PendingHasWaiter'
    BY <1>13 DEF CallGranted, turnVars, approvalVars, TypeInv, TypeOK
  <1>14. ASSUME NEW m \in Messages, NEW t \in Tools, Ask(m, t) PROVE PendingHasWaiter'
    BY <1>14 DEF Ask, Goto, turnVars, approvalVars, TypeInv, TypeOK
  <1>15. ASSUME NEW m \in Messages, NEW scope \in Scopes \union {"none"}, Answer(m, scope)
       PROVE PendingHasWaiter'
    BY <1>15 DEF Answer, turnVars, approvalVars, TypeInv, TypeOK
  <1>16. CASE Revoke
    BY <1>16 DEF Revoke, turnVars, approvalVars, TypeInv, TypeOK
  <1>17. CASE TypeStop
    BY <1>17 DEF TypeStop, turnVars, approvalVars, TypeInv, TypeOK
  <1>18. ASSUME NEW h \in Tabs, ClickClear(h) PROVE PendingHasWaiter'
    BY <1>18 DEF ClickClear, turnVars, approvalVars, TypeInv, TypeOK
  <1>19. ASSUME NEW h \in Tabs, NEW requested \in Owners, ClickStop(h, requested)
       PROVE PendingHasWaiter'
    BY <1>19 DEF ClickStop, turnVars, approvalVars, TypeInv, TypeOK
  <1>20. ASSUME NEW h \in Handlers, AbortTasks(h) PROVE PendingHasWaiter'
    BY <1>20 DEF AbortTasks, turnVars, approvalVars, TypeInv, TypeOK
  <1>21. ASSUME NEW h \in Handlers, AbortEnds(h) PROVE PendingHasWaiter'
    BY <1>21 DEF AbortEnds, turnVars, approvalVars, TypeInv, TypeOK
  <1>22. ASSUME NEW h \in Handlers, ClearRevokes(h) PROVE PendingHasWaiter'
    BY <1>22 DEF ClearRevokes, turnVars, approvalVars, TypeInv, TypeOK
  <1>23. ASSUME NEW h \in Handlers, Unregister(h) PROVE PendingHasWaiter'
    BY <1>23 DEF Unregister, turnVars, approvalVars, TypeInv, TypeOK
  <1>24. CASE Deliver
    BY <1>24 DEF Deliver, turnVars, approvalVars, TypeInv, TypeOK
  <1>25. CASE UNCHANGED vars
    BY <1>25 DEF vars, turnVars, approvalVars, TypeInv, TypeOK
  <1>q. QED
    BY <1>1, <1>2, <1>3, <1>4, <1>5, <1>6, <1>7, <1>8, <1>9, <1>10, <1>11, <1>12, <1>13,
        <1>14, <1>15, <1>16, <1>17, <1>18, <1>19, <1>20, <1>21, <1>22, <1>23, <1>24, <1>25
    DEF Next, Progress, Call, UserStep, HandlerStep, Handlers

(* The broker holds no request whose turn is past waiting for it, however turns
   are aborted, time out and are answered. *)
THEOREM RequestsAreWaitedFor == Spec => []PendingHasWaiter
  <1>1. Init => PendingHasWaiter
    BY DEF Init, PendingHasWaiter
  <1>q. QED
    BY <1>1, TypeInit, TypeStep, WaitersStep, PTL DEF Spec

--------------------------------------------------------------------------------
(* Grants *)

(* Whatever the chat has pre-approved was given since the last revocation. *)
Backed ==
    /\ grants.all => \E g \in given : g.scope = "session"
    /\ \A t \in grants.tools : \E g \in given : g.scope = "session_tool" /\ g.tool = t
    /\ grants.turn # NoMessage =>
          \E g \in given : g.scope = "turn" /\ g.turn = grants.turn

LEMMA GrantsStep ==
  TypeInv /\ Backed /\ GrantCoversCall /\ [Next]_vars => Backed' /\ GrantCoversCall'
  <1> SUFFICES ASSUME TypeInv, Backed, GrantCoversCall, [Next]_vars
               PROVE Backed' /\ GrantCoversCall'
    OBVIOUS
  <1>0. ASSUME UNCHANGED grantVars PROVE Backed' /\ GrantCoversCall'
    BY <1>0 DEF grantVars, Backed, GrantCoversCall
  <1>1. ASSUME NEW m \in Messages, Arrive(m) PROVE Backed' /\ GrantCoversCall'
    BY <1>0, <1>1 DEF Arrive
  <1>2. ASSUME NEW m \in Messages, StartDirect(m) PROVE Backed' /\ GrantCoversCall'
    BY <1>0, <1>2 DEF StartDirect
  <1>3. ASSUME NEW m \in Messages, Publish(m) PROVE Backed' /\ GrantCoversCall'
    BY <1>0, <1>3 DEF Publish
  <1>4. ASSUME NEW m \in Messages, PublishFails(m) PROVE Backed' /\ GrantCoversCall'
    BY <1>0, <1>4 DEF PublishFails
  <1>5. ASSUME NEW m \in Messages, Spawn(m) PROVE Backed' /\ GrantCoversCall'
    BY <1>0, <1>5 DEF Spawn
  <1>6. ASSUME NEW m \in Messages, TakeLock(m) PROVE Backed' /\ GrantCoversCall'
    BY <1>0, <1>6 DEF TakeLock
  <1>7. ASSUME NEW m \in Messages, Proceed(m) PROVE Backed' /\ GrantCoversCall'
    BY <1>0, <1>7 DEF Proceed
  <1>8. ASSUME NEW m \in Messages, Expire(m) PROVE Backed' /\ GrantCoversCall'
    BY <1>0, <1>8 DEF Expire
  <1>9. ASSUME NEW m \in Messages, Denied(m) PROVE Backed' /\ GrantCoversCall'
    BY <1>0, <1>9 DEF Denied
  <1>10. ASSUME NEW m \in Messages, RunReturns(m) PROVE Backed' /\ GrantCoversCall'
    BY <1>0, <1>10 DEF RunReturns
  <1>11. ASSUME NEW m \in Messages, PublishTurnEnd(m) PROVE Backed' /\ GrantCoversCall'
    BY <1>0, <1>11 DEF PublishTurnEnd
  <1>12. ASSUME NEW m \in Messages, Dropped(m) PROVE Backed' /\ GrantCoversCall'
    BY <1>0, <1>12 DEF Dropped
  <1>13. ASSUME NEW m \in Messages, NEW t \in Tools, CallGranted(m, t)
       PROVE Backed' /\ GrantCoversCall'
    <2>1. \E g \in given : Covers(g, m, t)
      BY <1>13, MessagesAssumption DEF CallGranted, IsGranted, Covers, Backed
    <2>2. UNCHANGED <<grants, given>> /\ overreach' = overreach
      BY <1>13, <2>1 DEF CallGranted, TypeInv, TypeOK
    <2>q. QED
      BY <2>2 DEF Backed, GrantCoversCall
  <1>14. ASSUME NEW m \in Messages, NEW t \in Tools, Ask(m, t)
       PROVE Backed' /\ GrantCoversCall'
    BY <1>0, <1>14 DEF Ask
  <1>15. ASSUME NEW m \in Messages, NEW scope \in Scopes \union {"none"}, Answer(m, scope)
       PROVE Backed' /\ GrantCoversCall'
    <2>1. overreach' = overreach
      BY <1>15 DEF Answer
    <2>2. CASE scope \notin Scopes
      BY <1>15, <2>1, <2>2 DEF Answer, Backed, GrantCoversCall
    <2>3. CASE scope \in Scopes
      <3>1. grants' = WithGrant(scope, m) /\ given' = given \union {Given(scope, m)}
        BY <1>15, <2>3 DEF Answer
      <3>2. grants \in Grants
        BY DEF TypeInv, TypeOK
      <3>3. ASSUME scope = "turn" PROVE Backed'
        <4>1. grants' = [grants EXCEPT !.turn = m]
          BY <3>1, <3>3 DEF WithGrant
        <4>2. given' = given \union {[scope |-> "turn", turn |-> m, tool |-> NoTool]}
          BY <3>1, <3>3 DEF Given
        <4>3. grants'.all = grants.all /\ grants'.tools = grants.tools
          BY <3>2, <4>1 DEF Grants
        <4>4. grants'.turn = m
          BY <3>2, <4>1 DEF Grants
        <4>5. \E g \in given' : g.scope = "turn" /\ g.turn = m /\ g.tool = NoTool
          <5> DEFINE r == [scope |-> "turn", turn |-> m, tool |-> NoTool]
          <5>1. r \in given'
            BY <4>2
          <5>2. r.scope = "turn" /\ r.turn = m /\ r.tool = NoTool
            OBVIOUS
          <5> HIDE DEF r
          <5>q. QED
            BY <5>1, <5>2
        <4>6. given \subseteq given'
          BY <4>2
        <4>7. grants'.all => \E g \in given' : g.scope = "session"
          BY <4>3, <4>4, <4>5, <4>6 DEF Backed
        <4>8. \A t \in grants'.tools : \E g \in given' : g.scope = "session_tool" /\ g.tool = t
          BY <4>3, <4>4, <4>5, <4>6 DEF Backed
        <4>9. grants'.turn # NoMessage =>
                \E g \in given' : g.scope = "turn" /\ g.turn = grants'.turn
          BY <4>3, <4>4, <4>5, <4>6 DEF Backed
        <4>q. QED
          BY <4>7, <4>8, <4>9 DEF Backed
      <3>4. ASSUME scope = "session" PROVE Backed'
        <4>1. grants' = [grants EXCEPT !.all = TRUE]
          BY <3>1, <3>4 DEF WithGrant
        <4>2. given' = given \union {[scope |-> "session", turn |-> NoMessage, tool |-> NoTool]}
          BY <3>1, <3>4 DEF Given
        <4>3. grants'.turn = grants.turn /\ grants'.tools = grants.tools
          BY <3>2, <4>1 DEF Grants
        <4>4. grants'.all
          BY <3>2, <4>1 DEF Grants
        <4>5. \E g \in given' : g.scope = "session" /\ g.turn = NoMessage /\ g.tool = NoTool
          <5> DEFINE r == [scope |-> "session", turn |-> NoMessage, tool |-> NoTool]
          <5>1. r \in given'
            BY <4>2
          <5>2. r.scope = "session" /\ r.turn = NoMessage /\ r.tool = NoTool
            OBVIOUS
          <5> HIDE DEF r
          <5>q. QED
            BY <5>1, <5>2
        <4>6. given \subseteq given'
          BY <4>2
        <4>7. grants'.all => \E g \in given' : g.scope = "session"
          BY <4>3, <4>4, <4>5, <4>6 DEF Backed
        <4>8. \A t \in grants'.tools : \E g \in given' : g.scope = "session_tool" /\ g.tool = t
          BY <4>3, <4>4, <4>5, <4>6 DEF Backed
        <4>9. grants'.turn # NoMessage =>
                \E g \in given' : g.scope = "turn" /\ g.turn = grants'.turn
          BY <4>3, <4>4, <4>5, <4>6 DEF Backed
        <4>q. QED
          BY <4>7, <4>8, <4>9 DEF Backed
      <3>5. ASSUME scope = "session_tool" PROVE Backed'
        <4>1. grants' = [grants EXCEPT !.tools = @ \union {tool[m]}]
          BY <3>1, <3>5 DEF WithGrant
        <4>2. given' = given \union {[scope |-> "session_tool", turn |-> NoMessage, tool |-> tool[m]]}
          BY <3>1, <3>5 DEF Given
        <4>3. grants'.all = grants.all /\ grants'.turn = grants.turn
          BY <3>2, <4>1 DEF Grants
        <4>4. grants'.tools = grants.tools \union {tool[m]}
          BY <3>2, <4>1 DEF Grants
        <4>5. \E g \in given' : g.scope = "session_tool" /\ g.turn = NoMessage /\ g.tool = tool[m]
          <5> DEFINE r == [scope |-> "session_tool", turn |-> NoMessage, tool |-> tool[m]]
          <5>1. r \in given'
            BY <4>2
          <5>2. r.scope = "session_tool" /\ r.turn = NoMessage /\ r.tool = tool[m]
            OBVIOUS
          <5> HIDE DEF r
          <5>q. QED
            BY <5>1, <5>2
        <4>6. given \subseteq given'
          BY <4>2
        <4>7. grants'.all => \E g \in given' : g.scope = "session"
          BY <4>3, <4>4, <4>5, <4>6 DEF Backed
        <4>8. \A t \in grants'.tools : \E g \in given' : g.scope = "session_tool" /\ g.tool = t
          BY <4>3, <4>4, <4>5, <4>6 DEF Backed
        <4>9. grants'.turn # NoMessage =>
                \E g \in given' : g.scope = "turn" /\ g.turn = grants'.turn
          BY <4>3, <4>4, <4>5, <4>6 DEF Backed
        <4>q. QED
          BY <4>7, <4>8, <4>9 DEF Backed
      <3>6. Backed'
        BY <2>3, <3>3, <3>4, <3>5 DEF Scopes
      <3>q. QED
        BY <2>1, <3>6 DEF GrantCoversCall
    <2>q. QED
      BY <2>2, <2>3
  <1>16. CASE Revoke
    BY <1>16 DEF Revoke, RevokedGrants, NoGrants, Backed, GrantCoversCall
  <1>17. CASE TypeStop
    BY <1>0, <1>17 DEF TypeStop
  <1>18. ASSUME NEW h \in Tabs, ClickClear(h) PROVE Backed' /\ GrantCoversCall'
    BY <1>0, <1>18 DEF ClickClear
  <1>19. ASSUME NEW h \in Tabs, NEW requested \in Owners, ClickStop(h, requested)
       PROVE Backed' /\ GrantCoversCall'
    BY <1>0, <1>19 DEF ClickStop
  <1>20. ASSUME NEW h \in Handlers, AbortTasks(h) PROVE Backed' /\ GrantCoversCall'
    BY <1>0, <1>20 DEF AbortTasks
  <1>21. ASSUME NEW h \in Handlers, AbortEnds(h) PROVE Backed' /\ GrantCoversCall'
    BY <1>0, <1>21 DEF AbortEnds
  <1>22. ASSUME NEW h \in Handlers, ClearRevokes(h) PROVE Backed' /\ GrantCoversCall'
    BY <1>22 DEF ClearRevokes, RevokedGrants, NoGrants, Backed, GrantCoversCall
  <1>23. ASSUME NEW h \in Handlers, Unregister(h) PROVE Backed' /\ GrantCoversCall'
    BY <1>0, <1>23 DEF Unregister
  <1>24. CASE Deliver
    BY <1>0, <1>24 DEF Deliver
  <1>25. CASE UNCHANGED vars
    BY <1>0, <1>25 DEF vars
  <1>q. QED
    BY <1>1, <1>2, <1>3, <1>4, <1>5, <1>6, <1>7, <1>8, <1>9, <1>10, <1>11, <1>12, <1>13,
        <1>14, <1>15, <1>16, <1>17, <1>18, <1>19, <1>20, <1>21, <1>22, <1>23, <1>24, <1>25
    DEF Next, Progress, Call, UserStep, HandlerStep, Handlers

(* No call is let through unasked without a grant given since the last
   revocation that covers it, whichever turns run at once. *)
THEOREM GrantsCover == Spec => []GrantCoversCall
  <1>1. Init => Backed /\ GrantCoversCall
    BY DEF Init, Backed, NoGrants, GrantCoversCall
  <1>q. QED
    BY <1>1, TypeInit, TypeStep, GrantsStep, PTL DEF Spec

--------------------------------------------------------------------------------
(* The turn registry *)

LEMMA AppendIn ==
  ASSUME NEW S, NEW box \in Seq(S), NEW o \in S, NEW x
  PROVE  IsIn(x, Append(box, o)) <=> IsIn(x, box) \/ x = o
  <1> DEFINE n == Len(box)
             new == Append(box, o)
  <1>1. n \in Nat /\ Len(new) = n + 1 /\ new[n + 1] = o /\ \A i \in 1..n : new[i] = box[i]
    OBVIOUS
  <1>2. ASSUME IsIn(x, new) PROVE IsIn(x, box) \/ x = o
    <2> PICK i \in 1..Len(new) : new[i] = x
      BY <1>2 DEF IsIn
    <2>q. QED
      BY <1>1 DEF IsIn
  <1>3. ASSUME IsIn(x, box) PROVE IsIn(x, new)
    BY <1>1, <1>3 DEF IsIn
  <1>4. IsIn(o, new)
    BY <1>1 DEF IsIn
  <1>q. QED
    BY <1>2, <1>3, <1>4

LEMMA TailIn ==
  ASSUME NEW S, NEW box \in Seq(S), box # <<>>, NEW x
  PROVE  /\ IsIn(x, Tail(box)) => IsIn(x, box)
         /\ IsIn(x, box) => x = Head(box) \/ IsIn(x, Tail(box))
         /\ IsIn(Head(box), box)
  <1> DEFINE n == Len(box)
             rest == Tail(box)
  <1>1. /\ n \in Nat \ {0} /\ Len(rest) = n - 1 /\ Head(box) = box[1]
        /\ \A i \in 1..(n - 1) : rest[i] = box[i + 1]
    OBVIOUS
  <1>2. ASSUME IsIn(x, rest) PROVE IsIn(x, box)
    <2> PICK i \in 1..(n - 1) : rest[i] = x
      BY <1>1, <1>2 DEF IsIn
    <2>1. i + 1 \in 1..n /\ box[i + 1] = x
      BY <1>1
    <2>q. QED
      BY <2>1 DEF IsIn
  <1>3. ASSUME IsIn(x, box), x # Head(box) PROVE IsIn(x, rest)
    <2> PICK i \in 1..n : box[i] = x
      BY <1>3 DEF IsIn
    <2>1. i - 1 \in 1..(n - 1) /\ rest[i - 1] = x
      BY <1>1, <1>3
    <2>q. QED
      BY <1>1, <2>1 DEF IsIn
  <1>4. IsIn(Head(box), box)
    BY <1>1 DEF IsIn
  <1>q. QED
    BY <1>2, <1>3, <1>4

(* What the registry, the owners in the messages and the TurnEnds on the bus
   have to do with each other. *)
OwnedUnderWay == \A m \in owned : OfBus(m) /\ phase[m] \in UnderWay
EndedOver == \A m \in Messages : IsIn(m, outbox) => m \notin owned /\ phase[m] = "over"
AbortedTasks == \A m \in aborted : phase[m] \in Abortable \union {"ending"}
RegisteredOwned ==
    registered # NoMessage => registered \in owned \/ phase[registered] = "over"
AbortSettles == registered \in aborted => Settling

Known ==
    /\ OwnedUnderWay /\ EndedOver /\ AbortedTasks /\ RegisteredOwned /\ AbortSettles
    /\ ShownWhileRunning /\ RegisteredIsUnderWay

LEMMA KnownInit == Init => Known
  BY MessagesAssumption
  DEF Init, Known, OwnedUnderWay, EndedOver, AbortedTasks, RegisteredOwned, AbortSettles,
      ShownWhileRunning, RegisteredIsUnderWay, Settling, IsIn

(* A step of one task on its way: nothing else moves. *)
LEMMA KnownMoves ==
  ASSUME TypeInv, Known, NEW m \in Messages, NEW p \in UnderWay,
         m \in aborted => p \in Abortable \union {"ending"},
         phase[m] \in UnderWay \/ (phase[m] = "unsent" /\ ~OfBus(m)), Goto(m, p),
         UNCHANGED <<registryVars, aborted, outbox, step>>
  PROVE  Known'
  <1>1. /\ \A n \in Messages : phase'[n] = IF n = m THEN p ELSE phase[n]
        /\ aborted \subseteq Messages /\ owned \subseteq Messages /\ registered \in Owners
    BY DEF Goto, TypeInv, TypeOK
  <1>2. UNCHANGED <<owned, registered, blurred, aborted, outbox, step>>
    BY DEF registryVars
  <1>3. Settling' <=> Settling
    BY <1>2 DEF Settling
  <1>4. OwnedUnderWay' /\ AbortedTasks'
    BY <1>1, <1>2 DEF Known, OwnedUnderWay, AbortedTasks, OfBus
  <1>5. EndedOver'
    BY <1>1, <1>2 DEF Known, EndedOver, UnderWay
  <1>6. RegisteredOwned'
    BY <1>1, <1>2 DEF Known, RegisteredOwned, OwnedUnderWay, UnderWay, Owners
  <1>7. AbortSettles'
    BY <1>2, <1>3 DEF Known, AbortSettles
  <1>8. ShownWhileRunning'
    BY <1>1, <1>2 DEF Known, ShownWhileRunning
  <1>9. RegisteredIsUnderWay'
    BY <1>1, <1>2, <1>3 DEF Known, RegisteredIsUnderWay, Owners
  <1>q. QED
    BY <1>4, <1>5, <1>6, <1>7, <1>8, <1>9 DEF Known

(* A step that leaves the tasks and the registry alone, and what settles. *)
LEMMA KnownStays ==
  ASSUME TypeInv, Known,
         UNCHANGED <<phase, registryVars, aborted, outbox>>, Settling => Settling'
  PROVE  Known'
  <1>1. UNCHANGED <<owned, registered, blurred>>
    BY DEF registryVars
  <1>q. QED
    BY <1>1 DEF Known, OwnedUnderWay, EndedOver, AbortedTasks, RegisteredOwned,
       AbortSettles, ShownWhileRunning, RegisteredIsUnderWay, OfBus

(* The whole chat is unregistered. *)
LEMMA KnownCleared ==
  ASSUME TypeInv, Known, UNCHANGED <<phase, aborted>>, Unregistered(NoMessage),
         \A n \in Messages : IsIn(n, outbox') => IsIn(n, outbox)
  PROVE  Known'
  <1>1. registered' = NoMessage /\ blurred' = owned /\ owned' = owned /\ phase' = phase
    BY DEF Unregistered, Cleared, ClearedBy
  <1>2. NoMessage \notin aborted'
    BY MessagesAssumption DEF TypeInv, TypeOK
  <1>3. OwnedUnderWay' /\ AbortedTasks'
    BY <1>1 DEF Known, OwnedUnderWay, AbortedTasks, OfBus
  <1>4. EndedOver'
    BY <1>1 DEF Known, EndedOver
  <1>5. RegisteredOwned' /\ ShownWhileRunning' /\ RegisteredIsUnderWay'
    BY <1>1 DEF RegisteredOwned, ShownWhileRunning, RegisteredIsUnderWay
  <1>6. AbortSettles'
    BY <1>1, <1>2 DEF AbortSettles
  <1>q. QED
    BY <1>3, <1>4, <1>5, <1>6 DEF Known

(* A message comes to an end; its registration is taken back, or will be. *)
LEMMA KnownEnds ==
  ASSUME TypeInv, Known, NEW m \in Messages, Goto(m, "over"), Forgotten(m),
         UNCHANGED step, registered' \in {registered, NoMessage},
         \A n \in Messages \ {m} : IsIn(n, outbox') <=> IsIn(n, outbox),
         Settling => Settling', IsIn(m, outbox) => IsIn(m, outbox'),
         registered' # registered => registered = m,
         registered' = m => IsIn(m, outbox') \/ Settling'
  PROVE  Known'
  <1>1. /\ \A n \in Messages : phase'[n] = IF n = m THEN "over" ELSE phase[n]
        /\ aborted' = aborted \ {m} /\ owned' = owned \ {m} /\ blurred' = blurred \ {m}
        /\ aborted \subseteq Messages /\ owned \subseteq Messages /\ registered \in Owners
    BY DEF Goto, Forgotten, TypeInv, TypeOK
  <1>2. OwnedUnderWay' /\ AbortedTasks'
    BY <1>1 DEF Known, OwnedUnderWay, AbortedTasks, OfBus
  <1>3. EndedOver'
    BY <1>1 DEF Known, EndedOver
  <1>4. RegisteredOwned'
    BY <1>1 DEF Known, RegisteredOwned, Owners
  <1>5. AbortSettles'
    BY <1>1, MessagesAssumption DEF Known, AbortSettles
  <1>6. ShownWhileRunning'
    BY <1>1 DEF Known, ShownWhileRunning
  <1>7. RegisteredIsUnderWay'
    <2> SUFFICES ASSUME registered' # NoMessage
                 PROVE  \/ phase'[registered'] \in UnderWay
                        \/ IsIn(registered', outbox') \/ Settling'
      BY DEF RegisteredIsUnderWay
    <2>1. CASE registered' = m
      BY <2>1
    <2>2. CASE registered' # m
      <3>1. registered' = registered /\ registered \in Messages
        BY <1>1 DEF Owners
      <3>q. QED
        BY <1>1, <2>2, <3>1 DEF Known, RegisteredIsUnderWay
    <2>q. QED
      BY <2>1, <2>2
  <1>q. QED
    BY <1>2, <1>3, <1>4, <1>5, <1>6, <1>7 DEF Known

LEMMA KnownStep == TypeInv /\ Known /\ [Next]_vars => Known'
  <1> SUFFICES ASSUME TypeInv, Known, [Next]_vars PROVE Known'
    OBVIOUS
  <1>0. outbox \in Seq(Owners) /\ phase \in [Messages -> Phases] /\ owned \subseteq Messages
    BY DEF TypeInv, TypeOK
  <1>1. ASSUME NEW m \in Messages, Arrive(m) PROVE Known'
    <2>1. /\ phase[m] = "unsent" /\ OfBus(m) /\ Goto(m, "announced")
          /\ UNCHANGED <<blurred, aborted, outbox, step>>
      BY <1>1 DEF Arrive, handlerVars
    <2>2. /\ \A n \in Messages : phase'[n] = IF n = m THEN "announced" ELSE phase[n]
          /\ m \notin owned /\ m \notin aborted /\ ~IsIn(m, outbox) /\ registered # m
      BY <1>0, <2>1, MessagesAssumption
      DEF Goto, Known, OwnedUnderWay, AbortedTasks, EndedOver, RegisteredOwned, UnderWay,
          Abortable
    <2>3. Settling' <=> Settling
      BY <2>1 DEF Settling
    <2>4. CASE registered = NoMessage /\ registered' = m /\ owned' = owned \union {m}
      <3>1. OwnedUnderWay' /\ AbortedTasks' /\ EndedOver'
        BY <1>0, <2>1, <2>2, <2>4
        DEF Known, OwnedUnderWay, AbortedTasks, EndedOver, UnderWay, OfBus, TypeInv, TypeOK
      <3>2. RegisteredOwned' /\ AbortSettles'
        BY <2>1, <2>2, <2>4 DEF RegisteredOwned, AbortSettles
      <3>3. ShownWhileRunning' /\ RegisteredIsUnderWay'
        BY <1>0, <2>1, <2>2, <2>4, MessagesAssumption
        DEF Known, ShownWhileRunning, RegisteredIsUnderWay, UnderWay
      <3>q. QED
        BY <3>1, <3>2, <3>3 DEF Known
    <2>5. CASE UNCHANGED <<registered, owned>>
      <3>1. OwnedUnderWay' /\ AbortedTasks' /\ EndedOver'
        BY <1>0, <2>1, <2>2, <2>5
        DEF Known, OwnedUnderWay, AbortedTasks, EndedOver, UnderWay, OfBus, TypeInv, TypeOK
      <3>2. RegisteredOwned' /\ AbortSettles'
        BY <2>1, <2>2, <2>3, <2>5 DEF Known, RegisteredOwned, AbortSettles, TypeInv, TypeOK,
            Owners
      <3>3. ShownWhileRunning' /\ RegisteredIsUnderWay'
        BY <1>0, <2>1, <2>2, <2>3, <2>5
        DEF Known, ShownWhileRunning, RegisteredIsUnderWay, TypeInv, TypeOK, Owners
      <3>q. QED
        BY <3>1, <3>2, <3>3 DEF Known
    <2>q. QED
      BY <1>1, <2>4, <2>5 DEF Arrive
  <1>2. ASSUME NEW m \in Messages, StartDirect(m) PROVE Known'
    <2>1. /\ Goto(m, "running") /\ UNCHANGED <<registryVars, aborted, outbox, step>>
          /\ phase[m] \in UnderWay \/ (phase[m] = "unsent" /\ ~OfBus(m))
      BY <1>2 DEF StartDirect, handlerVars, UnderWay
    <2>2. m \in aborted => "running" \in Abortable \union {"ending"}
      BY <1>2 DEF StartDirect, Known, AbortedTasks, Abortable
    <2>3. "running" \in UnderWay
      BY DEF UnderWay
    <2>q. QED
      BY <2>1, <2>2, <2>3, KnownMoves
  <1>3. ASSUME NEW m \in Messages, Publish(m) PROVE Known'
    <2>1. /\ Goto(m, "queued") /\ UNCHANGED <<registryVars, aborted, outbox, step>>
          /\ phase[m] \in UnderWay \/ (phase[m] = "unsent" /\ ~OfBus(m))
      BY <1>3 DEF Publish, handlerVars, UnderWay
    <2>2. m \in aborted => "queued" \in Abortable \union {"ending"}
      BY <1>3 DEF Publish, Known, AbortedTasks, Abortable
    <2>3. "queued" \in UnderWay
      BY DEF UnderWay
    <2>q. QED
      BY <2>1, <2>2, <2>3, KnownMoves
  <1>4. ASSUME NEW m \in Messages, PublishFails(m) PROVE Known'
    <2>1. /\ Goto(m, "over") /\ Forgotten(m) /\ UNCHANGED <<step, outbox>>
          /\ Settling' <=> Settling
      BY <1>4 DEF PublishFails, handlerVars, Settling
    <2>2. registered' \in {registered, NoMessage} /\ (registered' # registered => registered = m)
      BY <1>4, MessagesAssumption DEF PublishFails, Cleared, ClearedBy
    <2>3. registered' # m
      BY <1>4, MessagesAssumption
      DEF PublishFails, Cleared, ClearedBy, Known, RegisteredOwned
    <2>q. QED
      BY <2>1, <2>2, <2>3, KnownEnds
  <1>5. ASSUME NEW m \in Messages, Spawn(m) PROVE Known'
    <2>1. /\ Goto(m, "waiting") /\ UNCHANGED <<registryVars, aborted, outbox, step>>
          /\ phase[m] \in UnderWay \/ (phase[m] = "unsent" /\ ~OfBus(m))
      BY <1>5 DEF Spawn, handlerVars, UnderWay
    <2>2. m \in aborted => "waiting" \in Abortable \union {"ending"}
      BY <1>5 DEF Spawn, Known, AbortedTasks, Abortable
    <2>3. "waiting" \in UnderWay
      BY DEF UnderWay
    <2>q. QED
      BY <2>1, <2>2, <2>3, KnownMoves
  <1>6. ASSUME NEW m \in Messages, TakeLock(m) PROVE Known'
    <2>1. /\ Goto(m, "running") /\ UNCHANGED <<registryVars, aborted, outbox, step>>
          /\ phase[m] \in UnderWay \/ (phase[m] = "unsent" /\ ~OfBus(m))
      BY <1>6 DEF TakeLock, handlerVars, UnderWay
    <2>2. m \in aborted => "running" \in Abortable \union {"ending"}
      BY <1>6 DEF TakeLock, Known, AbortedTasks, Abortable
    <2>3. "running" \in UnderWay
      BY DEF UnderWay
    <2>q. QED
      BY <2>1, <2>2, <2>3, KnownMoves
  <1>7. ASSUME NEW m \in Messages, Proceed(m) PROVE Known'
    <2>1. /\ Goto(m, "running") /\ UNCHANGED <<registryVars, aborted, outbox, step>>
          /\ phase[m] \in UnderWay \/ (phase[m] = "unsent" /\ ~OfBus(m))
      BY <1>7 DEF Proceed, handlerVars, UnderWay
    <2>2. m \in aborted => "running" \in Abortable \union {"ending"}
      BY <1>7 DEF Proceed, Known, AbortedTasks, Abortable
    <2>3. "running" \in UnderWay
      BY DEF UnderWay
    <2>q. QED
      BY <2>1, <2>2, <2>3, KnownMoves
  <1>8. ASSUME NEW m \in Messages, Expire(m) PROVE Known'
    <2>1. /\ Goto(m, "expiring") /\ UNCHANGED <<registryVars, aborted, outbox, step>>
          /\ phase[m] \in UnderWay \/ (phase[m] = "unsent" /\ ~OfBus(m))
      BY <1>8 DEF Expire, handlerVars, UnderWay
    <2>2. m \in aborted => "expiring" \in Abortable \union {"ending"}
      BY <1>8 DEF Expire, Known, AbortedTasks, Abortable
    <2>3. "expiring" \in UnderWay
      BY DEF UnderWay
    <2>q. QED
      BY <2>1, <2>2, <2>3, KnownMoves
  <1>9. ASSUME NEW m \in Messages, Denied(m) PROVE Known'
    <2>1. /\ Goto(m, "running") /\ UNCHANGED <<registryVars, aborted, outbox, step>>
          /\ phase[m] \in UnderWay \/ (phase[m] = "unsent" /\ ~OfBus(m))
      BY <1>9 DEF Denied, handlerVars, UnderWay
    <2>2. m \in aborted => "running" \in Abortable \union {"ending"}
      BY <1>9 DEF Denied, Known, AbortedTasks, Abortable
    <2>3. "running" \in UnderWay
      BY DEF UnderWay
    <2>q. QED
      BY <2>1, <2>2, <2>3, KnownMoves
  <1>10. ASSUME NEW m \in Messages, RunReturns(m) PROVE Known'
    <2>1. CASE OfBus(m)
      <3>1. /\ Goto(m, "ending") /\ UNCHANGED <<registryVars, aborted, outbox, step>>
            /\ phase[m] \in UnderWay /\ "ending" \in UnderWay
        BY <1>10, <2>1 DEF RunReturns, registryVars, handlerVars, UnderWay
      <3>q. QED
        BY <3>1, KnownMoves
    <2>2. CASE ~OfBus(m)
      <3>1. /\ Goto(m, "over") /\ Forgotten(m) /\ UNCHANGED <<step, outbox, registered>>
            /\ phase[m] = "running"
        BY <1>10, <2>2 DEF RunReturns, handlerVars
      <3>2. Settling' <=> Settling
        BY <3>1 DEF Settling
      <3>3. registered # m
        BY <2>2, <3>1, MessagesAssumption DEF Known, RegisteredOwned, OwnedUnderWay
      <3>q. QED
        BY <3>1, <3>2, <3>3, KnownEnds
    <2>q. QED
      BY <2>1, <2>2
  <1>11. ASSUME NEW m \in Messages, PublishTurnEnd(m) PROVE Known'
    <2>1. /\ Goto(m, "over") /\ Forgotten(m) /\ UNCHANGED <<step, registered>>
          /\ outbox' = Append(outbox, OwnerOf(m)) /\ OwnerOf(m) \in {m, NoMessage}
      BY <1>11 DEF PublishTurnEnd, OwnerOf, handlerVars
    <2>2. \A x \in Owners : IsIn(x, outbox') <=> IsIn(x, outbox) \/ x = OwnerOf(m)
      BY <1>0, <2>1, AppendIn DEF Owners
    <2>3. /\ \A n \in Messages \ {m} : IsIn(n, outbox') <=> IsIn(n, outbox)
          /\ IsIn(m, outbox) => IsIn(m, outbox')
      BY <2>1, <2>2, MessagesAssumption DEF Owners
    <2>4. Settling => Settling'
      BY <2>1, <2>2 DEF Settling, Owners
    <2>5. IsIn(m, outbox') \/ Settling'
      BY <2>1, <2>2 DEF Settling, Owners
    <2>q. QED
      BY <2>1, <2>3, <2>4, <2>5, KnownEnds
  <1>12. ASSUME NEW m \in Messages, Dropped(m) PROVE Known'
    <2>1. /\ Goto(m, "over") /\ Forgotten(m) /\ UNCHANGED <<step, outbox>>
          /\ Settling' <=> Settling
      BY <1>12 DEF Dropped, handlerVars, Settling
    <2>2. registered' = registered
      BY <1>12 DEF Dropped
    <2>3. registered = m => Settling
      BY <1>12 DEF Dropped, Known, AbortSettles
    <2>q. QED
      BY <2>1, <2>2, <2>3, KnownEnds
  <1>13. ASSUME NEW m \in Messages, NEW t \in Tools, CallGranted(m, t) PROVE Known'
    <2>1. UNCHANGED <<phase, registryVars, aborted, outbox, step>>
      BY <1>13 DEF CallGranted, turnVars, handlerVars
    <2>2. Settling' <=> Settling
      BY <2>1 DEF Settling
    <2>q. QED
      BY <2>1, <2>2, KnownStays
  <1>14. ASSUME NEW m \in Messages, NEW t \in Tools, Ask(m, t) PROVE Known'
    <2>1. /\ Goto(m, "asking") /\ UNCHANGED <<registryVars, aborted, outbox, step>>
          /\ phase[m] \in UnderWay \/ (phase[m] = "unsent" /\ ~OfBus(m))
      BY <1>14 DEF Ask, Calls, handlerVars, UnderWay
    <2>2. m \in aborted => "asking" \in Abortable \union {"ending"}
      BY <1>14 DEF Ask, Known, AbortedTasks, Abortable
    <2>3. "asking" \in UnderWay
      BY DEF UnderWay
    <2>q. QED
      BY <2>1, <2>2, <2>3, KnownMoves
  <1>15. ASSUME NEW m \in Messages, NEW scope \in Scopes \union {"none"}, Answer(m, scope)
       PROVE Known'
    <2>1. UNCHANGED <<phase, registryVars, aborted, outbox, step>>
      BY <1>15 DEF Answer, turnVars, handlerVars
    <2>2. Settling' <=> Settling
      BY <2>1 DEF Settling
    <2>q. QED
      BY <2>1, <2>2, KnownStays
  <1>16. CASE Revoke
    <2>1. UNCHANGED <<phase, registryVars, aborted, outbox, step>>
      BY <1>16 DEF Revoke, turnVars, handlerVars
    <2>2. Settling' <=> Settling
      BY <2>1 DEF Settling
    <2>q. QED
      BY <2>1, <2>2, KnownStays
  <1>17. CASE TypeStop
    <2>1. /\ UNCHANGED <<phase, registryVars, aborted, outbox>>
          /\ step[Loop] = "idle" /\ step' = [step EXCEPT ![Loop] = "cancel"]
      BY <1>17 DEF TypeStop, turnVars
    <2>2. Settling => Settling'
      BY <2>1 DEF Settling, TypeInv, TypeOK
    <2>q. QED
      BY <2>1, <2>2, KnownStays
  <1>18. ASSUME NEW h \in Tabs, ClickClear(h) PROVE Known'
    <2>1. /\ UNCHANGED <<phase, registryVars, aborted, outbox>>
          /\ step[h] = "idle" /\ step' = [step EXCEPT ![h] = "cancel"]
      BY <1>18 DEF ClickClear, turnVars
    <2>2. Settling => Settling'
      BY <2>1 DEF Settling, TypeInv, TypeOK
    <2>q. QED
      BY <2>1, <2>2, KnownStays
  <1>19. ASSUME NEW h \in Tabs, NEW requested \in Owners, ClickStop(h, requested)
       PROVE Known'
    <2>1. /\ UNCHANGED <<phase, registryVars, aborted, outbox>>
          /\ step[h] = "idle" /\ step' = [step EXCEPT ![h] = "cancel"]
      BY <1>19 DEF ClickStop, turnVars
    <2>2. Settling => Settling'
      BY <2>1 DEF Settling, TypeInv, TypeOK
    <2>q. QED
      BY <2>1, <2>2, KnownStays
  <1>20. ASSUME NEW h \in Handlers, AbortTasks(h) PROVE Known'
    <2>1. /\ UNCHANGED <<phase, owned, registered, blurred, outbox>>
          /\ step' = [step EXCEPT ![h] = "end"]
          /\ aborted' = aborted \union {m \in Messages : OfBus(m) /\ phase[m] \in Abortable}
      BY <1>20 DEF AbortTasks, registryVars
    <2>2. Settling'
      <3>1. step'[h] = "end"
        BY <2>1 DEF TypeInv, TypeOK
      <3>q. QED
        BY <3>1 DEF Settling
    <2>3. AbortedTasks'
      BY <2>1 DEF Known, AbortedTasks
    <2>4. OwnedUnderWay' /\ EndedOver' /\ RegisteredOwned' /\ ShownWhileRunning'
      BY <2>1 DEF Known, OwnedUnderWay, EndedOver, RegisteredOwned, ShownWhileRunning, OfBus
    <2>5. AbortSettles' /\ RegisteredIsUnderWay'
      BY <2>2 DEF AbortSettles, RegisteredIsUnderWay
    <2>q. QED
      BY <2>3, <2>4, <2>5 DEF Known
  <1>21. ASSUME NEW h \in Handlers, AbortEnds(h) PROVE Known'
    <2>1. /\ UNCHANGED <<phase, owned, registered, blurred, aborted>>
          /\ outbox' = Append(outbox, NoMessage)
      BY <1>21 DEF AbortEnds, turnVars, registryVars
    <2>2. \A x \in Owners : IsIn(x, outbox') <=> IsIn(x, outbox) \/ x = NoMessage
      BY <1>0, <2>1, AppendIn DEF Owners
    <2>3. Settling'
      BY <2>2 DEF Settling, Owners
    <2>4. EndedOver'
      BY <2>1, <2>2, MessagesAssumption DEF Known, EndedOver, Owners
    <2>5. OwnedUnderWay' /\ AbortedTasks' /\ RegisteredOwned' /\ ShownWhileRunning'
      BY <2>1 DEF Known, OwnedUnderWay, AbortedTasks, RegisteredOwned, ShownWhileRunning, OfBus
    <2>6. AbortSettles' /\ RegisteredIsUnderWay'
      BY <2>3 DEF AbortSettles, RegisteredIsUnderWay
    <2>q. QED
      BY <2>4, <2>5, <2>6 DEF Known
  <1>22. ASSUME NEW h \in Handlers, ClearRevokes(h) PROVE Known'
    <2>1. /\ UNCHANGED <<phase, registryVars, aborted, outbox>>
          /\ step' = [step EXCEPT ![h] = "unregister"]
      BY <1>22 DEF ClearRevokes, turnVars
    <2>2. Settling'
      <3>1. step'[h] = "unregister"
        BY <2>1 DEF TypeInv, TypeOK
      <3>q. QED
        BY <3>1 DEF Settling
    <2>q. QED
      BY <2>1, <2>2, KnownStays
  <1>23. ASSUME NEW h \in Handlers, Unregister(h) PROVE Known'
    <2>1. UNCHANGED <<phase, aborted, outbox>> /\ Unregistered(NoMessage)
      BY <1>23 DEF Unregister, turnVars
    <2>q. QED
      BY <2>1, KnownCleared
  <1>24. CASE Deliver
    <2> DEFINE o == Head(outbox)
    <2>1. /\ UNCHANGED <<phase, aborted, step>> /\ outbox # <<>> /\ Unregistered(o)
          /\ outbox' = Tail(outbox)
      BY <1>24 DEF Deliver, turnVars, handlerVars
    <2>2. /\ \A x \in Owners : IsIn(x, outbox') => IsIn(x, outbox)
          /\ \A x \in Owners : IsIn(x, outbox) => x = o \/ IsIn(x, outbox')
          /\ IsIn(o, outbox) /\ o \in Owners
      BY <1>0, <2>1, TailIn
    <2> HIDE DEF o
    <2>3. CASE o = NoMessage
      BY <2>1, <2>2, <2>3, KnownCleared DEF Owners
    <2>4. CASE o # NoMessage
      <3>1. /\ registered' = IF o = registered THEN NoMessage ELSE registered
            /\ UNCHANGED <<owned, blurred>>
        BY <2>1, <2>4 DEF Unregistered, Cleared, ClearedBy
      <3>2. o \in Messages /\ o \notin owned
        BY <2>2, <2>4 DEF Known, EndedOver, Owners
      <3>3. Settling => Settling'
        BY <2>1, <2>2, <2>4 DEF Settling, Owners
      <3>4. OwnedUnderWay' /\ AbortedTasks' /\ EndedOver'
        BY <2>1, <2>2, <3>1 DEF Known, OwnedUnderWay, AbortedTasks, EndedOver, OfBus, Owners
      <3>5. RegisteredOwned'
        BY <2>1, <3>1 DEF Known, RegisteredOwned
      <3>6. NoMessage \notin aborted
        BY MessagesAssumption DEF TypeInv, TypeOK
      <3>7. AbortSettles'
        BY <2>1, <3>1, <3>3, <3>6 DEF Known, AbortSettles
      <3>8. ShownWhileRunning'
        BY <2>1, <3>1, <3>2 DEF Known, ShownWhileRunning
      <3>9. registered \in Owners
        BY DEF TypeInv, TypeOK
      <3>10. RegisteredIsUnderWay'
        BY <2>1, <2>2, <3>1, <3>3, <3>9 DEF Known, RegisteredIsUnderWay
      <3>q. QED
        BY <3>4, <3>5, <3>7, <3>8, <3>10 DEF Known
    <2>q. QED
      BY <2>3, <2>4
  <1>25. CASE UNCHANGED vars
    <2>1. UNCHANGED <<phase, registryVars, aborted, outbox, step>>
      BY <1>25 DEF vars, turnVars, handlerVars
    <2>2. Settling' <=> Settling
      BY <2>1 DEF Settling
    <2>q. QED
      BY <2>1, <2>2, KnownStays
  <1>q. QED
    BY <1>1, <1>2, <1>3, <1>4, <1>5, <1>6, <1>7, <1>8, <1>9, <1>10, <1>11, <1>12, <1>13,
        <1>14, <1>15, <1>16, <1>17, <1>18, <1>19, <1>20, <1>21, <1>22, <1>23, <1>24, <1>25
    DEF Next, Progress, Call, UserStep, HandlerStep, Handlers

(* A chat is never left reading as running with nothing behind it, whatever is
   published, aborted, cleared or fails in between. *)
THEOREM RunningIsReal == Spec => []RegisteredIsUnderWay
  <1>1. Spec => []Known
    BY TypeInit, TypeStep, KnownInit, KnownStep, PTL DEF Spec
  <1>q. QED
    BY <1>1, PTL DEF Known

(* A registered turn is shown as running until it ends, or until the whole chat
   is unregistered. *)
THEOREM RegistrationIsKept == Spec => []ShownWhileRunning
  <1>1. Spec => []Known
    BY TypeInit, TypeStep, KnownInit, KnownStep, PTL DEF Spec
  <1>q. QED
    BY <1>1, PTL DEF Known

================================================================================
