----------------------------- MODULE Cron_proofs -------------------------------
(***************************************************************************)
(* Proofs about Cron, for any jobs, any number of timers and any bounds.   *)
(***************************************************************************)
EXTENDS Cron, TLAPS, FiniteSetTheorems

LEMMA EnabledType ==
    ASSUME NEW j \in Jobs, NEW t \in Nat PROVE Enabled(j, t) \in Entries
BY TimesAssumption DEF Enabled, NextRun, Entries, Statuses, NoRun

LEMMA AbsentType == Absent \in Entries /\ Empty \in Stores
BY DEF Absent, Entries, Statuses, NoRun, Empty, Stores

LEMMA CurrentType == TypeOK => Current \in Stores
BY DEF TypeOK, Current

LEMMA ReloadType == TypeOK /\ Reload => stale' \in BOOLEAN /\ clobbered' \in BOOLEAN /\ blind' \in BOOLEAN
BY DEF TypeOK, Reload

LEMMA SaveType ==
    ASSUME TypeOK, Save
    PROVE  /\ disk' \in Stores /\ mem' \in Stores
           /\ torn' \in BOOLEAN /\ stale' \in BOOLEAN
           /\ dirty' \in BOOLEAN /\ behind' \in BOOLEAN
           /\ clobbered' \in BOOLEAN /\ blind' \in BOOLEAN
           /\ events' \in Nat
<1>0. mem' = mem /\ blind' = blind
  BY DEF Save
<1>1. CASE SaveWrites
  <2>1. torn' = FALSE /\ stale' = FALSE /\ dirty' = FALSE /\ behind' = FALSE
    BY <1>1 DEF SaveWrites
  <2>2. disk' = mem /\ clobbered' = (clobbered \/ (stale /\ ~torn)) /\ events' = events
    BY <1>1 DEF SaveWrites
  <2>3. clobbered' \in BOOLEAN
    BY <2>2
  <2>4. QED
    BY <1>0, <2>1, <2>2, <2>3 DEF TypeOK
<1>2. CASE SaveFails
  <2>1. events' = events + 1
    BY <1>2 DEF SaveFails
  <2>2. CASE behind' = (behind \/ dirty) /\ UNCHANGED <<disk, torn, stale, dirty, clobbered>>
    <3>1. behind' \in BOOLEAN
      BY <2>2
    <3>2. QED
      BY <1>0, <2>1, <2>2, <3>1 DEF TypeOK
  <2>3. CASE /\ disk' = Empty /\ torn' = TRUE /\ stale' = TRUE
             /\ dirty' = TRUE /\ behind' = TRUE
             /\ clobbered' = (clobbered \/ (stale /\ ~torn))
    <3>1. clobbered' \in BOOLEAN
      BY <2>3
    <3>2. QED
      BY <1>0, <2>1, <2>3, <3>1, AbsentType DEF TypeOK
  <2>4. QED
    BY <1>2, <2>2, <2>3 DEF SaveFails
<1>3. QED
  BY <1>1, <1>2 DEF Save

LEMMA InitType == Init => TypeOK
<1> SUFFICES ASSUME Init PROVE TypeOK
  OBVIOUS
<1>1. Protected \subseteq Jobs
  BY JobsAssumption
<1>2. /\ torn \in BOOLEAN /\ stale \in BOOLEAN /\ dirty \in BOOLEAN
      /\ behind \in BOOLEAN /\ clobbered \in BOOLEAN /\ blind \in BOOLEAN
  BY DEF Init
<1>3. /\ now \in Nat /\ phase \in Phases /\ disk \in Stores /\ mem \in Stores
      /\ toRegister \subseteq Protected /\ starting \in StartSteps \union {"no"}
      /\ calls \subseteq Ops \X Jobs /\ requested \in Nat
      /\ handle \in Timers \union {NoTimer} /\ unstored \subseteq Timers
  BY AbsentType DEF Init, Phases
<1>4. /\ tstate \in [Timers -> TimerStates] /\ wake \in [Timers -> Int]
      /\ todo \in [Timers -> SUBSET Jobs] /\ cur \in [Timers -> Jobs \union {NoJob}]
  BY DEF Init, TimerStates
<1>5. /\ used \subseteq Jobs /\ ran \in [OneShots -> Int] /\ surplus \in Nat
      /\ kept \subseteq Jobs /\ gone \subseteq Jobs /\ early \in Nat /\ events \in Nat
  BY <1>1 DEF Init
<1>6. QED
  BY <1>2, <1>3, <1>4, <1>5 DEF TypeOK

(* What the abort of the task in the slot does to the types. *)
LEMMA AbortType ==
    ASSUME TypeOK, AbortHandle
    PROVE  /\ handle' \in Timers \union {NoTimer}
           /\ todo' \in [Timers -> SUBSET Jobs]
           /\ cur' \in [Timers -> Jobs \union {NoJob}]
           /\ ran' \in [OneShots -> Int]
           /\ Aborted \in [Timers -> TimerStates]
           /\ Wakes \in [Timers -> Int]
BY DEF TypeOK, AbortHandle, Aborted, Wakes, TimerStates

LEMMA TypeStep == ASSUME TypeOK, [Next]_vars PROVE TypeOK'
<1>1. CASE Boot
  <2>1. /\ mem' = disk /\ stale' = torn /\ phase' = "registered" /\ toRegister' = Protected
        /\ UNCHANGED <<now, starting, disk, torn, calls, requested, timerVars,
                       historyVars, early, dirty, behind, clobbered, blind, events>>
    BY <1>1 DEF Boot
  <2>2. QED
    BY <2>1 DEF TypeOK, Phases, timerVars, historyVars
<1>2. CASE Start
  <2>1. /\ phase' = "running" /\ starting' = "load"
        /\ UNCHANGED <<now, toRegister, disk, torn, mem, stale, calls, requested,
                       timerVars, historyVars, early, dirty, behind, clobbered,
                       blind, events>>
    BY <1>2 DEF Start
  <2>2. QED
    BY <2>1 DEF TypeOK, Phases, StartSteps, timerVars, historyVars
<1>20. CASE StartLoad
  <2>1. dirty' \in BOOLEAN
    BY <1>20 DEF StartLoad
  <2>2. Reload
    BY <1>20 DEF StartLoad
  <2>3. /\ mem' = Current /\ starting' = "recompute"
        /\ UNCHANGED <<now, phase, toRegister, disk, torn, calls, requested,
                       timerVars, historyVars, early, behind, events>>
    BY <1>20 DEF StartLoad
  <2>4. QED
    BY <2>1, <2>2, <2>3, CurrentType, ReloadType DEF TypeOK, StartSteps, timerVars, historyVars
<1>21. CASE StartRecompute
  <2>1. mem' \in Stores
    BY <1>21, CurrentType, EnabledType DEF StartRecompute, Recomputed, TypeOK, Stores
  <2>2. dirty' \in BOOLEAN
    <3>1. dirty' = TRUE
      BY <1>21 DEF StartRecompute
    <3>2. QED
      BY <3>1
  <2>3. Reload
    BY <1>21 DEF StartRecompute
  <2>4. /\ starting' = "save"
        /\ UNCHANGED <<now, phase, toRegister, disk, torn, calls, requested,
                       timerVars, historyVars, early, behind, events>>
    BY <1>21 DEF StartRecompute
  <2>5. QED
    BY <2>1, <2>2, <2>3, <2>4, ReloadType DEF TypeOK, StartSteps, timerVars, historyVars
<1>22. CASE StartSave
  <2>1. Save
    BY <1>22 DEF StartSave
  <2>2. /\ requested' = requested + 1 /\ starting' = "no"
        /\ UNCHANGED <<now, phase, toRegister, calls, timerVars, historyVars, early>>
    BY <1>22 DEF StartSave
  <2>3. QED
    BY <2>1, <2>2, SaveType DEF TypeOK, timerVars, historyVars
<1>23. ASSUME NEW j \in Jobs, Register(j) PROVE TypeOK'
  <2>1. mem' \in Stores
    BY <1>23, CurrentType, EnabledType DEF Register, TypeOK, Stores
  <2>2. dirty' \in BOOLEAN
    <3>1. dirty' = TRUE
      BY <1>23 DEF Register
    <3>2. QED
      BY <3>1
  <2>3. Reload
    BY <1>23 DEF Register
  <2>4. /\ toRegister' = toRegister \ {j} /\ calls' = {<<"register", j>>}
        /\ UNCHANGED <<now, phase, starting, disk, torn, requested, timerVars,
                       historyVars, early, behind, events>>
    BY <1>23 DEF Register
  <2>5. QED
    BY <2>1, <2>2, <2>3, <2>4, ReloadType DEF TypeOK, Ops, timerVars, historyVars
<1>3. CASE Stop
  BY <1>3, AbortType DEF Stop, TypeOK, Phases
<1>4. CASE Kill
  <2>1. disk' \in Stores /\ torn' \in BOOLEAN /\ clobbered' \in BOOLEAN
    <3>1. CASE UNCHANGED <<disk, torn>> /\ clobbered' = (clobbered \/ behind)
      <4>1. clobbered' \in BOOLEAN
        BY <3>1
      <4>2. QED
        BY <3>1, <4>1 DEF TypeOK
    <3>2. CASE disk' = Empty /\ torn' = TRUE /\ clobbered' = TRUE
      BY <3>2, AbsentType
    <3>3. QED
      BY <1>4, <3>1, <3>2 DEF Kill
  <2>2. stale' \in BOOLEAN /\ dirty' \in BOOLEAN /\ behind' \in BOOLEAN /\ blind' \in BOOLEAN
    <3>1. stale' = FALSE /\ dirty' = FALSE /\ behind' = FALSE /\ blind' = FALSE
      BY <1>4 DEF Kill
    <3>2. QED
      BY <3>1
  <2>3. /\ tstate' \in [Timers -> TimerStates] /\ wake' \in [Timers -> Int]
        /\ todo' \in [Timers -> SUBSET Jobs] /\ cur' \in [Timers -> Jobs \union {NoJob}]
    BY <1>4 DEF Kill, TimerStates
  <2>4. /\ events' = events + 1 /\ phase' = "down" /\ mem' = Empty
        /\ toRegister' = {} /\ starting' = "no"
        /\ calls' = {} /\ requested' = 0 /\ handle' = NoTimer /\ unstored' = {}
        /\ UNCHANGED <<now, historyVars, early>>
    BY <1>4 DEF Kill
  <2>5. QED
    BY <2>1, <2>2, <2>3, <2>4, AbsentType DEF TypeOK, Phases, historyVars
<1>5. CASE External
  <2>1. PICK j \in Jobs \ Protected :
           \/ /\ used' = used \union {j}
              /\ disk' = [disk EXCEPT ![j] = Enabled(j, now)]
              /\ kept' = kept
           \/ /\ used' = used
              /\ disk' = [disk EXCEPT ![j] = Absent]
              /\ kept' = kept \ {j}
    BY <1>5 DEF External
  <2>2. disk' \in Stores
    BY <2>1, EnabledType, AbsentType DEF TypeOK, Stores
  <2>3. used' \subseteq Jobs /\ kept' \subseteq Jobs
    BY <2>1 DEF TypeOK
  <2>4. torn' \in BOOLEAN /\ stale' \in BOOLEAN
    <3>1. torn' = FALSE /\ stale' = (phase # "down")
      BY <1>5 DEF External
    <3>2. QED
      BY <3>1
  <2>5. events' = events + 1
        /\ UNCHANGED <<now, bootVars, mem, calls, requested, timerVars, ran,
                       surplus, gone, early, dirty, behind, clobbered, blind>>
    BY <1>5 DEF External
  <2>6. QED
    BY <2>2, <2>3, <2>4, <2>5 DEF TypeOK, timerVars, bootVars
<1>6. CASE Tick
  BY <1>6 DEF Tick, TypeOK, timerVars, historyVars, bootVars
<1>7. CASE Arm
  <2>1. wake' \in [Timers -> Int] /\ tstate' \in [Timers -> TimerStates]
        /\ unstored' \subseteq Timers /\ surplus' \in Nat
    <3>1. CASE Running /\ \E j \in Jobs : Scheduled(mem, j)
      <4>1. PICK t \in Timers :
               /\ TimerFor(t)
               /\ tstate' = [Aborted EXCEPT ![t] = "sleeping"]
               /\ unstored' = unstored \union {t}
               /\ surplus' = surplus + 1 \/ surplus' = surplus
        BY <1>7, <3>1 DEF Arm
      <4>2. PICK j \in Jobs : wake' = [Wakes EXCEPT ![t] = mem[j].next]
        BY <4>1 DEF TimerFor
      <4>3. mem[j].next \in Int
        BY DEF TypeOK, Stores, Entries
      <4>4. wake' \in [Timers -> Int]
        BY <1>7, <4>2, <4>3, AbortType DEF Arm
      <4>5. tstate' \in [Timers -> TimerStates]
        BY <1>7, <4>1, AbortType DEF Arm, TimerStates
      <4>6. QED
        BY <4>1, <4>4, <4>5 DEF TypeOK
    <3>2. CASE ~(Running /\ \E j \in Jobs : Scheduled(mem, j))
      BY <1>7, <3>2, AbortType DEF Arm, TypeOK
    <3>3. QED
      BY <3>1, <3>2
  <2>2. requested' \in Nat
    BY <1>7 DEF Arm, ArmRequested, TypeOK
  <2>3. AbortHandle /\ blind' = FALSE
        /\ UNCHANGED <<now, bootVars, disk, torn, mem, stale, calls, used, kept, gone,
                       early, dirty, behind, clobbered, events>>
    BY <1>7 DEF Arm
  <2>4. blind' \in BOOLEAN
    BY <2>3
  <2>5. QED
    BY <2>1, <2>2, <2>3, <2>4, AbortType DEF TypeOK, bootVars
<1>8. CASE ListJobs
  <2>1. dirty' \in BOOLEAN
    <3>1. dirty' = FALSE
      BY <1>8 DEF ListJobs
    <3>2. QED
      BY <3>1
  <2>2. Reload
    BY <1>8 DEF ListJobs
  <2>3. mem' = Current
        /\ UNCHANGED <<now, bootVars, disk, torn, calls, requested, timerVars,
                       historyVars, early, behind, events>>
    BY <1>8 DEF ListJobs
  <2>4. QED
    BY <2>1, <2>2, <2>3, CurrentType, ReloadType DEF TypeOK, bootVars, timerVars, historyVars
<1>9. ASSUME NEW t \in Timers, StoreHandle(t) PROVE TypeOK'
  BY <1>9 DEF StoreHandle, TypeOK, TimerStates, historyVars, bootVars
<1>10. ASSUME NEW t \in Timers, Fire(t) PROVE TypeOK'
  <2>1. todo' \in [Timers -> SUBSET Jobs]
    BY <1>10 DEF Fire, TypeOK
  <2>2. tstate' \in [Timers -> TimerStates] /\ wake' \in [Timers -> Int]
    BY <1>10 DEF Fire, TypeOK, TimerStates
  <2>3. dirty' \in BOOLEAN /\ early' \in Nat
    BY <1>10 DEF Fire, TypeOK
  <2>4. Reload
    BY <1>10 DEF Fire
  <2>5. mem' = Current
        /\ UNCHANGED <<now, bootVars, disk, torn, calls, requested, cur, handle,
                       unstored, historyVars, behind, events>>
    BY <1>10 DEF Fire
  <2>6. QED
    BY <2>1, <2>2, <2>3, <2>4, <2>5, CurrentType, ReloadType DEF TypeOK, historyVars, bootVars
<1>11. ASSUME NEW t \in Timers, CallbackReturns(t) PROVE TypeOK'
  <2>1. cur[t] \in Jobs
    BY <1>11 DEF CallbackReturns, TypeOK
  <2>2. AfterRun(Current, cur[t]) \in Stores
    <3>1. Current \in Stores
      BY CurrentType
    <3>2. NextRun(cur[t], now) \in Int
      BY <2>1, TimesAssumption DEF NextRun, NoRun, TypeOK
    <3>3. [Current EXCEPT ![cur[t]] = Absent] \in Stores
      BY <3>1, AbsentType DEF Stores
    <3>4. [Current EXCEPT ![cur[t]] = [@ EXCEPT !.next = NextRun(cur[t], now)]] \in Stores
      BY <2>1, <3>1, <3>2 DEF Stores, Entries
    <3>5. QED
      BY <3>1, <3>3, <3>4 DEF AfterRun
  <2>3. mem' \in Stores /\ dirty' \in BOOLEAN /\ kept' \subseteq Jobs
    BY <1>11, <2>2 DEF CallbackReturns, JobDone, TypeOK
  <2>4. cur' \in [Timers -> Jobs \union {NoJob}]
    BY <1>11 DEF CallbackReturns, TypeOK
  <2>5. Reload
    BY <1>11 DEF CallbackReturns, JobDone
  <2>6. UNCHANGED <<now, bootVars, disk, torn, calls, requested, tstate, wake, todo,
                   handle, unstored, used, ran, surplus, gone, early, behind, events>>
    BY <1>11 DEF CallbackReturns
  <2>7. QED
    BY <2>3, <2>4, <2>5, <2>6, ReloadType DEF TypeOK, bootVars
<1>12. ASSUME NEW t \in Timers, TimerEnds(t) PROVE TypeOK'
  <2>1. Save
    BY <1>12 DEF TimerEnds
  <2>2. requested' = requested + 1
        /\ handle' \in Timers \union {NoTimer}
        /\ tstate' \in [Timers -> TimerStates]
        /\ UNCHANGED <<now, bootVars, calls, wake, todo, cur, unstored, historyVars, early>>
    BY <1>12 DEF TimerEnds, Ended, TypeOK, TimerStates
  <2>3. QED
    BY <2>1, <2>2, SaveType DEF TypeOK, historyVars, bootVars
<1>13. ASSUME NEW t \in Timers, NEW j \in Jobs, Execute(t, j) PROVE TypeOK'
  <2>1. ran' \in [OneShots -> Int] /\ cur' \in [Timers -> Jobs \union {NoJob}]
    BY <1>13 DEF Execute, TypeOK
  <2>2. todo' \in [Timers -> SUBSET Jobs]
    BY <1>13 DEF Execute, TypeOK
  <2>3. QED
    BY <1>13, <2>1, <2>2 DEF Execute, TypeOK, bootVars
<1>14. ASSUME NEW j \in Jobs, AddJob(j) PROVE TypeOK'
  <2>1. mem' \in Stores
    BY <1>14, CurrentType, EnabledType DEF AddJob, TypeOK, Stores
  <2>2. calls' \subseteq Ops \X Jobs /\ used' \subseteq Jobs
    BY <1>14 DEF AddJob, Call, TypeOK, Ops
  <2>3. Reload /\ events' = events + 1
        /\ UNCHANGED <<now, bootVars, disk, torn, requested, timerVars, surplus, gone,
                       early, behind, ran, kept>>
    BY <1>14 DEF AddJob, Call
  <2>4. dirty' \in BOOLEAN
    <3>1. dirty' = TRUE
      BY <1>14 DEF AddJob
    <3>2. QED
      BY <3>1
  <2>5. QED
    BY <2>1, <2>2, <2>3, <2>4, ReloadType DEF TypeOK, timerVars, bootVars
<1>15. ASSUME NEW j \in Jobs, RemoveJob(j) PROVE TypeOK'
  <2>1. mem' \in Stores
    BY <1>15, CurrentType, AbsentType DEF RemoveJob, TypeOK, Stores
  <2>2. calls' \subseteq Ops \X Jobs /\ kept' \subseteq Jobs
    BY <1>15 DEF RemoveJob, Call, TypeOK, Ops
  <2>3. Reload /\ events' = events + 1
        /\ UNCHANGED <<now, bootVars, disk, torn, requested, timerVars, surplus, gone,
                       early, behind, used, ran>>
    BY <1>15 DEF RemoveJob, Call
  <2>4. dirty' \in BOOLEAN
    <3>1. dirty' = TRUE
      BY <1>15 DEF RemoveJob
    <3>2. QED
      BY <3>1
  <2>5. QED
    BY <2>1, <2>2, <2>3, <2>4, ReloadType DEF TypeOK, timerVars, bootVars
<1>16. ASSUME NEW c \in calls, SaveCall(c) PROVE TypeOK'
  <2>1. c[2] \in Jobs
    BY <1>16 DEF TypeOK
  <2>2. kept' \subseteq Jobs /\ gone' \subseteq Jobs
    BY <1>16, <2>1 DEF SaveCall, TypeOK
  <2>3. Save
    BY <1>16 DEF SaveCall
  <2>4. calls' \subseteq Ops \X Jobs /\ requested' \in Nat
        /\ UNCHANGED <<now, bootVars, timerVars, used, ran, surplus, early>>
    BY <1>16 DEF SaveCall, TypeOK
  <2>5. QED
    BY <2>2, <2>3, <2>4, SaveType DEF TypeOK, timerVars, bootVars
<1>17. CASE UNCHANGED vars
  BY <1>17 DEF vars, timerVars, historyVars, bootVars, TypeOK
<1>18. QED
  BY <1>1, <1>2, <1>3, <1>4, <1>5, <1>6, <1>7, <1>8, <1>9, <1>10, <1>11, <1>12,
     <1>13, <1>14, <1>15, <1>16, <1>17, <1>20, <1>21, <1>22, <1>23
     DEF Next, Service, Operation, Starts

(* Type correctness of the cron service: a store is a map from jobs to entries,
   a timer task runs jobs of the store, and nothing is counted below zero. *)
THEOREM TypeCorrect == Spec => []TypeOK
<1>1. TypeOK /\ [Next]_vars => TypeOK'
  BY TypeStep
<1>2. QED
  BY InitType, <1>1, PTL DEF Spec

--------------------------------------------------------------------------------
(* A callback is awaited by a timer task that is firing, and due jobs are left
   to one.  Without this, the
   state update after a callback could come when no arm is due any more. *)
CurFiring ==
    \A t \in Timers : cur[t] # NoJob \/ todo[t] # {} => tstate[t] = "firing"

WakeInv == CurFiring /\ NoLostWakeup

LEMMA CurFiringStep == TypeOK /\ CurFiring /\ [Next]_vars => CurFiring'
<1> SUFFICES ASSUME TypeOK, CurFiring, [Next]_vars PROVE CurFiring'
  OBVIOUS
<1>1. CASE UNCHANGED <<cur, todo, tstate>>
  BY <1>1 DEF CurFiring
<1>2. CASE Stop
  BY <1>2 DEF Stop, AbortHandle, Aborted, CurFiring
<1>3. CASE Kill
  BY <1>3 DEF Kill, CurFiring
<1>4. CASE Arm
  <2>1. \A t \in Timers : tstate'[t] = Aborted[t] \/ Aborted[t] = "free"
    BY <1>4, AbortType DEF Arm, TimerStates
  <2>2. \A t \in Timers : /\ cur'[t] = IF t = handle THEN NoJob ELSE cur[t]
                          /\ todo'[t] = IF t = handle THEN {} ELSE todo[t]
    BY <1>4 DEF Arm, AbortHandle
  <2>3. \A t \in Timers : Aborted[t] = IF t = handle THEN "free" ELSE tstate[t]
    BY DEF Aborted
  <2>4. QED
    BY <2>1, <2>2, <2>3 DEF CurFiring
<1>5. ASSUME NEW t \in Timers, StoreHandle(t) PROVE CurFiring'
  BY <1>5 DEF StoreHandle, CurFiring, TypeOK
<1>6. ASSUME NEW t \in Timers, Fire(t) PROVE CurFiring'
  BY <1>6 DEF Fire, CurFiring, TypeOK
<1>7. ASSUME NEW t \in Timers, CallbackReturns(t) PROVE CurFiring'
  BY <1>7 DEF CallbackReturns, CurFiring, TypeOK
<1>8. ASSUME NEW t \in Timers, TimerEnds(t) PROVE CurFiring'
  BY <1>8 DEF TimerEnds, CurFiring, TypeOK
<1>9. ASSUME NEW t \in Timers, NEW j \in Jobs, Execute(t, j) PROVE CurFiring'
  BY <1>9 DEF Execute, CurFiring, TypeOK
<1>10. CASE Boot \/ Start \/ Starts \/ External \/ Tick \/ ListJobs
  BY <1>1, <1>10 DEF Boot, Start, Starts, StartLoad, StartRecompute, StartSave, External,
                     Tick, ListJobs, timerVars
<1>11. ASSUME NEW j \in Jobs, Operation(j) PROVE CurFiring'
  BY <1>1, <1>11 DEF Operation, Register, AddJob, RemoveJob, Call, timerVars
<1>12. ASSUME NEW c \in calls, SaveCall(c) PROVE CurFiring'
  BY <1>1, <1>12 DEF SaveCall, timerVars
<1>13. CASE UNCHANGED vars
  BY <1>1, <1>13 DEF vars, timerVars
<1>14. QED
  BY <1>2, <1>3, <1>4, <1>5, <1>6, <1>7, <1>8, <1>9, <1>10, <1>11, <1>12, <1>13
     DEF Next, Service

(* An arm of a running service leaves a sleeping timer for every scheduled job. *)
LEMMA ArmCovers ==
    ASSUME TypeOK, Arm, Running, NEW j \in Jobs, Scheduled(mem, j)
    PROVE  \E t \in Timers : tstate'[t] = "sleeping" /\ wake'[t] <= mem[j].next
<1>1. PICK t \in Timers :
         TimerFor(t) /\ tstate' = [Aborted EXCEPT ![t] = "sleeping"]
  BY DEF Arm
<1>2. PICK i \in Jobs :
         /\ \A k \in Jobs : Scheduled(mem, k) => mem[i].next <= mem[k].next
         /\ wake' = [Wakes EXCEPT ![t] = mem[i].next]
  BY <1>1 DEF TimerFor
<1>3. tstate'[t] = "sleeping"
  BY <1>1, AbortType DEF Arm
<1>4. wake'[t] = mem[i].next
  BY <1>2, AbortType DEF Arm
<1>5. QED
  BY <1>2, <1>3, <1>4

(* If somebody is still going to arm the timer, nothing is lost. *)
LEMMA ComingCovers == ArmComing' => NoLostWakeup'
BY DEF NoLostWakeup

LEMMA NotRunningCovers == phase' # "running" => NoLostWakeup'
BY DEF NoLostWakeup, Running

LEMMA BlindCovers == blind' => NoLostWakeup'
BY DEF NoLostWakeup

(* The store, the timers and the requests for an arm are what the property is
   about. *)
LEMMA SameCovers ==
    NoLostWakeup /\ UNCHANGED <<phase, starting, blind, mem, requested, calls, tstate, wake>>
        => NoLostWakeup'
BY DEF NoLostWakeup, Running, Scheduled, ArmComing

(* No wakeup of the cron service is lost, whatever operations, arms and firing
   timers overlap.  Each operation leaves a request for an arm after its last
   change of the store, a firing timer leaves one when it ends, and an arm that
   aborts a timer spawns one for the earliest job it sees. *)
THEOREM WakeupsKept == Spec => []NoLostWakeup
<1>1. Init => WakeInv
  BY DEF Init, WakeInv, CurFiring, NoLostWakeup, Running
<1>2. TypeOK /\ WakeInv /\ [Next]_vars => NoLostWakeup'
  <2> SUFFICES ASSUME TypeOK, CurFiring, NoLostWakeup, [Next]_vars PROVE NoLostWakeup'
    BY DEF WakeInv
  <2>1. CASE Boot
    BY <2>1, NotRunningCovers DEF Boot
  <2>2. CASE Start \/ StartLoad \/ StartRecompute
    <3>1. starting' # "no"
      BY <2>2 DEF Start, StartLoad, StartRecompute
    <3>2. QED
      BY <3>1, ComingCovers DEF ArmComing
  <2>18. CASE StartSave
    <3>1. requested' > 0
      BY <2>18 DEF StartSave, TypeOK
    <3>2. QED
      BY <3>1, ComingCovers DEF ArmComing
  <2>3. CASE Stop
    BY <2>3, NotRunningCovers DEF Stop
  <2>4. CASE Kill
    BY <2>4, NotRunningCovers DEF Kill
  <2>5. CASE External
    BY <2>5, SameCovers DEF External, timerVars, bootVars
  <2>6. CASE Tick
    BY <2>6, SameCovers DEF Tick, timerVars, bootVars
  <2>7. CASE Arm
    <3>1. CASE Running
      <4>1. mem' = mem
        BY <2>7 DEF Arm
      <4>2. \A j \in Jobs : Scheduled(mem', j) =>
               \E t \in Timers : tstate'[t] = "sleeping" /\ wake'[t] <= mem'[j].next
        BY <2>7, <3>1, <4>1, ArmCovers
      <4>3. QED
        BY <4>2 DEF NoLostWakeup
    <3>2. CASE ~Running
      BY <2>7, <3>2, NotRunningCovers DEF Arm, Running, bootVars
    <3>3. QED
      BY <3>1, <3>2
  <2>8. CASE ListJobs
    <3>1. stale /\ blind' = (blind \/ stale)
      BY <2>8 DEF ListJobs, Reload
    <3>2. blind'
      BY <3>1, Zenon
    <3>3. QED
      BY <3>2, BlindCovers
  <2>9. ASSUME NEW t \in Timers, StoreHandle(t) PROVE NoLostWakeup'
    <3>1. \A u \in Timers : /\ tstate[u] = "sleeping" => tstate'[u] = "sleeping"
                            /\ tstate[u] = "firing" => tstate'[u] = "firing"
      BY <2>9 DEF StoreHandle, TypeOK
    <3>2. UNCHANGED <<phase, starting, blind, mem, requested, calls, wake>>
      BY <2>9 DEF StoreHandle, bootVars
    <3>3. QED
      BY <3>1, <3>2 DEF NoLostWakeup, Running, Scheduled, ArmComing
  <2>10. ASSUME NEW t \in Timers, Fire(t) PROVE NoLostWakeup'
    <3>1. tstate'[t] = "firing"
      BY <2>10 DEF Fire, TypeOK
    <3>2. QED
      BY <3>1, ComingCovers DEF ArmComing
  <2>11. ASSUME NEW t \in Timers, CallbackReturns(t) PROVE NoLostWakeup'
    <3>1. tstate'[t] = "firing"
      BY <2>11 DEF CallbackReturns, CurFiring
    <3>2. QED
      BY <3>1, ComingCovers DEF ArmComing
  <2>12. ASSUME NEW t \in Timers, TimerEnds(t) PROVE NoLostWakeup'
    <3>1. requested' > 0
      BY <2>12 DEF TimerEnds, TypeOK
    <3>2. QED
      BY <3>1, ComingCovers DEF ArmComing
  <2>13. ASSUME NEW t \in Timers, NEW j \in Jobs, Execute(t, j) PROVE NoLostWakeup'
    BY <2>13, SameCovers DEF Execute, bootVars
  <2>14. ASSUME NEW j \in Jobs, Operation(j) PROVE NoLostWakeup'
    <3>1. calls' # {}
      BY <2>14 DEF Operation, Register, AddJob, RemoveJob, Call
    <3>2. QED
      BY <3>1, ComingCovers DEF ArmComing
  <2>15. ASSUME NEW c \in calls, SaveCall(c) PROVE NoLostWakeup'
    <3>1. requested' > 0
      BY <2>15 DEF SaveCall, TypeOK
    <3>2. QED
      BY <3>1, ComingCovers DEF ArmComing
  <2>16. CASE UNCHANGED vars
    BY <2>16, SameCovers DEF vars, timerVars, bootVars
  <2>17. QED
    BY <2>1, <2>2, <2>18, <2>3, <2>4, <2>5, <2>6, <2>7, <2>8, <2>9, <2>10, <2>11, <2>12,
       <2>13, <2>14, <2>15, <2>16 DEF Next, Service, Starts
<1>3. TypeOK /\ WakeInv /\ [Next]_vars => WakeInv'
  BY <1>2, CurFiringStep DEF WakeInv
<1>4. WakeInv => NoLostWakeup
  BY DEF WakeInv
<1>5. QED
  BY <1>1, <1>3, <1>4, TypeCorrect, PTL DEF Spec

--------------------------------------------------------------------------------
(* What a store may hold, and what memory and disk have to do with each other. *)

(* A job of a store has its identifier for good. *)
Known ==
    /\ Protected \subseteq used
    /\ \A j \in Jobs : Present(mem, j) \/ Present(disk, j) => j \in used

(* What is in memory and not dirty is on disk, unless the file was changed since. *)
Written == phase # "down" /\ ~stale /\ ~dirty => mem = disk

(* A one-shot job is due at its time or never again. *)
OneTime ==
    \A j \in OneShots : mem[j].next \in {AtTime, NoRun} /\ disk[j].next \in {AtTime, NoRun}

(* A file that does not parse reads as an empty store. *)
TornEmpty == torn => disk = Empty

(* Nothing is under way in a process that is down; system jobs are registered
   before the start, which is over before the stop. *)
BootOrder ==
    /\ phase = "down" => calls = {}
    /\ starting # "no" => phase = "running"
    /\ toRegister # {} => phase = "registered"

Stored == Known /\ Written /\ OneTime /\ TornEmpty /\ BootOrder

LEMMA BootStep == ASSUME TypeOK, BootOrder, [Next]_vars PROVE BootOrder'
<1>1. ASSUME UNCHANGED <<bootVars, calls>> PROVE BootOrder'
  BY <1>1 DEF bootVars, BootOrder
<1>2. CASE Boot \/ Start \/ Kill
  BY <1>2 DEF Boot, Start, Kill, BootOrder
<1>3. CASE Starts
  BY <1>3 DEF Starts, StartLoad, StartRecompute, StartSave, BootOrder
<1>4. CASE Stop
  BY <1>4 DEF Stop, Running, BootOrder
<1>5. CASE External \/ Tick \/ Arm \/ ListJobs
  BY <1>1, <1>5 DEF External, Tick, Arm, ListJobs
<1>6. ASSUME NEW t \in Timers, Service(t) PROVE BootOrder'
  BY <1>1, <1>6 DEF Service, StoreHandle, Fire, CallbackReturns, TimerEnds, Execute
<1>7. ASSUME NEW j \in Jobs, AddJob(j) \/ RemoveJob(j) PROVE BootOrder'
  BY <1>7 DEF AddJob, RemoveJob, Call, Running, bootVars, BootOrder
<1>8. ASSUME NEW j \in Jobs, Register(j) PROVE BootOrder'
  BY <1>8 DEF Register, BootOrder
<1>9. ASSUME NEW c \in calls, SaveCall(c) PROVE BootOrder'
  BY <1>9 DEF SaveCall, bootVars, BootOrder
<1>10. CASE UNCHANGED vars
  BY <1>1, <1>10 DEF vars
<1>11. QED
  BY <1>2, <1>3, <1>4, <1>5, <1>6, <1>7, <1>8, <1>9, <1>10 DEF Next, Operation

(* What a save leaves: the file is written, nothing is, or half of it is. *)
Wrote ==
    /\ disk' = mem /\ torn' = FALSE /\ stale' = FALSE /\ dirty' = FALSE
    /\ behind' = FALSE /\ clobbered' = (clobbered \/ (stale /\ ~torn))
Unwritten == behind' = (behind \/ dirty) /\ UNCHANGED <<disk, torn, stale, dirty, clobbered>>
HalfWritten ==
    /\ disk' = Empty /\ torn' = TRUE /\ stale' = TRUE /\ dirty' = TRUE
    /\ behind' = TRUE /\ clobbered' = (clobbered \/ (stale /\ ~torn))

LEMMA SaveEffect ==
    ASSUME Save
    PROVE  /\ mem' = mem
           /\ Wrote \/ Unwritten \/ HalfWritten
           /\ ~clobbered' => ~clobbered
<1>1. mem' = mem /\ (SaveWrites \/ SaveFails)
  BY DEF Save
<1>2. SaveWrites => Wrote
  BY DEF SaveWrites, Wrote
<1>3. SaveFails => Unwritten \/ HalfWritten
  BY DEF SaveFails, Unwritten, HalfWritten
<1>4. Wrote \/ HalfWritten => (~clobbered' => ~clobbered)
  BY Zenon DEF Wrote, HalfWritten
<1>5. Unwritten => (~clobbered' => ~clobbered)
  BY DEF Unwritten
<1>6. QED
  BY <1>1, <1>2, <1>3, <1>4, <1>5, Zenon

LEMMA TornStep == ASSUME TypeOK, TornEmpty, [Next]_vars PROVE TornEmpty'
<1>1. ASSUME UNCHANGED <<disk, torn>> PROVE TornEmpty'
  BY <1>1 DEF TornEmpty
<1>2. ASSUME Save PROVE TornEmpty'
  <2>1. Wrote \/ Unwritten \/ HalfWritten
    BY <1>2, SaveEffect, Zenon
  <2>2. CASE Wrote \/ HalfWritten
    BY <2>2 DEF Wrote, HalfWritten, TornEmpty
  <2>3. CASE Unwritten
    BY <1>1, <2>3 DEF Unwritten
  <2>4. QED
    BY <2>1, <2>2, <2>3
<1>3. CASE Boot \/ Start \/ Stop \/ Tick \/ Arm \/ ListJobs \/ StartLoad \/ StartRecompute
  BY <1>1, <1>3 DEF Boot, Start, Stop, Tick, Arm, ListJobs, StartLoad, StartRecompute
<1>4. CASE StartSave
  BY <1>2, <1>4 DEF StartSave
<1>5. CASE Kill \/ External
  BY <1>5 DEF Kill, External, TornEmpty
<1>6. ASSUME NEW t \in Timers, TimerEnds(t) PROVE TornEmpty'
  BY <1>2, <1>6 DEF TimerEnds
<1>7. ASSUME NEW t \in Timers,
             \/ StoreHandle(t) \/ Fire(t) \/ CallbackReturns(t)
             \/ \E j \in Jobs : Execute(t, j)
      PROVE  TornEmpty'
  BY <1>1, <1>7 DEF StoreHandle, Fire, CallbackReturns, Execute
<1>8. ASSUME NEW j \in Jobs, Operation(j) PROVE TornEmpty'
  BY <1>1, <1>8 DEF Operation, Register, AddJob, RemoveJob, Call
<1>9. ASSUME NEW c \in calls, SaveCall(c) PROVE TornEmpty'
  BY <1>2, <1>9 DEF SaveCall
<1>10. CASE UNCHANGED vars
  BY <1>1, <1>10 DEF vars
<1>11. QED
  BY <1>3, <1>4, <1>5, <1>6, <1>7, <1>8, <1>9, <1>10 DEF Next, Service, Starts

(* The entries that operations, timers and starts put into a store. *)
LEMMA EntryFacts ==
    ASSUME NEW j \in Jobs, NEW t \in Nat
    PROVE  /\ Enabled(j, t).status = "enabled"
           /\ j \in OneShots => Enabled(j, t).next = IF AtTime > t THEN AtTime ELSE NoRun
           /\ Absent.status = "absent" /\ Absent.next = NoRun
BY DEF Enabled, NextRun, Absent

LEMMA CurrentStore ==
    ASSUME TypeOK, Known, OneTime
    PROVE  /\ Current \in Stores
           /\ \A j \in Jobs : Present(Current, j) => j \in used
           /\ \A j \in OneShots : Current[j].next \in {AtTime, NoRun}
BY DEF TypeOK, Current, Known, OneTime, Present

LEMMA AfterRunFacts ==
    ASSUME TypeOK, NEW s \in Stores, NEW j \in Jobs
    PROVE  /\ \A i \in Jobs : i # j => AfterRun(s, j)[i] = s[i]
           /\ j \in OneShots => ~Present(AfterRun(s, j), j)
           /\ AfterRun(s, j)[j].status \in {s[j].status, "absent"}
           /\ ~Present(s, j) => AfterRun(s, j) = s
           /\ j \notin OneShots => AfterRun(s, j)[j].status = s[j].status
           /\ j \in OneShots => AfterRun(s, j)[j].next \in {s[j].next, NoRun}
<1>1. CASE ~Present(s, j)
  BY <1>1 DEF AfterRun
<1>2. CASE Present(s, j) /\ j \in OneShots
  BY <1>2 DEF AfterRun, Stores, Absent, Present
<1>3. CASE Present(s, j) /\ j \notin OneShots
  BY <1>3 DEF AfterRun, Stores, Entries
<1>4. QED
  BY <1>1, <1>2, <1>3

LEMMA StoredStep == ASSUME TypeOK, Stored, [Next]_vars PROVE Stored'
<1>1. /\ mem \in Stores /\ disk \in Stores /\ Current \in Stores /\ now \in Nat
      /\ \A j \in Jobs : Present(Current, j) => j \in used
      /\ \A j \in OneShots : Current[j].next \in {AtTime, NoRun}
      /\ OneShots \subseteq Jobs /\ Protected \subseteq Jobs
      /\ Known /\ Written /\ OneTime /\ TornEmpty /\ BootOrder
      /\ stale \in BOOLEAN /\ dirty \in BOOLEAN /\ torn \in BOOLEAN
      /\ TornEmpty' /\ BootOrder'
  BY CurrentStore, TornStep, BootStep, JobsAssumption DEF Stored, TypeOK
<1>22. \A j \in Jobs : ~Present(Empty, j) /\ Empty[j].next = NoRun
  BY EntryFacts DEF Empty, Present, Absent
<1>2. CASE Boot
  <2>1. mem' = disk /\ disk' = disk /\ used' = used
    BY <1>2 DEF Boot, historyVars
  <2>2. QED
    BY <1>1, <2>1 DEF Stored, Known, Written, OneTime
<1>3. CASE StartRecompute
  <2>1. mem' = [j \in Jobs |-> IF Current[j].status = "enabled" THEN Enabled(j, now) ELSE Current[j]]
        /\ disk' = disk /\ used' = used /\ dirty' = TRUE
    BY <1>3 DEF StartRecompute, Recomputed, historyVars
  <2>2. \A j \in Jobs : Present(mem', j) => j \in used
    BY <1>1, <2>1 DEF Present
  <2>3. \A j \in OneShots : mem'[j].next \in {AtTime, NoRun}
    BY <1>1, <2>1, EntryFacts
  <2>4. QED
    BY <1>1, <2>1, <2>2, <2>3 DEF Stored, Known, Written, OneTime
<1>4. ASSUME UNCHANGED <<mem, disk, used, stale, dirty>>,
             phase' = "down" <=> phase = "down"
      PROVE  Stored'
  BY <1>1, <1>4 DEF Stored, Known, Written, OneTime, Present
<1>5. CASE Stop \/ Start
  BY <1>4, <1>5 DEF Stop, Start, Running, historyVars
<1>6. CASE Tick \/ Arm
  BY <1>4, <1>6 DEF Tick, Arm, historyVars, bootVars
<1>7. ASSUME NEW t \in Timers, StoreHandle(t) \/ \E j \in Jobs : Execute(t, j) PROVE Stored'
  BY <1>4, <1>7 DEF StoreHandle, Execute, historyVars, bootVars
<1>8. CASE Kill
  <2>1. mem' = Empty /\ phase' = "down" /\ used' = used /\ disk' \in {disk, Empty}
    BY <1>8 DEF Kill, historyVars
  <2>2. QED
    BY <1>1, <1>22, <2>1 DEF Stored, Known, Written, OneTime, Present
<1>9. CASE External
  <2>1. PICK j \in Jobs \ Protected :
           \/ /\ used' = used \union {j}
              /\ disk' = [disk EXCEPT ![j] = Enabled(j, now)]
           \/ /\ used' = used
              /\ disk' = [disk EXCEPT ![j] = Absent]
    BY <1>9 DEF External
  <2>2. /\ mem' = mem /\ phase' = phase /\ dirty' = dirty
        /\ stale' = (phase # "down")
    BY <1>9 DEF External, bootVars
  <2>3. \A i \in Jobs : i # j => disk'[i] = disk[i]
    BY <1>1, <2>1 DEF Stores
  <2>4. disk'[j] = Enabled(j, now) \/ disk'[j] = Absent
    BY <1>1, <2>1 DEF Stores
  <2>5. disk'[j] = Absent => ~Present(disk', j)
    BY EntryFacts DEF Present
  <2>6. Known'
    <3> SUFFICES ASSUME NEW i \in Jobs, Present(mem', i) \/ Present(disk', i) PROVE i \in used'
      BY <1>1, <2>1 DEF Known
    <3>1. CASE i # j
      BY <1>1, <2>1, <2>2, <2>3, <3>1 DEF Known, Present
    <3>2. CASE i = j
      <4>1. CASE used' = used \union {j}
        BY <3>2, <4>1
      <4>2. CASE used' = used /\ disk' = [disk EXCEPT ![j] = Absent]
        <5>1. disk'[j] = Absent
          BY <1>1, <4>2 DEF Stores
        <5>2. Present(mem, j)
          BY <2>2, <2>5, <3>2, <5>1
        <5>3. QED
          BY <1>1, <3>2, <4>2, <5>2 DEF Known
      <4>3. QED
        BY <2>1, <4>1, <4>2
    <3>3. QED
      BY <3>1, <3>2
  <2>7. OneTime'
    BY <1>1, <2>2, <2>3, <2>4, EntryFacts DEF OneTime
  <2>8. QED
    BY <1>1, <2>2, <2>6, <2>7 DEF Stored, Written
<1>10. ASSUME NEW s \in Stores, mem' = s, disk' = disk, used' = used,
              \A j \in Jobs : Present(s, j) => j \in used,
              \A j \in OneShots : s[j].next \in {AtTime, NoRun},
              phase' # "down" /\ ~stale' /\ ~dirty' => s = disk
       PROVE  Stored'
  BY <1>1, <1>10 DEF Stored, Known, Written, OneTime
<1>11. phase # "down" /\ ~(dirty /\ ~stale) => Current = disk
  BY <1>1 DEF Current, Written
<1>12. CASE ListJobs
  <2>1. mem' = Current /\ stale /\ UNCHANGED <<disk, used, phase>>
    BY <1>12 DEF ListJobs, historyVars, bootVars
  <2>2. Current = disk
    BY <2>1 DEF Current
  <2>3. QED
    BY <1>1, <1>10, <2>1, <2>2
<1>13. ASSUME mem' = Current, UNCHANGED <<disk, used, phase>>, dirty' = (dirty /\ ~stale)
       PROVE  Stored'
  BY <1>1, <1>10, <1>11, <1>13
<1>23. CASE StartLoad
  BY <1>13, <1>23 DEF StartLoad, historyVars
<1>24. ASSUME NEW t \in Timers, Fire(t) PROVE Stored'
  BY <1>13, <1>24 DEF Fire, historyVars, bootVars
<1>14. ASSUME NEW t \in Timers, CallbackReturns(t) PROVE Stored'
  <2> DEFINE j == cur[t]
             s == AfterRun(Current, j)
  <2>1. j \in Jobs
    BY <1>14 DEF CallbackReturns, TypeOK
  <2>2. /\ mem' = s /\ UNCHANGED <<disk, used, phase>>
        /\ dirty' = (Present(Current, j) \/ (dirty /\ ~stale))
    BY <1>14 DEF CallbackReturns, JobDone, bootVars
  <2>3. /\ \A i \in Jobs : i # j => s[i] = Current[i]
        /\ s[j].status \in {Current[j].status, "absent"}
        /\ ~Present(Current, j) => s = Current
        /\ j \in OneShots => s[j].next \in {Current[j].next, NoRun}
    BY <1>1, <2>1, AfterRunFacts
  <2>4. s \in Stores
    <3>1. TypeOK'
      BY TypeStep
    <3>2. mem' \in Stores
      BY <3>1 DEF TypeOK
    <3>3. QED
      BY <2>2, <3>2
  <2> HIDE DEF s, j
  <2>5. \A i \in Jobs : Present(s, i) => i \in used
    BY <1>1, <2>1, <2>3 DEF Present
  <2>6. \A i \in OneShots : s[i].next \in {AtTime, NoRun}
    BY <1>1, <2>1, <2>3
  <2>7. phase # "down" /\ ~dirty' => s = disk
    BY <1>1, <1>11, <2>2, <2>3
  <2>8. QED
    BY <1>1, <1>10, <2>2, <2>4, <2>5, <2>6, <2>7
<1>15. ASSUME Save, UNCHANGED <<used, phase>> PROVE Stored'
  <2>1. mem' = mem /\ UNCHANGED <<used, phase>> /\ (Wrote \/ Unwritten \/ HalfWritten)
    BY <1>15, SaveEffect, Zenon
  <2>2. CASE Wrote
    BY <1>1, <2>1, <2>2 DEF Wrote, Stored, Known, Written, OneTime
  <2>3. CASE Unwritten
    BY <1>4, <1>15, <2>1, <2>3 DEF Unwritten
  <2>4. CASE HalfWritten
    BY <1>1, <1>22, <2>1, <2>4 DEF HalfWritten, Stored, Known, Written, OneTime, Present
  <2>5. QED
    BY <2>1, <2>2, <2>3, <2>4
<1>16. ASSUME NEW t \in Timers, TimerEnds(t) PROVE Stored'
  BY <1>15, <1>16 DEF TimerEnds, historyVars, bootVars
<1>17. ASSUME NEW c \in calls, SaveCall(c) PROVE Stored'
  BY <1>15, <1>17 DEF SaveCall, bootVars
<1>25. CASE StartSave
  BY <1>15, <1>25 DEF StartSave, historyVars
<1>18. ASSUME NEW j \in Jobs, AddJob(j) PROVE Stored'
  <2>1. /\ mem' = [Current EXCEPT ![j] = Enabled(j, now)] /\ dirty' = TRUE
        /\ disk' = disk /\ used' = used \union {j}
    BY <1>18 DEF AddJob, Call
  <2>2. /\ \A i \in Jobs : i # j => mem'[i] = Current[i]
        /\ mem'[j] = Enabled(j, now)
    BY <1>1, <2>1 DEF Stores
  <2>3. Known'
    BY <1>1, <2>1, <2>2 DEF Known, Present
  <2>4. OneTime'
    BY <1>1, <2>1, <2>2, EntryFacts DEF OneTime
  <2>5. QED
    BY <1>1, <2>1, <2>3, <2>4 DEF Stored, Written
<1>19. ASSUME NEW j \in Jobs, RemoveJob(j) PROVE Stored'
  <2>1. /\ mem' = [Current EXCEPT ![j] = Absent] /\ dirty' = TRUE
        /\ disk' = disk /\ used' = used
    BY <1>19 DEF RemoveJob, Call
  <2>2. /\ \A i \in Jobs : i # j => mem'[i] = Current[i]
        /\ mem'[j] = Absent /\ ~Present(mem', j)
    BY <1>1, <2>1, EntryFacts DEF Stores, Present
  <2>3. Known'
    BY <1>1, <2>1, <2>2 DEF Known, Present
  <2>4. OneTime'
    BY <1>1, <2>1, <2>2, EntryFacts DEF OneTime
  <2>5. QED
    BY <1>1, <2>1, <2>3, <2>4 DEF Stored, Written
<1>26. ASSUME NEW j \in Jobs, Register(j) PROVE Stored'
  <2>1. /\ mem' = [Current EXCEPT ![j] = Enabled(j, now)] /\ dirty' = TRUE
        /\ disk' = disk /\ used' = used /\ j \in toRegister
    BY <1>26 DEF Register, historyVars
  <2>2. /\ \A i \in Jobs : i # j => mem'[i] = Current[i]
        /\ mem'[j] = Enabled(j, now)
    BY <1>1, <2>1 DEF Stores
  <2>3. j \in used
    BY <1>1, <2>1 DEF TypeOK, Known
  <2>4. Known'
    BY <1>1, <2>1, <2>2, <2>3 DEF Known, Present
  <2>5. OneTime'
    BY <1>1, <2>1, <2>2, EntryFacts DEF OneTime
  <2>6. QED
    BY <1>1, <2>1, <2>4, <2>5 DEF Stored, Written
<1>20. CASE UNCHANGED vars
  BY <1>4, <1>20 DEF vars, historyVars, bootVars
<1>21. QED
  BY <1>2, <1>3, <1>5, <1>6, <1>7, <1>8, <1>9, <1>12, <1>14, <1>16, <1>17,
     <1>18, <1>19, <1>20, <1>23, <1>24, <1>25, <1>26
     DEF Next, Service, Operation, Starts

LEMMA AlwaysStored == Spec => [](TypeOK /\ Stored)
<1>1. Init => Stored
  <2> SUFFICES ASSUME Init PROVE Stored
    OBVIOUS
  <2>1. /\ mem = Empty /\ disk = Empty /\ phase = "down" /\ calls = {} /\ used = Protected
        /\ torn = FALSE /\ starting = "no" /\ toRegister = {}
    BY DEF Init
  <2>2. \A j \in Jobs : ~Present(Empty, j) /\ Empty[j].next = NoRun
    BY DEF Empty, Present, Absent
  <2>3. QED
    BY <2>1, <2>2, JobsAssumption DEF Stored, Known, Written, OneTime, TornEmpty, BootOrder
<1>2. TypeOK /\ Stored /\ [Next]_vars => Stored'
  BY StoredStep
<1>3. QED
  BY <1>1, <1>2, TypeCorrect, PTL DEF Spec

--------------------------------------------------------------------------------
(* Before the service starts there is no timer task. *)
Idle ==
    phase \in {"down", "registered"} =>
        \A t \in Timers : tstate[t] = "free" /\ todo[t] = {} /\ cur[t] = NoJob

LEMMA IdleStep == ASSUME TypeOK, Idle, [Next]_vars PROVE Idle'
<1>1. ASSUME UNCHANGED <<tstate, todo, cur>>,
             phase' \in {"down", "registered"} => phase \in {"down", "registered"}
      PROVE  Idle'
  BY <1>1 DEF Idle
<1>2. ASSUME phase' \in {"running", "stopped"} PROVE Idle'
  BY <1>2 DEF Idle
<1>3. CASE Boot
  BY <1>1, <1>3 DEF Boot, timerVars
<1>4. CASE Start \/ Stop
  BY <1>2, <1>4 DEF Start, Stop
<1>14. CASE Starts
  BY <1>1, <1>14 DEF Starts, StartLoad, StartRecompute, StartSave, timerVars
<1>5. CASE Kill
  BY <1>5 DEF Kill, Idle
<1>6. CASE External \/ Tick \/ ListJobs
  BY <1>1, <1>6 DEF External, Tick, ListJobs, timerVars, bootVars
<1>7. CASE Arm
  <2>1. CASE phase \in {"running", "stopped"}
    BY <1>2, <1>7, <2>1 DEF Arm, bootVars
  <2>2. CASE phase \in {"down", "registered"}
    <3>1. tstate' = Aborted /\ AbortHandle
      BY <1>7, <2>2 DEF Arm, Running
    <3>2. QED
      BY <2>2, <3>1 DEF Idle, Aborted, AbortHandle
  <2>3. QED
    BY <2>1, <2>2 DEF TypeOK, Phases
<1>8. ASSUME NEW t \in Timers, StoreHandle(t) \/ Fire(t) \/ CallbackReturns(t) \/ TimerEnds(t)
      PROVE  Idle'
  <2>1. CASE phase \in {"down", "registered"}
    <3>1. StoreHandle(t)
      BY <1>8, <2>1 DEF Idle, Fire, CallbackReturns, TimerEnds
    <3>2. UNCHANGED <<tstate, todo, cur>>
      BY <2>1, <3>1 DEF StoreHandle, Idle
    <3>3. QED
      BY <2>1, <3>2 DEF Idle
  <2>2. CASE phase \in {"running", "stopped"}
    BY <1>2, <1>8, <2>2 DEF StoreHandle, Fire, CallbackReturns, TimerEnds, bootVars
  <2>3. QED
    BY <2>1, <2>2 DEF TypeOK, Phases
<1>9. ASSUME NEW t \in Timers, NEW j \in Jobs, Execute(t, j) PROVE Idle'
  BY <1>9 DEF Execute, Idle, bootVars
<1>10. ASSUME NEW j \in Jobs, Operation(j) PROVE Idle'
  BY <1>1, <1>10 DEF Operation, Register, AddJob, RemoveJob, Call, timerVars, bootVars
<1>11. ASSUME NEW c \in calls, SaveCall(c) PROVE Idle'
  BY <1>1, <1>11 DEF SaveCall, timerVars, bootVars
<1>12. CASE UNCHANGED vars
  BY <1>1, <1>12 DEF vars, timerVars, bootVars
<1>13. QED
  BY <1>3, <1>4, <1>14, <1>5, <1>6, <1>7, <1>8, <1>9, <1>10, <1>11, <1>12
     DEF Next, Service, Operation

LEMMA AlwaysIdle == Spec => []Idle
<1>1. Init => Idle
  BY DEF Init, Idle
<1>2. TypeOK /\ Idle /\ [Next]_vars => Idle'
  BY IdleStep
<1>3. QED
  BY <1>1, <1>2, TypeCorrect, PTL DEF Spec

--------------------------------------------------------------------------------
(* The promises of the store on disk. *)

(* A removal under way has left memory, and the disk too if nothing else is to
   be written: no reload can bring the job back unnoticed. *)
RemovalsHold ==
    \A j \in Jobs : <<"remove", j>> \in calls =>
        /\ ~Present(mem, j) /\ (dirty \/ ~Present(disk, j))
        /\ j \in used \ Protected

(* A job that was added is on disk, unless a save failed, and what the next save
   would write has it too. *)
KeptHold ==
    \A j \in kept : /\ behind \/ Present(disk, j)
                    /\ phase # "down" /\ (stale => torn) => Present(mem, j)

(* A job that was removed is nowhere, but for the disk if a save failed, and
   nobody can give its identifier out again. *)
GoneHold ==
    \A j \in gone : /\ behind \/ ~Present(disk, j)
                    /\ ~Present(mem, j) /\ j \in used \ Protected

(* What a failed save did not write is still there for the next one, and only a
   failed save tears the file. *)
BehindHold == (behind => dirty /\ phase # "down") /\ (torn => behind /\ stale)

AllHold == RemovalsHold /\ KeptHold /\ GoneHold /\ BehindHold

AckInv == ~clobbered => AllHold

(* What an operation finds when it looks at the store, unless it drops a change
   that no save has written. *)
LEMMA CurrentHolds ==
    ASSUME AllHold, ~(stale /\ dirty)
    PROVE  /\ ~torn /\ (stale => ~behind)
           /\ \A j \in Jobs : <<"remove", j>> \in calls => ~Present(Current, j)
           /\ phase # "down" => \A j \in kept : Present(Current, j)
           /\ \A j \in gone : ~Present(Current, j)
<1>1. ~torn /\ (stale => ~behind)
  BY DEF AllHold, BehindHold
<1>2. QED
  BY <1>1 DEF AllHold, RemovalsHold, KeptHold, GoneHold, Current

LEMMA AckStep == ASSUME TypeOK, Stored, Idle, AckInv, [Next]_vars PROVE AckInv'
<1> SUFFICES ASSUME ~clobbered' PROVE AllHold'
  BY DEF AckInv
<1>1. /\ mem \in Stores /\ disk \in Stores /\ Current \in Stores
      /\ now \in Nat /\ Protected \subseteq Jobs
      /\ Known /\ Written /\ OneTime /\ TornEmpty /\ BootOrder
      /\ kept \subseteq Jobs /\ gone \subseteq Jobs /\ calls \subseteq Ops \X Jobs
      /\ \A j \in Jobs : Present(Current, j) => j \in used
      /\ torn \in BOOLEAN /\ stale \in BOOLEAN /\ dirty \in BOOLEAN /\ behind \in BOOLEAN
  BY CurrentStore, JobsAssumption DEF Stored, TypeOK
<1>2. ASSUME ~clobbered PROVE AllHold
  BY <1>2 DEF AckInv
<1>21. \A j \in Jobs : ~Present(Empty, j)
  BY DEF Empty, Present, Absent
<1>3. ASSUME Reload
      PROVE  /\ ~clobbered /\ ~(stale /\ dirty) /\ stale' = FALSE
             /\ AllHold /\ ~torn /\ (stale => ~behind)
             /\ \A j \in Jobs : <<"remove", j>> \in calls => ~Present(Current, j)
             /\ phase # "down" => \A j \in kept : Present(Current, j)
             /\ \A j \in gone : ~Present(Current, j)
  <2>1. ~clobbered /\ ~(stale /\ dirty)
    BY <1>3, Zenon DEF Reload
  <2>2. AllHold
    BY <1>2, <2>1
  <2>3. ~torn
    BY <2>1, <2>2, CurrentHolds
  <2>4. stale' = FALSE
    <3>1. stale' = (stale /\ torn)
      BY <1>3 DEF Reload
    <3>2. QED
      BY <1>1, <2>3, <3>1
  <2>5. QED
    BY <2>1, <2>2, <2>4, CurrentHolds
<1>4. ASSUME UNCHANGED <<mem, disk, torn, calls, stale, dirty, behind, clobbered, used, kept, gone>>,
             phase' = "down" <=> phase = "down"
      PROVE  AllHold'
  BY <1>2, <1>4 DEF AllHold, RemovalsHold, KeptHold, GoneHold, BehindHold, Present
<1>5. CASE Boot
  <2>1. /\ mem' = disk /\ stale' = torn /\ phase = "down" /\ calls = {} /\ calls' = {}
        /\ UNCHANGED <<disk, torn, dirty, behind, clobbered, used, kept, gone>>
    BY <1>1, <1>5 DEF Boot, historyVars, BootOrder
  <2>2. AllHold
    BY <1>2, <2>1
  <2>3. ~behind /\ ~torn
    BY <2>1, <2>2 DEF AllHold, BehindHold
  <2>4. QED
    BY <1>1, <2>1, <2>2, <2>3 DEF AllHold, RemovalsHold, KeptHold, GoneHold, BehindHold
<1>6. CASE StartRecompute
  <2>1. /\ mem' = [j \in Jobs |-> IF Current[j].status = "enabled" THEN Enabled(j, now) ELSE Current[j]]
        /\ phase # "down" /\ phase' # "down" /\ Reload /\ dirty' = TRUE
        /\ UNCHANGED <<disk, torn, behind, calls, used, kept, gone>>
    BY <1>1, <1>6 DEF StartRecompute, Recomputed, historyVars, BootOrder
  <2>2. \A j \in Jobs : Present(mem', j) <=> Present(Current, j)
    BY <1>1, <2>1, EntryFacts DEF Present
  <2>3. QED
    BY <1>1, <1>3, <2>1, <2>2 DEF AllHold, RemovalsHold, KeptHold, GoneHold, BehindHold
<1>22. ASSUME mem' = Current, Reload, dirty' = (dirty /\ ~stale), phase # "down",
              UNCHANGED <<disk, torn, behind, calls, phase, used, kept, gone>>
       PROVE  AllHold'
  <2>1. \A j \in Jobs : <<"remove", j>> \in calls => dirty' \/ ~Present(disk, j)
    BY <1>3, <1>22 DEF AllHold, RemovalsHold, Current
  <2>2. behind => dirty'
    BY <1>3, <1>22 DEF AllHold, BehindHold
  <2>3. RemovalsHold'
    BY <1>3, <1>22, <2>1 DEF AllHold, RemovalsHold
  <2>4. KeptHold' /\ GoneHold'
    BY <1>1, <1>3, <1>22 DEF AllHold, KeptHold, GoneHold
  <2>5. BehindHold'
    BY <1>3, <1>22, <2>2 DEF BehindHold
  <2>6. QED
    BY <2>3, <2>4, <2>5 DEF AllHold
<1>23. CASE StartLoad
  BY <1>1, <1>22, <1>23 DEF StartLoad, BootOrder, historyVars
<1>24. CASE Start
  BY <1>4, <1>24 DEF Start, historyVars
<1>7. CASE Stop
  BY <1>4, <1>7 DEF Stop, Running
<1>8. CASE Tick \/ Arm
  BY <1>4, <1>8 DEF Tick, Arm, historyVars, bootVars
<1>9. ASSUME NEW t \in Timers, StoreHandle(t) \/ \E j \in Jobs : Execute(t, j)
      PROVE  AllHold'
  BY <1>4, <1>9 DEF StoreHandle, Execute, historyVars, bootVars
<1>10. CASE Kill
  <2>1. /\ mem' = Empty /\ phase' = "down" /\ calls' = {} /\ behind' = FALSE
        /\ UNCHANGED <<used, kept, gone, disk, torn>> /\ clobbered' = (clobbered \/ behind)
    BY <1>10 DEF Kill, historyVars
  <2>2. ~clobbered /\ ~behind
    BY <2>1
  <2>3. AllHold
    BY <1>2, <2>2
  <2>4. ~torn
    BY <2>2, <2>3 DEF AllHold, BehindHold
  <2>5. QED
    BY <1>1, <1>21, <2>1, <2>2, <2>3, <2>4
       DEF AllHold, RemovalsHold, KeptHold, GoneHold, BehindHold
<1>11. CASE External
  <2>1. PICK j \in Jobs \ Protected :
           \/ /\ j \notin used
              /\ used' = used \union {j}
              /\ disk' = [disk EXCEPT ![j] = Enabled(j, now)]
              /\ kept' = kept
           \/ /\ used' = used
              /\ disk' = [disk EXCEPT ![j] = Absent]
              /\ kept' = kept \ {j}
    BY <1>11 DEF External
  <2>2. /\ UNCHANGED <<mem, calls, phase, dirty, behind, clobbered, gone>>
        /\ stale' = (phase # "down") /\ torn' = FALSE
    BY <1>11 DEF External, bootVars
  <2>3. RemovalsHold /\ KeptHold /\ GoneHold /\ BehindHold
    BY <1>2, <2>2 DEF AllHold
  <2>4. \A i \in Jobs : i # j => (Present(disk', i) <=> Present(disk, i))
    BY <1>1, <2>1 DEF Stores, Present
  <2>5. CASE j \notin used /\ used' = used \union {j} /\ kept' = kept
             /\ disk' = [disk EXCEPT ![j] = Enabled(j, now)]
    <3>1. Present(disk', j)
      BY <1>1, <2>5, EntryFacts DEF Stores, Present
    <3>2. QED
      BY <1>1, <2>2, <2>3, <2>4, <2>5, <3>1
         DEF AllHold, RemovalsHold, KeptHold, GoneHold, BehindHold
  <2>6. CASE used' = used /\ kept' = kept \ {j} /\ disk' = [disk EXCEPT ![j] = Absent]
    <3>1. ~Present(disk', j)
      BY <1>1, <2>6, EntryFacts DEF Stores, Present
    <3>2. QED
      BY <1>1, <2>2, <2>3, <2>4, <2>6, <3>1
         DEF AllHold, RemovalsHold, KeptHold, GoneHold, BehindHold
  <2>7. QED
    BY <2>1, <2>5, <2>6
<1>12. CASE ListJobs
  <2>1. /\ mem' = Current /\ stale /\ dirty' = FALSE /\ Reload /\ phase # "down"
        /\ UNCHANGED <<disk, torn, behind, calls, phase, used, kept, gone>>
    BY <1>12 DEF ListJobs, historyVars, bootVars
  <2>2. dirty' = (dirty /\ ~stale)
    BY <1>1, <2>1
  <2>3. QED
    BY <1>22, <2>1, <2>2
<1>13. ASSUME NEW t \in Timers, Fire(t) PROVE AllHold'
  <2>1. /\ mem' = Current /\ dirty' = (dirty /\ ~stale) /\ Reload
        /\ UNCHANGED <<disk, torn, behind, calls, phase, used, kept, gone>>
    BY <1>13 DEF Fire, historyVars, bootVars
  <2>2. phase # "down"
    BY <1>13 DEF Fire, Idle
  <2>3. QED
    BY <1>22, <2>1, <2>2
<1>14. ASSUME NEW t \in Timers, CallbackReturns(t) PROVE AllHold'
  <2> DEFINE j == cur[t]
             s == AfterRun(Current, j)
  <2>1. j \in Jobs
    BY <1>14 DEF CallbackReturns, TypeOK
  <2>2. /\ mem' = s /\ Reload
        /\ dirty' = (Present(Current, j) \/ (dirty /\ ~stale))
        /\ kept' = IF j \in OneShots THEN kept \ {j} ELSE kept
        /\ UNCHANGED <<disk, torn, behind, calls, phase, used, gone>>
    BY <1>14 DEF CallbackReturns, JobDone, bootVars
  <2>8. phase # "down"
    BY <1>14 DEF CallbackReturns, Idle
  <2>3. /\ \A i \in Jobs : i # j => s[i] = Current[i]
        /\ s[j].status \in {Current[j].status, "absent"}
        /\ j \notin OneShots => s[j].status = Current[j].status
        /\ ~Present(Current, j) => s = Current
    BY <1>1, <2>1, AfterRunFacts
  <2> HIDE DEF s, j
  <2>4. \A i \in Jobs : Present(s, i) => Present(Current, i)
    BY <2>1, <2>3 DEF Present
  <2>5. \A i \in kept' : Present(Current, i) => Present(s, i)
    BY <1>1, <2>1, <2>2, <2>3 DEF Present
  <2>6. kept' \subseteq kept
    BY <2>2
  <2>15. Reload
    BY <1>14 DEF CallbackReturns, JobDone
  <2>7. AllHold /\ ~torn /\ (stale => ~behind) /\ ~(stale /\ dirty)
    BY <1>3, <2>15
  <2>9. \A i \in Jobs : <<"remove", i>> \in calls => dirty' \/ ~Present(disk, i)
    BY <2>2, <2>7 DEF AllHold, RemovalsHold
  <2>10. behind => dirty'
    BY <2>2, <2>7 DEF AllHold, BehindHold
  <2>11. RemovalsHold'
    BY <1>3, <2>2, <2>4, <2>7, <2>9 DEF AllHold, RemovalsHold
  <2>12. KeptHold' /\ GoneHold'
    BY <1>1, <1>3, <2>2, <2>4, <2>5, <2>6, <2>7, <2>8 DEF AllHold, KeptHold, GoneHold
  <2>13. BehindHold'
    BY <1>3, <2>2, <2>7, <2>8, <2>10 DEF BehindHold
  <2>14. QED
    BY <2>11, <2>12, <2>13 DEF AllHold
<1>15. ASSUME Save, phase # "down",
              UNCHANGED <<phase, used>>, calls' \subseteq calls, kept' \subseteq Jobs,
              \A j \in kept' : j \in kept \/ StillThere(j),
              \A j \in gone' : j \in gone \/ (j \in Jobs /\ <<"remove", j>> \in calls)
       PROVE  AllHold'
  <2>1. mem' = mem /\ ~clobbered /\ (Wrote \/ Unwritten \/ HalfWritten)
    BY <1>15, SaveEffect, Zenon
  <2>2. RemovalsHold /\ KeptHold /\ GoneHold /\ BehindHold
    BY <1>2, <2>1 DEF AllHold
  <2>3. \A j \in gone' : ~Present(mem, j) /\ j \in used \ Protected
    BY <1>15, <2>2 DEF RemovalsHold, GoneHold
  <2>4. \A j \in kept' : (stale => torn) => Present(mem, j)
    BY <1>15, <2>2 DEF KeptHold, StillThere
  <2>5. CASE Wrote
    BY <1>15, <2>1, <2>2, <2>3, <2>4, <2>5
       DEF Wrote, AllHold, RemovalsHold, KeptHold, GoneHold, BehindHold
  <2>6. CASE Unwritten
    <3>1. ASSUME ~dirty, ~behind PROVE ~torn /\ (~stale => mem = disk)
      BY <1>1, <1>15, <2>2, <3>1 DEF BehindHold, Written
    <3>2. \A j \in kept' : behind' \/ Present(disk, j)
      BY <1>1, <1>15, <2>2, <2>6, <3>1 DEF Unwritten, KeptHold, StillThere
    <3>3. \A j \in gone' : behind' \/ ~Present(disk, j)
      BY <1>1, <1>15, <2>2, <2>6 DEF Unwritten, GoneHold, RemovalsHold
    <3>4. BehindHold'
      BY <1>1, <1>15, <2>2, <2>6 DEF Unwritten, BehindHold
    <3>5. RemovalsHold'
      BY <1>15, <2>1, <2>2, <2>6 DEF Unwritten, RemovalsHold
    <3>6. KeptHold' /\ GoneHold'
      BY <1>15, <2>1, <2>3, <2>4, <2>6, <3>2, <3>3 DEF Unwritten, KeptHold, GoneHold
    <3>7. QED
      BY <3>4, <3>5, <3>6 DEF AllHold
  <2>7. CASE HalfWritten
    BY <1>15, <1>21, <2>1, <2>2, <2>3, <2>4, <2>7
       DEF HalfWritten, AllHold, RemovalsHold, KeptHold, GoneHold, BehindHold
  <2>8. QED
    BY <2>1, <2>5, <2>6, <2>7
<1>25. ASSUME Save, phase # "down", UNCHANGED <<phase, used, calls, kept, gone>>
       PROVE  AllHold'
  BY <1>1, <1>15, <1>25
<1>26. CASE StartSave
  BY <1>1, <1>25, <1>26 DEF StartSave, BootOrder, historyVars
<1>27. ASSUME NEW t \in Timers, TimerEnds(t) PROVE AllHold'
  BY <1>25, <1>27 DEF TimerEnds, Idle, historyVars, bootVars
<1>16. ASSUME NEW c \in calls, SaveCall(c) PROVE AllHold'
  <2>1. /\ Save /\ UNCHANGED <<phase, used>> /\ calls' = calls \ {c}
        /\ kept' = IF c[1] = "add" /\ StillThere(c[2]) THEN kept \union {c[2]} ELSE kept
        /\ gone' = IF c[1] = "remove" THEN gone \union {c[2]} ELSE gone
    BY <1>16 DEF SaveCall, bootVars
  <2>2. phase # "down" /\ c[2] \in Jobs /\ c = <<c[1], c[2]>>
    BY <1>1, <1>16 DEF BootOrder
  <2>3. \A j \in kept' : j \in kept \/ StillThere(j)
    BY <2>1
  <2>4. \A j \in gone' : j \in gone \/ (j \in Jobs /\ <<"remove", j>> \in calls)
    BY <1>16, <2>1, <2>2
  <2>5. kept' \subseteq Jobs
    BY <1>1, <2>1, <2>2
  <2>6. QED
    BY <1>15, <2>1, <2>2, <2>3, <2>4, <2>5
<1>17. ASSUME NEW j \in Jobs, AddJob(j) PROVE AllHold'
  <2>1. /\ mem' = [Current EXCEPT ![j] = Enabled(j, now)] /\ dirty' = TRUE
        /\ j \notin used /\ used' = used \union {j} /\ Reload
        /\ calls' = calls \union {<<"add", j>>} /\ phase = "running"
        /\ UNCHANGED <<disk, torn, behind, phase, kept, gone>>
    BY <1>17 DEF AddJob, Call, Running, bootVars
  <2>2. /\ \A i \in Jobs : i # j => (Present(mem', i) <=> Present(Current, i))
        /\ Present(mem', j)
    BY <1>1, <2>1, EntryFacts DEF Stores, Present
  <2>3. \A i \in Jobs : <<"remove", i>> \in calls' => <<"remove", i>> \in calls
    BY <2>1
  <2>4. QED
    BY <1>1, <1>3, <2>1, <2>2, <2>3 DEF AllHold, RemovalsHold, KeptHold, GoneHold, BehindHold
<1>18. ASSUME NEW j \in Jobs, RemoveJob(j) PROVE AllHold'
  <2>1. /\ mem' = [Current EXCEPT ![j] = Absent] /\ dirty' = TRUE
        /\ Present(Current, j) /\ j \notin Protected /\ kept' = kept \ {j} /\ Reload
        /\ calls' = calls \union {<<"remove", j>>} /\ phase = "running"
        /\ UNCHANGED <<disk, torn, behind, phase, used, gone>>
    BY <1>18 DEF RemoveJob, Call, Running, bootVars
  <2>2. /\ \A i \in Jobs : i # j => (Present(mem', i) <=> Present(Current, i))
        /\ ~Present(mem', j)
    BY <1>1, <2>1, EntryFacts DEF Stores, Present
  <2>3. \A i \in Jobs : <<"remove", i>> \in calls' => <<"remove", i>> \in calls \/ i = j
    BY <2>1
  <2>4. QED
    BY <1>1, <1>3, <2>1, <2>2, <2>3 DEF AllHold, RemovalsHold, KeptHold, GoneHold, BehindHold
<1>28. ASSUME NEW j \in Jobs, Register(j) PROVE AllHold'
  <2>1. /\ mem' = [Current EXCEPT ![j] = Enabled(j, now)] /\ dirty' = TRUE
        /\ j \in Protected /\ Reload /\ phase # "down"
        /\ calls' = {<<"register", j>>}
        /\ UNCHANGED <<disk, torn, behind, phase, used, kept, gone>>
    BY <1>1, <1>28 DEF Register, TypeOK, BootOrder, historyVars
  <2>2. /\ \A i \in Jobs : i # j => (Present(mem', i) <=> Present(Current, i))
        /\ Present(mem', j)
    BY <1>1, <2>1, EntryFacts DEF Stores, Present
  <2>3. \A i \in Jobs : <<"remove", i>> \notin calls'
    BY <2>1
  <2>4. QED
    BY <1>1, <1>3, <2>1, <2>2, <2>3 DEF AllHold, RemovalsHold, KeptHold, GoneHold, BehindHold
<1>19. CASE UNCHANGED vars
  BY <1>4, <1>19 DEF vars, historyVars, bootVars
<1>20. QED
  BY <1>5, <1>6, <1>7, <1>8, <1>9, <1>10, <1>11, <1>12, <1>13, <1>14, <1>16,
     <1>17, <1>18, <1>19, <1>23, <1>24, <1>26, <1>27, <1>28
     DEF Next, Service, Operation, Starts

(* The job store keeps its promises over saves that fail.  A job whose add
   returned is in jobs.json until it is removed or has run, and a job whose
   removal returned is not, however operations, saves, timers, restarts and
   kills overlap.  After a save that failed memory still has both right, and
   the next save that succeeds writes them.  What breaks a promise is a write of
   another process that crosses one of this process, a kill in the middle of a
   write or before a failed one is made up for, and a reload of a torn file. *)
THEOREM StoreKeepsItsWord == Spec => []AckedIsDurable
<1>1. Init => AckInv
  BY DEF Init, AckInv, AllHold, RemovalsHold, KeptHold, GoneHold, BehindHold
<1>2. TypeOK /\ Stored /\ Idle /\ AckInv /\ [Next]_vars => AckInv'
  BY AckStep
<1>3. AckInv => AckedIsDurable
  BY DEF AckInv, AllHold, KeptHold, GoneHold, AckedIsDurable
<1>4. QED
  BY <1>1, <1>2, <1>3, AlwaysStored, AlwaysIdle, PTL DEF Spec

--------------------------------------------------------------------------------
(* How many timers there are. *)

Alive == {t \in Timers : tstate[t] \in {"sleeping", "firing"}}

(* Every timer beside the first was spawned while another one was alive. *)
AliveBound == IsFiniteSet(Alive) /\ Cardinality(Alive) <= 1 + surplus

LEMMA AliveStep == ASSUME TypeOK, AliveBound, [Next]_vars PROVE AliveBound'
<1>0. IsFiniteSet(Alive) /\ Cardinality(Alive) <= 1 + surplus /\ surplus \in Nat
  BY DEF AliveBound, TypeOK
<1>1. ASSUME Alive' \subseteq Alive, surplus' = surplus PROVE AliveBound'
  <2>1. IsFiniteSet(Alive') /\ Cardinality(Alive') <= Cardinality(Alive)
    BY <1>0, <1>1, FS_Subset
  <2>2. Cardinality(Alive') \in Nat /\ Cardinality(Alive) \in Nat
    BY <1>0, <2>1, FS_CardinalityType
  <2>3. QED
    BY <1>0, <1>1, <2>1, <2>2 DEF AliveBound
<1>2. CASE UNCHANGED <<tstate, surplus>>
  BY <1>1, <1>2 DEF Alive
<1>3. CASE Boot \/ Start \/ Starts \/ External \/ Tick \/ ListJobs
  BY <1>2, <1>3 DEF Boot, Start, Starts, StartLoad, StartRecompute, StartSave, External,
                    Tick, ListJobs, timerVars, historyVars
<1>4. CASE Stop
  BY <1>1, <1>4 DEF Stop, Aborted, Alive
<1>5. CASE Kill
  BY <1>1, <1>5 DEF Kill, Alive, historyVars
<1>6. CASE Arm
  <2>1. ASSUME NEW t \in Timers, Aborted[t] = "free",
               tstate' = [Aborted EXCEPT ![t] = "sleeping"],
               surplus' = IF \E u \in Timers : Aborted[u] \in {"sleeping", "firing"}
                          THEN surplus + 1 ELSE surplus
        PROVE  AliveBound'
    <3> DEFINE Left == {u \in Timers : Aborted[u] \in {"sleeping", "firing"}}
    <3>1. Left \subseteq Alive
      BY DEF Alive, Aborted
    <3>2. IsFiniteSet(Left) /\ Cardinality(Left) <= Cardinality(Alive)
      BY <1>0, <3>1, FS_Subset
    <3>3. t \notin Left
      BY <2>1
    <3>4. Alive' = Left \union {t}
      BY <2>1, <1>6, AbortType DEF Alive, Arm
    <3>5. IsFiniteSet(Alive') /\ Cardinality(Alive') = Cardinality(Left) + 1
      BY <3>2, <3>3, <3>4, FS_AddElement
    <3>6. Cardinality(Left) \in Nat /\ Cardinality(Alive) \in Nat
      BY <1>0, <3>2, FS_CardinalityType
    <3>7. CASE Left = {}
      <4>1. Cardinality(Left) = 0 /\ surplus' = surplus
        BY <2>1, <3>7, FS_EmptySet
      <4>2. QED
        BY <1>0, <3>5, <4>1 DEF AliveBound
    <3>8. CASE Left # {}
      <4>1. surplus' = surplus + 1
        BY <2>1, <3>8
      <4>2. QED
        BY <1>0, <3>2, <3>5, <3>6, <4>1 DEF AliveBound
    <3>9. QED
      BY <3>7, <3>8
  <2>2. CASE Running /\ \E j \in Jobs : Scheduled(mem, j)
    BY <1>6, <2>1, <2>2 DEF Arm
  <2>3. CASE ~(Running /\ \E j \in Jobs : Scheduled(mem, j))
    BY <1>1, <1>6, <2>3 DEF Arm, Aborted, Alive
  <2>4. QED
    BY <2>2, <2>3
<1>7. ASSUME NEW t \in Timers, StoreHandle(t) PROVE AliveBound'
  BY <1>1, <1>7 DEF StoreHandle, Alive, TypeOK, historyVars
<1>8. ASSUME NEW t \in Timers, Fire(t) PROVE AliveBound'
  BY <1>1, <1>8 DEF Fire, Alive, TypeOK, historyVars
<1>9. ASSUME NEW t \in Timers, CallbackReturns(t) PROVE AliveBound'
  BY <1>2, <1>9 DEF CallbackReturns
<1>10. ASSUME NEW t \in Timers, TimerEnds(t) PROVE AliveBound'
  BY <1>1, <1>10 DEF TimerEnds, Ended, Alive, TypeOK, historyVars
<1>11. ASSUME NEW t \in Timers, NEW j \in Jobs, Execute(t, j) PROVE AliveBound'
  BY <1>2, <1>11 DEF Execute
<1>12. ASSUME NEW j \in Jobs, Operation(j) PROVE AliveBound'
  BY <1>2, <1>12 DEF Operation, Register, AddJob, RemoveJob, Call, timerVars, historyVars
<1>13. ASSUME NEW c \in calls, SaveCall(c) PROVE AliveBound'
  BY <1>2, <1>13 DEF SaveCall, timerVars
<1>14. CASE UNCHANGED vars
  BY <1>2, <1>14 DEF vars, timerVars, historyVars
<1>15. QED
  BY <1>3, <1>4, <1>5, <1>6, <1>7, <1>8, <1>9, <1>10, <1>11, <1>12, <1>13, <1>14
     DEF Next, Service

LEMMA AlwaysAlive == Spec => [](AliveBound /\ CurFiring)
<1>1. Init => AliveBound /\ CurFiring
  <2> SUFFICES ASSUME Init PROVE AliveBound /\ CurFiring
    OBVIOUS
  <2>1. Alive = {} /\ surplus = 0
    BY DEF Init, Alive
  <2>2. CurFiring
    BY DEF Init, CurFiring
  <2>3. QED
    BY <2>1, <2>2, FS_EmptySet DEF AliveBound
<1>2. TypeOK /\ AliveBound /\ CurFiring /\ [Next]_vars => AliveBound' /\ CurFiring'
  BY AliveStep, CurFiringStep
<1>3. QED
  BY <1>1, <1>2, TypeCorrect, PTL DEF Spec

--------------------------------------------------------------------------------
(* One-shot jobs. *)

(* A timer runs a one-shot job after its time only. *)
Overdue ==
    \A j \in OneShots : \A t \in Timers :
        j \in todo[t] \/ cur[t] = j => AtTime <= now /\ j \in used

LEMMA OverdueStep == ASSUME TypeOK, Stored, Overdue, [Next]_vars PROVE Overdue'
<1>0. /\ TypeOK' /\ OneShots \subseteq Jobs /\ NoJob \notin OneShots
      /\ now \in Nat /\ now' \in Nat /\ AtTime \in Nat
  BY TypeStep, JobsAssumption, TimesAssumption DEF TypeOK
<1>1. now <= now' /\ used \subseteq used'
  <2>1. now' = now \/ now' = now + 1
    BY DEF Next, vars, Service, Operation, Boot, Start, Starts, StartLoad, StartRecompute,
           StartSave, Stop, Kill, External, Tick, Arm, ListJobs, StoreHandle, Fire,
           CallbackReturns, TimerEnds, Execute, Register, AddJob, RemoveJob, Call, SaveCall
  <2>2. used \subseteq used'
    BY DEF Next, vars, Service, Operation, Boot, Start, Starts, StartLoad, StartRecompute,
           StartSave, Stop, Kill, External, Tick, Arm, ListJobs, StoreHandle, Fire,
           CallbackReturns, TimerEnds, Execute, Register, AddJob, RemoveJob, Call, SaveCall,
           historyVars
  <2>3. QED
    BY <1>0, <2>1, <2>2
<1>2. ASSUME \A j \in OneShots : \A t \in Timers :
                 j \in todo'[t] \/ cur'[t] = j => j \in todo[t] \/ cur[t] = j
      PROVE  Overdue'
  BY <1>0, <1>1, <1>2 DEF Overdue
<1>3. CASE Boot \/ Start \/ Starts \/ External \/ Tick \/ ListJobs
  BY <1>2, <1>3 DEF Boot, Start, Starts, StartLoad, StartRecompute, StartSave, External,
                    Tick, ListJobs, timerVars
<1>4. CASE Stop \/ Arm
  <2>1. AbortHandle
    BY <1>4 DEF Stop, Arm
  <2>2. QED
    BY <1>0, <1>2, <2>1 DEF AbortHandle
<1>5. CASE Kill
  BY <1>0, <1>2, <1>5 DEF Kill
<1>6. ASSUME NEW t \in Timers, StoreHandle(t) \/ TimerEnds(t) PROVE Overdue'
  BY <1>2, <1>6 DEF StoreHandle, TimerEnds
<1>7. ASSUME NEW t \in Timers, CallbackReturns(t) PROVE Overdue'
  BY <1>0, <1>2, <1>7 DEF CallbackReturns, TypeOK
<1>8. ASSUME NEW t \in Timers, NEW i \in Jobs, Execute(t, i) PROVE Overdue'
  <2>1. todo' = [todo EXCEPT ![t] = @ \ {i}]
    BY <1>8 DEF Execute
  <2>2. i \in todo[t] /\ (cur' = cur \/ cur' = [cur EXCEPT ![t] = i])
    BY <1>8 DEF Execute
  <2>3. QED
    BY <1>0, <1>2, <2>1, <2>2 DEF TypeOK
<1>9. ASSUME NEW t \in Timers, Fire(t) PROVE Overdue'
  <2> SUFFICES ASSUME NEW j \in OneShots, NEW u \in Timers, j \in todo'[u] \/ cur'[u] = j
               PROVE  AtTime <= now' /\ j \in used'
    BY DEF Overdue
  <2>1. todo' = [todo EXCEPT ![t] = {i \in Jobs : Due(Current, i)}] /\ cur' = cur
    BY <1>9 DEF Fire
  <2>2. CASE j \in todo[u] \/ cur[u] = j
    BY <1>0, <1>1, <2>2 DEF Overdue
  <2>3. CASE Due(Current, j)
    <3>1. Present(Current, j) /\ Current[j].next # NoRun /\ Current[j].next <= now
      BY <2>3 DEF Due, Scheduled, Present
    <3>2. j \in used /\ Current[j].next \in {AtTime, NoRun}
      BY <1>0, <3>1, CurrentStore DEF Stored
    <3>3. QED
      BY <1>0, <1>1, <3>1, <3>2
  <2>4. QED
    BY <2>1, <2>2, <2>3 DEF TypeOK
<1>10. ASSUME NEW j \in Jobs, Operation(j) PROVE Overdue'
  BY <1>2, <1>10 DEF Operation, Register, AddJob, RemoveJob, Call, timerVars
<1>11. ASSUME NEW c \in calls, SaveCall(c) PROVE Overdue'
  BY <1>2, <1>11 DEF SaveCall, timerVars
<1>12. CASE UNCHANGED vars
  BY <1>2, <1>12 DEF vars, timerVars
<1>13. QED
  BY <1>3, <1>4, <1>5, <1>6, <1>7, <1>8, <1>9, <1>10, <1>11, <1>12
     DEF Next, Service

LEMMA AlwaysOverdue == Spec => []Overdue
<1>1. Init => Overdue
  BY JobsAssumption DEF Init, Overdue
<1>2. TypeOK /\ Stored /\ Overdue /\ [Next]_vars => Overdue'
  BY OverdueStep
<1>3. QED
  BY <1>1, <1>2, AlwaysStored, PTL DEF Spec

(* A one-shot job that left the store, and one that lost its run, do not come
   back: neither memory nor, if it may be read again, the disk has them. *)
Dropped(j) == ~Present(mem, j) /\ (dirty \/ ~Present(disk, j))
Missed(j) == ~Scheduled(mem, j) /\ (dirty \/ ~Scheduled(disk, j))

(* The start that is to come, or under way, will find an overdue job. *)
Unstarted == phase \in {"down", "registered"} \/ Recomputing

(* The timers that have collected job j and have still to run it. *)
Owed(j) == {t \in Timers : j \in todo[t]}

Bound == 1 + surplus + early
Debt(j) == ran[j] + Cardinality(Owed(j))

(* The one-shot job j has left the store, or nothing but the timers that have
   collected it will run it again. *)
Settled(j) ==
    /\ AtTime <= now /\ j \in used
    /\ \/ phase # "down" /\ Dropped(j)
       \/ (Unstarted \/ Missed(j)) /\ Debt(j) <= Bound

(* What a reload that drops no change finds of a settled job. *)
LEMMA CurrentSettled ==
    ASSUME ~(stale /\ dirty), NEW j \in Jobs
    PROVE  /\ Dropped(j) => /\ ~Present(Current, j)
                            /\ (dirty /\ ~stale) \/ ~Present(disk, j)
           /\ Missed(j) => /\ ~Scheduled(Current, j)
                           /\ (dirty /\ ~stale) \/ ~Scheduled(disk, j)
BY DEF Dropped, Missed, Current

(* What the store does to a job that is overdue: it stays as it is until the
   process is killed, and a start that is over leaves it without a run. *)
Stays(j) ==
    /\ Dropped(j) /\ phase # "down" /\ phase' # "down" => Dropped(j)'
    /\ Unstarted \/ Missed(j) => Unstarted' \/ Missed(j)'

LEMMA StaysStep ==
    ASSUME TypeOK, Stored, Idle, [Next]_vars, ~clobbered',
           NEW j \in OneShots, AtTime <= now, j \in used
    PROVE  Stays(j)
<1>0. /\ mem \in Stores /\ disk \in Stores /\ Current \in Stores /\ j \in Jobs
      /\ now \in Nat /\ AtTime \in Nat /\ j \notin Protected
      /\ Protected \subseteq Jobs /\ OneShots \subseteq Jobs /\ phase \in Phases
      /\ AtTime <= now /\ j \in used /\ BootOrder
  BY CurrentType, JobsAssumption, TimesAssumption DEF TypeOK, Stored
<1>1. ASSUME UNCHANGED <<phase, starting>>, Dropped(j) => Dropped(j)', Missed(j) => Missed(j)'
      PROVE  Stays(j)
  BY <1>1 DEF Stays, Unstarted, Recomputing
<1>2. ASSUME UNCHANGED <<mem, disk, dirty, phase, starting>> PROVE Stays(j)
  BY <1>1, <1>2 DEF Dropped, Missed, Present, Scheduled
<1>3. ASSUME Reload
      PROVE  /\ ~(stale /\ dirty)
             /\ Dropped(j) => /\ ~Present(Current, j)
                              /\ (dirty /\ ~stale) \/ ~Present(disk, j)
             /\ Missed(j) => /\ ~Scheduled(Current, j)
                             /\ (dirty /\ ~stale) \/ ~Scheduled(disk, j)
  <2>1. ~(stale /\ dirty)
    BY <1>3, Zenon DEF Reload
  <2>2. QED
    BY <1>0, <2>1, CurrentSettled
<1>4. CASE Boot \/ Kill
  BY <1>4 DEF Boot, Kill, Stays, Unstarted
<1>5. CASE Start
  <2>1. UNCHANGED <<mem, disk, dirty>> /\ starting' = "load"
    BY <1>5 DEF Start
  <2>2. Dropped(j) => Dropped(j)'
    BY <2>1 DEF Dropped, Present
  <2>3. QED
    BY <2>1, <2>2 DEF Stays, Unstarted, Recomputing
<1>6. CASE Stop
  <2>1. UNCHANGED <<mem, disk, dirty>> /\ starting = "no" /\ phase = "running"
    BY <1>6 DEF Stop, Running
  <2>2. (Dropped(j) => Dropped(j)') /\ (Missed(j) => Missed(j)')
    BY <2>1 DEF Dropped, Missed, Present, Scheduled
  <2>3. QED
    BY <2>1, <2>2 DEF Stays, Unstarted, Recomputing
<1>7. ASSUME mem' = Current, Reload, dirty' = (dirty /\ ~stale), disk' = disk
      PROVE  (Dropped(j) => Dropped(j)') /\ (Missed(j) => Missed(j)')
  <2>1. Dropped(j) => ~Present(Current, j) /\ (dirty' \/ ~Present(disk, j))
    BY <1>3, <1>7
  <2>2. Missed(j) => ~Scheduled(Current, j) /\ (dirty' \/ ~Scheduled(disk, j))
    BY <1>3, <1>7
  <2>3. QED
    BY <1>7, <2>1, <2>2 DEF Dropped, Missed
<1>20. CASE StartLoad
  BY <1>7, <1>20 DEF StartLoad, Stays, Unstarted, Recomputing
<1>21. CASE StartRecompute
  <2>1. /\ mem' = [i \in Jobs |-> IF Current[i].status = "enabled" THEN Enabled(i, now) ELSE Current[i]]
        /\ dirty' = TRUE /\ Reload
    BY <1>21 DEF StartRecompute, Recomputed
  <2>2. mem'[j].status = "enabled" => mem'[j].next = NoRun
    BY <1>0, <2>1, EntryFacts
  <2>3. Missed(j)'
    BY <2>1, <2>2 DEF Missed, Scheduled
  <2>4. ~Present(Current, j) => ~Present(mem', j)
    BY <1>0, <2>1 DEF Present
  <2>5. Dropped(j) => ~Present(Current, j)
    BY <1>3, <2>1
  <2>6. Dropped(j) => Dropped(j)'
    BY <2>1, <2>4, <2>5 DEF Dropped
  <2>7. QED
    BY <2>3, <2>6 DEF Stays
<1>8. CASE External
  <2>1. PICK i \in Jobs \ Protected :
           \/ /\ i \notin used
              /\ disk' = [disk EXCEPT ![i] = Enabled(i, now)]
           \/ disk' = [disk EXCEPT ![i] = Absent]
    BY <1>8 DEF External
  <2>2. UNCHANGED <<mem, phase, starting, dirty>>
    BY <1>8 DEF External, bootVars
  <2>3. disk'[j] = disk[j] \/ disk'[j] = Absent
    BY <1>0, <2>1 DEF Stores
  <2>4. (~Present(disk, j) => ~Present(disk', j)) /\ (~Scheduled(disk, j) => ~Scheduled(disk', j))
    BY <1>0, <2>3, EntryFacts DEF Present, Scheduled
  <2>5. (Dropped(j) => Dropped(j)') /\ (Missed(j) => Missed(j)')
    BY <2>2, <2>4 DEF Dropped, Missed
  <2>6. QED
    BY <1>1, <2>2, <2>5
<1>10. CASE ListJobs
  <2>1. /\ mem' = Current /\ stale /\ dirty' = FALSE /\ Reload
        /\ UNCHANGED <<phase, starting, disk>>
    BY <1>10 DEF ListJobs, bootVars
  <2>2. dirty' = (dirty /\ ~stale)
    BY <2>1 DEF TypeOK
  <2>3. QED
    BY <1>1, <1>7, <2>1, <2>2
<1>11. CASE Tick \/ Arm
  BY <1>2, <1>11 DEF Tick, Arm, bootVars
<1>12. ASSUME NEW t \in Timers, StoreHandle(t) \/ \E i \in Jobs : Execute(t, i) PROVE Stays(j)
  BY <1>2, <1>12 DEF StoreHandle, Execute, bootVars
<1>13. ASSUME NEW t \in Timers, Fire(t) PROVE Stays(j)
  BY <1>1, <1>7, <1>13 DEF Fire, bootVars
<1>14. ASSUME NEW t \in Timers, CallbackReturns(t) PROVE Stays(j)
  <2> DEFINE i == cur[t]
             s == AfterRun(Current, i)
  <2>1. i \in Jobs
    BY <1>14 DEF CallbackReturns, TypeOK
  <2>2. /\ mem' = s /\ Reload /\ dirty' = (Present(Current, i) \/ (dirty /\ ~stale))
        /\ UNCHANGED <<phase, starting, disk>>
    BY <1>14 DEF CallbackReturns, JobDone, bootVars
  <2>3. i # j => s[j] = Current[j]
    BY <1>0, <2>1, AfterRunFacts
  <2>4. i = j => ~Present(s, j)
    BY <1>0, <2>1, AfterRunFacts
  <2> HIDE DEF s, i
  <2>5. (~Present(Current, j) => ~Present(s, j)) /\ (~Scheduled(Current, j) => ~Scheduled(s, j))
    BY <2>3, <2>4 DEF Present, Scheduled
  <2>6. (Dropped(j) => Dropped(j)') /\ (Missed(j) => Missed(j)')
    BY <1>0, <1>3, <2>2, <2>5 DEF Dropped, Missed
  <2>7. QED
    BY <1>1, <2>2, <2>6
<1>15. ASSUME Save PROVE (Dropped(j) => Dropped(j)') /\ (Missed(j) => Missed(j)')
  <2>1. mem' = mem /\ (Wrote \/ Unwritten \/ HalfWritten)
    BY <1>15, SaveEffect, Zenon
  <2>2. CASE Wrote
    BY <2>1, <2>2 DEF Wrote, Dropped, Missed
  <2>3. CASE Unwritten
    BY <2>1, <2>3 DEF Unwritten, Dropped, Missed
  <2>4. CASE HalfWritten
    BY <2>1, <2>4 DEF HalfWritten, Dropped, Missed
  <2>5. QED
    BY <2>1, <2>2, <2>3, <2>4
<1>22. CASE StartSave
  <2>1. phase' = phase /\ starting = "save" /\ phase = "running" /\ Save
    BY <1>0, <1>22 DEF StartSave, BootOrder
  <2>2. QED
    BY <1>15, <2>1 DEF Stays, Unstarted, Recomputing
<1>16. ASSUME NEW t \in Timers, TimerEnds(t) PROVE Stays(j)
  BY <1>1, <1>15, <1>16 DEF TimerEnds, bootVars
<1>17. ASSUME NEW c \in calls, SaveCall(c) PROVE Stays(j)
  BY <1>1, <1>15, <1>17 DEF SaveCall, bootVars
<1>18. ASSUME NEW i \in Jobs, Operation(i) PROVE Stays(j)
  <2>1. /\ Reload /\ dirty' = TRUE
        /\ UNCHANGED <<phase, starting, disk>>
    BY <1>18 DEF Operation, Register, AddJob, RemoveJob, Call, bootVars
  <2>2. mem'[j] = Current[j] \/ mem'[j] = Absent
    BY <1>0, <1>18 DEF Operation, Register, AddJob, RemoveJob, Stores, TypeOK
  <2>3. (~Present(Current, j) => ~Present(mem', j)) /\ (~Scheduled(Current, j) => ~Scheduled(mem', j))
    BY <2>2, <1>0, EntryFacts DEF Present, Scheduled
  <2>4. (Dropped(j) => Dropped(j)') /\ (Missed(j) => Missed(j)')
    BY <1>0, <1>3, <2>1, <2>3 DEF Dropped, Missed
  <2>5. QED
    BY <1>1, <2>1, <2>4
<1>19. CASE UNCHANGED vars
  BY <1>2, <1>19 DEF vars, bootVars
<1>23. QED
  BY <1>4, <1>5, <1>6, <1>8, <1>10, <1>11, <1>12, <1>13, <1>14, <1>16, <1>17,
     <1>18, <1>19, <1>20, <1>21, <1>22 DEF Next, Service, Starts

(* The timers that await the callback of job j. *)
RunningOnes(j) == {t \in Timers : cur[t] = j}

(* Until the job is settled, every run that no arm cut off is one that goes on. *)
Once(j) ==
    /\ ran[j] <= Bound
    /\ Settled(j) \/ ran[j] <= Cardinality(RunningOnes(j))

OnceInv == ~clobbered => \A j \in OneShots : Once(j)

LEMMA RunningFinite ==
    ASSUME TypeOK, CurFiring, AliveBound, NEW j \in OneShots
    PROVE  /\ IsFiniteSet(RunningOnes(j)) /\ Cardinality(RunningOnes(j)) \in Nat
           /\ Cardinality(RunningOnes(j)) <= 1 + surplus
           /\ IsFiniteSet(Owed(j)) /\ Cardinality(Owed(j)) \in Nat
<1>1. RunningOnes(j) \subseteq Alive
  BY JobsAssumption DEF RunningOnes, Alive, CurFiring
<1>2. IsFiniteSet(Alive) /\ Cardinality(Alive) <= 1 + surplus /\ surplus \in Nat
  BY DEF AliveBound, TypeOK
<1>3. IsFiniteSet(RunningOnes(j)) /\ Cardinality(RunningOnes(j)) <= Cardinality(Alive)
  BY <1>1, <1>2, FS_Subset
<1>4. Cardinality(RunningOnes(j)) \in Nat /\ Cardinality(Alive) \in Nat
  BY <1>2, <1>3, FS_CardinalityType
<1>6. Owed(j) \subseteq Alive
  BY DEF Owed, Alive, CurFiring
<1>7. IsFiniteSet(Owed(j)) /\ Cardinality(Owed(j)) \in Nat
  BY <1>2, <1>6, FS_Subset, FS_CardinalityType
<1>5. QED
  BY <1>2, <1>3, <1>4, <1>7

(* The abort of a task that runs job j takes its run back. *)
LEMMA AbortOnce ==
    ASSUME TypeOK, AbortHandle, NEW j \in OneShots, IsFiniteSet(RunningOnes(j))
    PROVE  /\ ran'[j] <= ran[j]
           /\ ran[j] <= Cardinality(RunningOnes(j)) => ran'[j] <= Cardinality(RunningOnes(j)')
<1>1. /\ ran'[j] = IF handle # NoTimer /\ cur[handle] = j THEN ran[j] - 1 ELSE ran[j]
      /\ cur' = [t \in Timers |-> IF t = handle THEN NoJob ELSE cur[t]]
  BY DEF AbortHandle
<1>2. ran[j] \in Int /\ NoJob # j /\ handle \in Timers \union {NoTimer} /\ NoTimer \notin Timers
  BY JobsAssumption, TimersAssumption DEF TypeOK
<1>3. CASE handle # NoTimer /\ cur[handle] = j
  <2>1. handle \in RunningOnes(j) /\ RunningOnes(j)' = RunningOnes(j) \ {handle}
    BY <1>1, <1>2, <1>3 DEF RunningOnes
  <2>2. Cardinality(RunningOnes(j)') = Cardinality(RunningOnes(j)) - 1
        /\ Cardinality(RunningOnes(j)) \in Nat
    BY <2>1, FS_RemoveElement, FS_CardinalityType
  <2>3. QED
    BY <1>1, <1>2, <1>3, <2>2
<1>4. CASE ~(handle # NoTimer /\ cur[handle] = j)
  <2>1. RunningOnes(j)' = RunningOnes(j)
    BY <1>1, <1>2, <1>4 DEF RunningOnes
  <2>2. QED
    BY <1>1, <1>2, <1>4, <2>1
<1>5. QED
  BY <1>3, <1>4

(* What is allowed and what is owed: a timer that collects an overdue job while
   start() is under way is counted, and nothing else adds to the debt. *)
LEMMA DebtStep ==
    ASSUME TypeOK, Idle, CurFiring, AliveBound, [Next]_vars, NEW j \in OneShots,
           Debt(j) <= Bound
    PROVE  \/ Debt(j)' <= Bound'
           \/ ~Recomputing /\ phase \notin {"down", "registered"}
              /\ \E t \in Timers : Fire(t) /\ Due(Current, j)
<1>0. /\ ran[j] \in Int /\ ran \in [OneShots -> Int] /\ j \in Jobs
      /\ IsFiniteSet(Owed(j)) /\ Cardinality(Owed(j)) \in Nat
      /\ todo \in [Timers -> SUBSET Jobs] /\ surplus \in Nat /\ early \in Nat
      /\ ran[j] + Cardinality(Owed(j)) <= 1 + surplus + early
  BY RunningFinite, JobsAssumption DEF TypeOK, Debt, Bound
<1>1. ASSUME ran'[j] <= ran[j], ran'[j] \in Int, Owed(j)' \subseteq Owed(j),
             surplus' \in {surplus, surplus + 1}, early' = early
      PROVE  Debt(j)' <= Bound'
  <2>1. IsFiniteSet(Owed(j)') /\ Cardinality(Owed(j)') <= Cardinality(Owed(j))
    BY <1>0, <1>1, FS_Subset
  <2>2. Cardinality(Owed(j)') \in Nat
    BY <2>1, FS_CardinalityType
  <2>3. ran'[j] + Cardinality(Owed(j)') <= 1 + surplus' + early'
    BY <1>0, <1>1, <2>1, <2>2
  <2>4. QED
    BY <2>3 DEF Debt, Bound
<1>2. ASSUME UNCHANGED <<ran, todo, surplus, early>> PROVE Debt(j)' <= Bound'
  <2>1. Owed(j)' = Owed(j)
    BY <1>2 DEF Owed
  <2>2. QED
    BY <1>0, <1>1, <1>2, <2>1
<1>3. CASE Boot \/ Start \/ Starts \/ External \/ Tick \/ ListJobs
  BY <1>2, <1>3 DEF Boot, Start, Starts, StartLoad, StartRecompute, StartSave, External,
                    Tick, ListJobs, timerVars, historyVars
<1>4. CASE Stop \/ Arm
  <2>1. AbortHandle /\ early' = early /\ surplus' \in {surplus, surplus + 1}
    BY <1>4 DEF Stop, Arm
  <2>2. Owed(j)' \subseteq Owed(j)
    BY <1>0, <2>1 DEF AbortHandle, Owed
  <2>3. ran'[j] <= ran[j] /\ ran'[j] \in Int
    BY <1>0, <2>1 DEF AbortHandle
  <2>4. QED
    BY <1>1, <2>1, <2>2, <2>3
<1>5. CASE Kill
  <2>1. /\ ran' = ran /\ surplus' = surplus /\ early' = early
        /\ todo' = [t \in Timers |-> {}]
    BY <1>5 DEF Kill, historyVars
  <2>2. Owed(j)' \subseteq Owed(j)
    BY <2>1 DEF Owed
  <2>3. QED
    BY <1>0, <1>1, <2>1, <2>2
<1>6. ASSUME NEW t \in Timers, StoreHandle(t) \/ TimerEnds(t) \/ CallbackReturns(t)
      PROVE  Debt(j)' <= Bound'
  BY <1>2, <1>6 DEF StoreHandle, TimerEnds, CallbackReturns, historyVars
<1>7. ASSUME NEW t \in Timers, Fire(t)
      PROVE  \/ Debt(j)' <= Bound'
             \/ ~Recomputing /\ phase \notin {"down", "registered"} /\ Due(Current, j)
  <2>1. /\ tstate[t] = "sleeping" /\ ran' = ran /\ surplus' = surplus
        /\ todo' = [todo EXCEPT ![t] = {i \in Jobs : Due(Current, i)}]
        /\ early' = IF Recomputing /\ \E i \in OneShots : Due(Current, i)
                    THEN early + 1 ELSE early
    BY <1>7 DEF Fire, historyVars
  <2>2. t \notin Owed(j) /\ phase \notin {"down", "registered"}
    BY <2>1 DEF CurFiring, Owed, Idle
  <2>3. CASE ~Due(Current, j)
    <3>1. Owed(j)' \subseteq Owed(j)
      BY <1>0, <2>1, <2>3 DEF Owed
    <3>2. CASE early' = early
      BY <1>0, <1>1, <2>1, <3>1, <3>2
    <3>3. CASE early' = early + 1
      <4>1. IsFiniteSet(Owed(j)') /\ Cardinality(Owed(j)') <= Cardinality(Owed(j))
        BY <1>0, <3>1, FS_Subset
      <4>2. Cardinality(Owed(j)') \in Nat
        BY <4>1, FS_CardinalityType
      <4>3. ran'[j] + Cardinality(Owed(j)') <= 1 + surplus' + early'
        BY <1>0, <2>1, <3>3, <4>1, <4>2
      <4>4. QED
        BY <4>3 DEF Debt, Bound
    <3>4. QED
      BY <2>1, <3>2, <3>3
  <2>4. CASE Due(Current, j) /\ Recomputing
    <3>1. Owed(j)' = Owed(j) \union {t}
      BY <1>0, <2>1, <2>4 DEF Owed
    <3>2. Cardinality(Owed(j)') = Cardinality(Owed(j)) + 1
      BY <1>0, <2>2, <3>1, FS_AddElement
    <3>3. early' = early + 1
      BY <2>1, <2>4
    <3>4. ran'[j] + Cardinality(Owed(j)') <= 1 + surplus' + early'
      BY <1>0, <2>1, <3>2, <3>3
    <3>5. QED
      BY <3>4 DEF Debt, Bound
  <2>5. QED
    BY <2>2, <2>3, <2>4
<1>8. ASSUME NEW t \in Timers, NEW i \in Jobs, Execute(t, i) PROVE Debt(j)' <= Bound'
  <2>1. /\ i \in todo[t] /\ todo' = [todo EXCEPT ![t] = @ \ {i}]
        /\ surplus' = surplus /\ early' = early
        /\ \/ ran' = ran
           \/ ran' = [k \in OneShots |-> IF k = i THEN ran[k] + 1 ELSE ran[k]]
    BY <1>8 DEF Execute
  <2>2. CASE i # j
    <3>1. Owed(j)' = Owed(j)
      BY <1>0, <2>1, <2>2 DEF Owed
    <3>2. ran'[j] = ran[j]
      BY <1>0, <2>1, <2>2
    <3>3. QED
      BY <1>0, <1>1, <2>1, <3>1, <3>2
  <2>3. CASE i = j
    <3>1. t \in Owed(j) /\ Owed(j)' = Owed(j) \ {t}
      BY <1>0, <2>1, <2>3 DEF Owed
    <3>2. Cardinality(Owed(j)') = Cardinality(Owed(j)) - 1
      BY <1>0, <3>1, FS_RemoveElement
    <3>3. ran'[j] <= ran[j] + 1 /\ ran'[j] \in Int
      BY <1>0, <2>1, <2>3
    <3>4. ran'[j] + Cardinality(Owed(j)') <= 1 + surplus' + early'
      BY <1>0, <2>1, <3>2, <3>3
    <3>5. QED
      BY <3>4 DEF Debt, Bound
  <2>4. QED
    BY <2>2, <2>3
<1>9. ASSUME NEW i \in Jobs, Operation(i) PROVE Debt(j)' <= Bound'
  BY <1>2, <1>9 DEF Operation, Register, AddJob, RemoveJob, Call, timerVars, historyVars
<1>10. ASSUME NEW c \in calls, SaveCall(c) PROVE Debt(j)' <= Bound'
  BY <1>2, <1>10 DEF SaveCall, timerVars
<1>11. CASE UNCHANGED vars
  BY <1>2, <1>11 DEF vars, timerVars, historyVars
<1>12. QED
  BY <1>3, <1>4, <1>5, <1>6, <1>7, <1>8, <1>9, <1>10, <1>11 DEF Next, Service

(* A run is added by a timer that finds the job in the store. *)
LEMMA RunAdded ==
    ASSUME TypeOK, [Next]_vars, NEW j \in OneShots, ~Present(mem, j)
    PROVE  ran'[j] <= ran[j]
<1>0. ran[j] \in Int /\ ran \in [OneShots -> Int]
  BY DEF TypeOK
<1>1. ASSUME ran' = ran PROVE ran'[j] <= ran[j]
  BY <1>0, <1>1
<1>2. CASE Boot \/ Start \/ Starts \/ External \/ Tick \/ ListJobs \/ Kill
  BY <1>1, <1>2 DEF Boot, Start, Starts, StartLoad, StartRecompute, StartSave, External,
                    Tick, ListJobs, Kill, historyVars
<1>3. CASE Stop \/ Arm
  <2>1. AbortHandle
    BY <1>3 DEF Stop, Arm
  <2>2. QED
    BY <1>0, <2>1 DEF AbortHandle
<1>4. ASSUME NEW t \in Timers,
             StoreHandle(t) \/ Fire(t) \/ TimerEnds(t) \/ CallbackReturns(t)
      PROVE  ran'[j] <= ran[j]
  BY <1>1, <1>4 DEF StoreHandle, Fire, TimerEnds, CallbackReturns, historyVars
<1>5. ASSUME NEW t \in Timers, NEW i \in Jobs, Execute(t, i) PROVE ran'[j] <= ran[j]
  <2>1. CASE Present(mem, i)
    <3>1. ran' = [k \in OneShots |-> IF k = i THEN ran[k] + 1 ELSE ran[k]]
      BY <1>5, <2>1 DEF Execute
    <3>2. i # j
      BY <2>1
    <3>3. QED
      BY <1>0, <3>1, <3>2
  <2>2. CASE ~Present(mem, i)
    BY <1>1, <1>5, <2>2 DEF Execute
  <2>3. QED
    BY <2>1, <2>2
<1>6. ASSUME NEW i \in Jobs, Operation(i) PROVE ran'[j] <= ran[j]
  BY <1>1, <1>6 DEF Operation, Register, AddJob, RemoveJob, Call, timerVars, historyVars
<1>7. ASSUME NEW c \in calls, SaveCall(c) PROVE ran'[j] <= ran[j]
  BY <1>1, <1>7 DEF SaveCall, timerVars
<1>8. CASE UNCHANGED vars
  BY <1>1, <1>8 DEF vars, historyVars
<1>9. QED
  BY <1>2, <1>3, <1>4, <1>5, <1>6, <1>7, <1>8 DEF Next, Service

LEMMA BoundGrows ==
    ASSUME TypeOK, [Next]_vars
    PROVE  /\ Bound \in Int /\ Bound' \in Int /\ Bound <= Bound'
           /\ now <= now' /\ used \subseteq used'
           /\ ~clobbered' => ~clobbered
<1>1. /\ now' = now \/ now' = now + 1
      /\ surplus' = surplus \/ surplus' = surplus + 1
      /\ early' = early \/ early' = early + 1
      /\ used \subseteq used'
  <2>1. CASE Arm
    BY <2>1 DEF Arm
  <2>2. ASSUME NEW t \in Timers, Service(t)
        PROVE /\ now' = now \/ now' = now + 1
              /\ surplus' = surplus \/ surplus' = surplus + 1
              /\ early' = early \/ early' = early + 1
              /\ used \subseteq used'
    BY <2>2 DEF Service, StoreHandle, Fire, CallbackReturns, TimerEnds, Execute, historyVars
  <2>3. CASE Boot \/ Start \/ Starts \/ Stop \/ Kill \/ External \/ Tick \/ ListJobs
    BY <2>3 DEF Boot, Start, Starts, StartLoad, StartRecompute, StartSave, Stop, Kill,
                External, Tick, ListJobs, historyVars
  <2>4. ASSUME NEW j \in Jobs, Operation(j)
        PROVE /\ now' = now \/ now' = now + 1
              /\ surplus' = surplus \/ surplus' = surplus + 1
              /\ early' = early \/ early' = early + 1
              /\ used \subseteq used'
    BY <2>4 DEF Operation, Register, AddJob, RemoveJob, Call, historyVars
  <2>5. ASSUME NEW c \in calls, SaveCall(c)
        PROVE /\ now' = now \/ now' = now + 1
              /\ surplus' = surplus \/ surplus' = surplus + 1
              /\ early' = early \/ early' = early + 1
              /\ used \subseteq used'
    BY <2>5 DEF SaveCall
  <2>6. CASE UNCHANGED vars
    BY <2>6 DEF vars, historyVars
  <2>7. QED
    BY <2>1, <2>2, <2>3, <2>4, <2>5, <2>6 DEF Next
<1>2. ~clobbered' => ~clobbered
  <2>1. Reload => (~clobbered' => ~clobbered)
    BY Zenon DEF Reload
  <2>2. Save => (~clobbered' => ~clobbered)
    BY SaveEffect
  <2>3. clobbered' = clobbered => (~clobbered' => ~clobbered)
    OBVIOUS
  <2>4. CASE Boot \/ Start \/ Stop \/ External \/ Tick \/ Arm
    BY <2>3, <2>4 DEF Boot, Start, Stop, External, Tick, Arm
  <2>5. CASE Starts
    BY <2>1, <2>2, <2>5 DEF Starts, StartLoad, StartRecompute, StartSave
  <2>6. CASE Kill
    <3>1. clobbered' = (clobbered \/ behind) \/ clobbered' = TRUE
      BY <2>6 DEF Kill
    <3>2. QED
      BY <3>1, Zenon
  <2>7. CASE ListJobs
    BY <2>1, <2>7 DEF ListJobs
  <2>8. ASSUME NEW t \in Timers, Service(t) PROVE ~clobbered' => ~clobbered
    <3>1. CASE StoreHandle(t) \/ \E j \in Jobs : Execute(t, j)
      BY <2>3, <3>1 DEF StoreHandle, Execute
    <3>2. CASE Fire(t) \/ CallbackReturns(t)
      BY <2>1, <3>2 DEF Fire, CallbackReturns, JobDone
    <3>3. CASE TimerEnds(t)
      BY <2>2, <3>3 DEF TimerEnds
    <3>4. QED
      BY <2>8, <3>1, <3>2, <3>3 DEF Service
  <2>9. ASSUME NEW j \in Jobs, Operation(j) PROVE ~clobbered' => ~clobbered
    BY <2>1, <2>9 DEF Operation, Register, AddJob, RemoveJob, Call
  <2>10. ASSUME NEW c \in calls, SaveCall(c) PROVE ~clobbered' => ~clobbered
    BY <2>2, <2>10 DEF SaveCall
  <2>11. CASE UNCHANGED vars
    BY <2>3, <2>11 DEF vars
  <2>12. QED
    BY <2>4, <2>5, <2>6, <2>7, <2>8, <2>9, <2>10, <2>11 DEF Next
<1>3. /\ now \in Nat /\ surplus \in Nat /\ early \in Nat
  BY DEF TypeOK
<1>4. Bound \in Int /\ Bound' \in Int /\ Bound <= Bound' /\ now <= now'
  BY <1>1, <1>3 DEF Bound
<1>5. QED
  BY <1>1, <1>2, <1>4

(* Nothing is owed by a process that was killed. *)
LEMMA KilledSettles ==
    ASSUME TypeOK, Kill, NEW j \in OneShots, ran[j] <= Bound, AtTime <= now, j \in used
    PROVE  Settled(j)' /\ ran'[j] <= Bound'
<1>1. /\ ran' = ran /\ now' = now /\ used' = used /\ phase' = "down"
      /\ surplus' = surplus /\ early' = early /\ todo' = [t \in Timers |-> {}]
  BY DEF Kill, historyVars
<1>2. Owed(j)' = {}
  BY <1>1 DEF Owed
<1>3. Cardinality(Owed(j)') = 0
  BY <1>2, FS_EmptySet
<1>4. ran[j] \in Int /\ ran'[j] = ran[j] /\ Bound' = Bound
  BY <1>1 DEF TypeOK, Bound
<1>5. Debt(j)' <= Bound' /\ ran'[j] <= Bound'
  BY <1>3, <1>4 DEF Debt
<1>6. QED
  BY <1>1, <1>5 DEF Settled, Unstarted

(* A settled job stays settled, and its runs stay within the bound. *)
LEMMA SettledStep ==
    ASSUME TypeOK, Stored, Idle, CurFiring, AliveBound, [Next]_vars, ~clobbered',
           NEW j \in OneShots, Settled(j), ran[j] <= Bound
    PROVE  Settled(j)' /\ ran'[j] <= Bound'
<1>0. /\ Bound \in Int /\ Bound' \in Int /\ Bound <= Bound'
      /\ ran[j] \in Int /\ ran'[j] \in Int
      /\ now \in Nat /\ now' \in Nat /\ AtTime \in Nat /\ now <= now'
      /\ AtTime <= now /\ j \in used /\ j \in used'
  BY BoundGrows, TypeStep, TimesAssumption DEF TypeOK, Settled
<1>1. Stays(j)
  BY <1>0, StaysStep
<1>2. CASE Kill
  BY <1>0, <1>2, KilledSettles
<1>3. CASE phase # "down" /\ Dropped(j) /\ phase' # "down"
  <2>1. Dropped(j)'
    BY <1>1, <1>3 DEF Stays
  <2>2. ~Present(mem, j)
    BY <1>3 DEF Dropped
  <2>3. ran'[j] <= ran[j]
    BY <2>2, RunAdded
  <2>4. Settled(j)'
    BY <1>0, <1>3, <2>1 DEF Settled
  <2>5. QED
    BY <1>0, <2>3, <2>4
<1>4. CASE (Unstarted \/ Missed(j)) /\ Debt(j) <= Bound
  <2>1. Unstarted' \/ Missed(j)'
    BY <1>1, <1>4 DEF Stays
  <2>2. ASSUME NEW t \in Timers, Fire(t), Due(Current, j),
               ~Recomputing, phase \notin {"down", "registered"}
        PROVE  FALSE
    <3>1. Missed(j) /\ Reload
      BY <1>4, <2>2 DEF Unstarted, Fire
    <3>2. ~(stale /\ dirty)
      BY <3>1, Zenon DEF Reload
    <3>3. ~Scheduled(Current, j)
      BY <3>1, <3>2, JobsAssumption, CurrentSettled
    <3>4. QED
      BY <2>2, <3>3 DEF Due
  <2>3. Debt(j)' <= Bound'
    BY <1>4, <2>2, DebtStep
  <2>4. Cardinality(Owed(j)') \in Nat
    <3>1. TypeOK' /\ CurFiring' /\ AliveBound'
      BY TypeStep, CurFiringStep, AliveStep
    <3>2. Owed(j)' \subseteq Alive'
      BY <3>1 DEF Owed, Alive, CurFiring
    <3>3. QED
      BY <3>1, <3>2, FS_Subset, FS_CardinalityType DEF AliveBound
  <2>5. ran'[j] <= Bound'
    BY <1>0, <2>3, <2>4 DEF Debt
  <2>6. Settled(j)'
    BY <1>0, <2>1, <2>3 DEF Settled
  <2>7. QED
    BY <2>5, <2>6
<1>5. phase' = "down" => Kill \/ phase = "down"
  BY DEF Next, vars, Service, Operation, Boot, Start, Starts, StartLoad, StartRecompute,
         StartSave, Stop, External, Tick, Arm, ListJobs, StoreHandle, Fire,
         CallbackReturns, TimerEnds, Execute, Register, AddJob, RemoveJob, Call,
         SaveCall, bootVars
<1>6. QED
  BY <1>2, <1>3, <1>4, <1>5 DEF Settled

(* The runs of a job that is not settled: a step that adds one adds a timer that
   awaits it, and a step that lets one end settles the job. *)
LEMMA RanStep ==
    ASSUME TypeOK, Stored, Idle, CurFiring, AliveBound, Overdue, [Next]_vars, ~clobbered',
           NEW j \in OneShots, Once(j)
    PROVE  \/ ran'[j] <= Bound' /\ Settled(j)'
           \/ ran'[j] <= Cardinality(RunningOnes(j)')
<1>0. /\ ran[j] \in Int /\ ran \in [OneShots -> Int] /\ j \in Jobs /\ j # NoJob
      /\ IsFiniteSet(RunningOnes(j)) /\ Cardinality(RunningOnes(j)) \in Nat
      /\ cur \in [Timers -> Jobs \union {NoJob}] /\ todo \in [Timers -> SUBSET Jobs]
      /\ Settled(j) => Settled(j)' /\ ran'[j] <= Bound'
      /\ Settled(j) \/ ran[j] <= Cardinality(RunningOnes(j))
      /\ ran[j] <= Bound /\ Bound \in Int /\ Bound' \in Int /\ Bound <= Bound'
  BY RunningFinite, SettledStep, BoundGrows, JobsAssumption DEF TypeOK, Once
<1>1. ASSUME ran' = ran, cur' = cur PROVE ran'[j] <= ran[j] /\ RunningOnes(j)' = RunningOnes(j)
  BY <1>0, <1>1 DEF RunningOnes
<1>2. CASE Boot \/ Start \/ Starts \/ External \/ Tick \/ ListJobs
  BY <1>0, <1>1, <1>2 DEF Boot, Start, Starts, StartLoad, StartRecompute, StartSave,
                          External, Tick, ListJobs, timerVars, historyVars
<1>3. CASE Stop \/ Arm
  <2>1. AbortHandle
    BY <1>3 DEF Stop, Arm
  <2>2. QED
    BY <1>0, <2>1, AbortOnce
<1>4. CASE Kill
  <2>1. ran' = ran /\ now' = now /\ used' = used /\ phase' = "down"
        /\ cur' = [t \in Timers |-> NoJob]
    BY <1>4 DEF Kill, historyVars
  <2>2. RunningOnes(j)' = {}
    BY <1>0, <2>1 DEF RunningOnes
  <2>3. Cardinality(RunningOnes(j)') = 0
    BY <2>2, FS_EmptySet
  <2>4. CASE RunningOnes(j) = {}
    <3>1. Cardinality(RunningOnes(j)) = 0
      BY <2>4, FS_EmptySet
    <3>2. QED
      BY <1>0, <2>1, <2>3, <3>1
  <2>5. CASE RunningOnes(j) # {}
    <3>1. AtTime <= now /\ j \in used
      BY <2>5 DEF RunningOnes, Overdue
    <3>2. QED
      BY <1>0, <1>4, <3>1, KilledSettles
  <2>6. QED
    BY <2>4, <2>5
<1>5. ASSUME NEW t \in Timers, StoreHandle(t) \/ Fire(t) \/ TimerEnds(t)
      PROVE  \/ ran'[j] <= Bound' /\ Settled(j)'
             \/ ran'[j] <= Cardinality(RunningOnes(j)')
  BY <1>0, <1>1, <1>5 DEF StoreHandle, Fire, TimerEnds, historyVars
<1>6. ASSUME NEW t \in Timers, CallbackReturns(t)
      PROVE  \/ ran'[j] <= Bound' /\ Settled(j)'
             \/ ran'[j] <= Cardinality(RunningOnes(j)')
  <2>1. /\ ran' = ran /\ cur' = [cur EXCEPT ![t] = NoJob] /\ cur[t] \in Jobs
        /\ mem' = AfterRun(Current, cur[t]) /\ Reload
        /\ dirty' = (Present(Current, cur[t]) \/ (dirty /\ ~stale))
        /\ UNCHANGED <<now, phase, disk, used>>
    BY <1>0, <1>6 DEF CallbackReturns, JobDone, bootVars
  <2>2. CASE cur[t] = j
    <3>1. AtTime <= now /\ j \in used
      BY <2>2 DEF Overdue
    <3>2. ~Present(mem', j)
      BY <1>0, <2>1, <2>2, CurrentType, AfterRunFacts
    <3>3. phase # "down"
      BY <1>0, <2>2 DEF Idle
    <3>4. stale \/ ~dirty => Current = disk
      BY <3>3 DEF Stored, Written, Current
    <3>7. Dropped(j)'
      BY <2>1, <2>2, <3>2, <3>4 DEF Dropped, Present
    <3>5. Settled(j)'
      BY <2>1, <3>1, <3>3, <3>7 DEF Settled
    <3>6. QED
      BY <1>0, <2>1, <3>5
  <2>3. CASE cur[t] # j
    <3>1. RunningOnes(j)' = RunningOnes(j)
      BY <1>0, <2>1, <2>3 DEF RunningOnes
    <3>2. QED
      BY <1>0, <2>1, <3>1
  <2>4. QED
    BY <2>2, <2>3
<1>7. ASSUME NEW t \in Timers, NEW i \in Jobs, Execute(t, i)
      PROVE  \/ ran'[j] <= Bound' /\ Settled(j)'
             \/ ran'[j] <= Cardinality(RunningOnes(j)')
  <2>1. tstate[t] = "firing" /\ cur[t] = NoJob /\ i \in todo[t]
    BY <1>7 DEF Execute
  <2>2. CASE ~Present(mem, i)
    BY <1>0, <1>1, <1>7, <2>2 DEF Execute
  <2>3. CASE Present(mem, i)
    <3>1. /\ cur' = [cur EXCEPT ![t] = i]
          /\ ran' = [k \in OneShots |-> IF k = i THEN ran[k] + 1 ELSE ran[k]]
      BY <1>7, <2>3 DEF Execute
    <3>2. CASE i # j
      <4>1. RunningOnes(j)' = RunningOnes(j) /\ ran'[j] = ran[j]
        BY <1>0, <2>1, <3>1, <3>2 DEF RunningOnes
      <4>2. QED
        BY <1>0, <4>1
    <3>3. CASE i = j
      <4>1. CASE Settled(j)
        BY <1>0, <4>1
      <4>2. t \notin RunningOnes(j) /\ RunningOnes(j)' = RunningOnes(j) \union {t}
        BY <1>0, <2>1, <3>1, <3>3 DEF RunningOnes
      <4>3. Cardinality(RunningOnes(j)') = Cardinality(RunningOnes(j)) + 1
        BY <1>0, <4>2, FS_AddElement
      <4>4. ran'[j] = ran[j] + 1
        BY <3>1, <3>3
      <4>5. QED
        BY <1>0, <4>1, <4>3, <4>4
    <3>4. QED
      BY <3>2, <3>3
  <2>4. QED
    BY <2>2, <2>3
<1>8. ASSUME NEW i \in Jobs, Operation(i)
      PROVE  \/ ran'[j] <= Bound' /\ Settled(j)'
             \/ ran'[j] <= Cardinality(RunningOnes(j)')
  BY <1>0, <1>1, <1>8 DEF Operation, Register, AddJob, RemoveJob, Call, timerVars, historyVars
<1>9. ASSUME NEW c \in calls, SaveCall(c)
      PROVE  \/ ran'[j] <= Bound' /\ Settled(j)'
             \/ ran'[j] <= Cardinality(RunningOnes(j)')
  BY <1>0, <1>1, <1>9 DEF SaveCall, timerVars
<1>10. CASE UNCHANGED vars
  BY <1>0, <1>1, <1>10 DEF vars, timerVars, historyVars
<1>11. QED
  BY <1>2, <1>3, <1>4, <1>5, <1>6, <1>7, <1>8, <1>9, <1>10 DEF Next, Service

LEMMA OnceStep ==
    ASSUME TypeOK, Stored, Idle, CurFiring, AliveBound, Overdue, OnceInv, [Next]_vars
    PROVE  OnceInv'
<1> SUFFICES ASSUME ~clobbered', NEW j \in OneShots PROVE Once(j)'
  BY DEF OnceInv
<1>1. Once(j)
  BY BoundGrows DEF OnceInv
<1>2. \/ ran'[j] <= Bound' /\ Settled(j)'
      \/ ran'[j] <= Cardinality(RunningOnes(j)')
  BY <1>1, RanStep
<1>3. TypeOK' /\ CurFiring' /\ AliveBound'
  BY TypeStep, CurFiringStep, AliveStep
<1>4. Cardinality(RunningOnes(j)') \in Nat /\ Cardinality(RunningOnes(j)') <= 1 + surplus'
  <2>1. RunningOnes(j)' \subseteq Alive'
    BY <1>3, JobsAssumption DEF RunningOnes, Alive, CurFiring
  <2>2. IsFiniteSet(Alive') /\ Cardinality(Alive') <= 1 + surplus' /\ surplus' \in Nat
    BY <1>3 DEF AliveBound, TypeOK
  <2>3. IsFiniteSet(RunningOnes(j)') /\ Cardinality(RunningOnes(j)') <= Cardinality(Alive')
    BY <2>1, <2>2, FS_Subset
  <2>4. Cardinality(RunningOnes(j)') \in Nat /\ Cardinality(Alive') \in Nat
    BY <2>2, <2>3, FS_CardinalityType
  <2>5. QED
    BY <2>2, <2>3, <2>4
<1>5. ran'[j] \in Int /\ surplus' \in Nat /\ early' \in Nat
  BY <1>3 DEF TypeOK
<1>6. ran'[j] <= Bound'
  BY <1>2, <1>4, <1>5 DEF Bound
<1>7. QED
  BY <1>2, <1>6 DEF Once

(* A one-shot reminder fires once.  Each further run by a timer that no arm cut
   off has a cause of its own: a timer spawned while another one was alive, or
   one that collected the overdue job after start() had set running and before it
   recomputed the store.  When a callback ends its job leaves the store, before
   anything can collect it again, and a start that is over leaves an overdue job
   without a run.  No change of the store may be lost: that could bring a
   reminder back that has run. *)
THEOREM ReminderFiresOnce == Spec => []OneShotOnce
<1>1. Init => OnceInv
  <2> SUFFICES ASSUME Init, NEW j \in OneShots PROVE Once(j)
    BY DEF OnceInv
  <2>1. ran[j] = 0 /\ surplus = 0 /\ early = 0 /\ RunningOnes(j) = {}
    BY JobsAssumption DEF Init, RunningOnes
  <2>2. QED
    BY <2>1, FS_EmptySet DEF Once, Bound
<1>2. TypeOK /\ Stored /\ Idle /\ CurFiring /\ AliveBound /\ Overdue /\ OnceInv /\ [Next]_vars
        => OnceInv'
  BY OnceStep
<1>3. OnceInv => OneShotOnce
  BY DEF OnceInv, Once, Bound, OneShotOnce
<1>4. QED
  BY <1>1, <1>2, <1>3, AlwaysStored, AlwaysIdle, AlwaysAlive, AlwaysOverdue, PTL DEF Spec

================================================================================
