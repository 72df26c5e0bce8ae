--------------------------------- MODULE Cron ----------------------------------
(***************************************************************************)
(* The cron service (cron/cron_service.rs): a job store kept in memory and *)
(* in jobs.json, one timer task that sleeps until the next due job and     *)
(* runs the due jobs one after the other, and the operations of the cron   *)
(* tool.  Every operation changes the store under the mutex, saves it      *)
(* under the mutex a second time, and spawns a task that arms the timer    *)
(* anew.  Arming aborts the task of the timer it replaces, which may be    *)
(* running a job.  A save that fails is only logged: the operation returns *)
(* as if it had not.                                                       *)
(*                                                                         *)
(* Another process (the command line agent has a cron service of its own,  *)
(* never started) may change jobs.json at any time.                        *)
(***************************************************************************)
EXTENDS Integers, FiniteSets

CONSTANTS
    Jobs,          \* job identifiers
    OneShots,      \* those with an "at" schedule, deleted after their run
    Protected,     \* system jobs, registered at every start
    AtTime,        \* when the "at" jobs are due
    Period,        \* interval of the other jobs
    Timers,        \* identities of timer tasks, numbers, reused
    NoJob, NoTimer,
    MaxTime,       \* bound: the clock
    MaxEvents      \* bound: operations, changes by another process, failures, kills

ASSUME JobsAssumption ==
    /\ OneShots \subseteq Jobs
    /\ Protected \subseteq Jobs \ OneShots /\ IsFiniteSet(Protected)
    /\ NoJob \notin Jobs
ASSUME TimersAssumption == Timers \subseteq Nat /\ NoTimer \notin Timers
ASSUME TimesAssumption == AtTime \in Nat /\ Period \in Nat \ {0} /\ MaxTime \in Nat

VARIABLES
    now,         \* the clock
    phase,       \* of the process: down, registered (booted), running, stopped
    toRegister,  \* system jobs the boot has still to register
    starting,    \* what start() does next
    disk,        \* jobs.json, as a reader sees it
    torn,        \* jobs.json does not parse (and reads as an empty store)
    mem,         \* the store in memory
    stale,       \* the file's time is not last_mtime: the next reload reads it
    calls,       \* operations that changed mem and have still to save it
    requested,   \* spawned arm_timer_async tasks that have not run yet
    tstate,      \* per timer task
    wake,        \* per timer task, the end of its sleep
    todo,        \* per timer task, due_ids it has still to run
    cur,         \* per timer task, the job whose callback it awaits
    handle,      \* timer_handle
    unstored,    \* timers spawned by an arm that has still to store the handle
    (* history *)
    used,        \* job identifiers given out
    ran,         \* per one-shot job, runs by a timer that no arm cut off
    surplus,     \* timers spawned while another one was alive
    kept,        \* jobs whose add returned, not removed, run out or lost since
    gone,        \* jobs whose removal returned
    early,       \* timers that collected one-shot jobs before start() had
                 \* recomputed the store
    dirty,       \* mem has changes that no save has written
    behind,      \* a save of such changes failed, and none has succeeded since
    clobbered,   \* a reload dropped such a change, a save an external one, or a
                 \* kill tore the file or came before a failed save was made up for
    blind,       \* mem was reloaded since the timer was last armed
    events       \* operations, changes by another process, failures, kills so far

bootVars == <<phase, toRegister, starting>>
timerVars == <<tstate, wake, todo, cur, handle, unstored>>
historyVars == <<used, ran, surplus, kept, gone>>
vars == <<now, bootVars, disk, torn, mem, stale, calls, requested, timerVars,
          historyVars, early, dirty, behind, clobbered, blind, events>>

NoRun == -1
Statuses == {"absent", "enabled"}
Entries == [status : Statuses, next : Int]
Stores == [Jobs -> Entries]
Absent == [status |-> "absent", next |-> NoRun]
Empty == [j \in Jobs |-> Absent]

Ops == {"register", "add", "remove"}
Phases == {"down", "registered", "running", "stopped"}
(* start() has still to reload the store, to recompute it, to save it. *)
StartSteps == {"load", "recompute", "save"}
(* "done": it ended, but the arm that spawned it has still to store it *)
TimerStates == {"free", "sleeping", "firing", "done"}

TypeOK ==
    /\ now \in Nat /\ phase \in Phases
    /\ toRegister \subseteq Protected /\ starting \in StartSteps \union {"no"}
    /\ disk \in Stores /\ mem \in Stores
    /\ torn \in BOOLEAN /\ stale \in BOOLEAN /\ calls \subseteq Ops \X Jobs /\ requested \in Nat
    /\ tstate \in [Timers -> TimerStates] /\ wake \in [Timers -> Int]
    /\ todo \in [Timers -> SUBSET Jobs] /\ cur \in [Timers -> Jobs \union {NoJob}]
    /\ handle \in Timers \union {NoTimer} /\ unstored \subseteq Timers
    /\ used \subseteq Jobs
    /\ ran \in [OneShots -> Int] /\ surplus \in Nat
    /\ kept \subseteq Jobs /\ gone \subseteq Jobs /\ early \in Nat
    /\ dirty \in BOOLEAN /\ behind \in BOOLEAN
    /\ clobbered \in BOOLEAN /\ blind \in BOOLEAN
    /\ events \in Nat

Present(s, j) == s[j].status # "absent"
Scheduled(s, j) == s[j].status = "enabled" /\ s[j].next # NoRun
Due(s, j) == Scheduled(s, j) /\ s[j].next <= now
Running == phase = "running"
(* start() has set running, and has not recomputed the store yet. *)
Recomputing == starting \in {"load", "recompute"}

Init ==
    /\ now = 0 /\ phase = "down" /\ toRegister = {} /\ starting = "no"
    /\ disk = Empty /\ torn = FALSE /\ mem = Empty
    /\ stale = FALSE /\ calls = {} /\ requested = 0
    /\ tstate = [t \in Timers |-> "free"] /\ wake = [t \in Timers |-> 0]
    /\ todo = [t \in Timers |-> {}] /\ cur = [t \in Timers |-> NoJob]
    /\ handle = NoTimer /\ unstored = {}
    /\ used = Protected
    /\ ran = [j \in OneShots |-> 0] /\ surplus = 0
    /\ kept = {} /\ gone = {} /\ early = 0
    /\ dirty = FALSE /\ behind = FALSE /\ clobbered = FALSE /\ blind = FALSE
    /\ events = 0

--------------------------------------------------------------------------------
(* The store *)

(* Mutant of NextRun: a one-shot job that is overdue is due at once. *)
NextRunOverdue(j, t) == IF j \in OneShots THEN AtTime ELSE t + Period

(* compute_next_run: an "at" time that has passed is never due again.  A cron
   expression is an interval here: what matters is that it lies after t. *)
NextRun(j, t) ==
    IF j \in OneShots THEN (IF AtTime > t THEN AtTime ELSE NoRun) ELSE t + Period

Enabled(j, t) == [status |-> "enabled", next |-> NextRun(j, t)]

(* reload_store_if_needed: the store an operation works on *)
Current == IF stale THEN disk ELSE mem

(* The bookkeeping of a reload.  last_mtime stays as it was when the file does
   not parse: the next reload reads it again, and empties the store again. *)
Reload ==
    /\ stale' = (stale /\ torn)
    /\ clobbered' = (clobbered \/ (stale /\ dirty))
    /\ blind' = (blind \/ stale)

(* save_store_to_disk writes what is in memory over whatever is there ... *)
SaveWrites ==
    /\ disk' = mem /\ torn' = FALSE
    /\ stale' = FALSE
    /\ dirty' = FALSE /\ behind' = FALSE
    /\ clobbered' = (clobbered \/ (stale /\ ~torn))
    /\ UNCHANGED events

(* ... or only logs that it could not, before or in the middle of the write. *)
SaveFails ==
    /\ events < MaxEvents
    /\ events' = events + 1
    /\ \/ /\ behind' = (behind \/ dirty)
          /\ UNCHANGED <<disk, torn, stale, dirty, clobbered>>
       \/ /\ disk' = Empty /\ torn' = TRUE
          /\ stale' = TRUE
          /\ dirty' = TRUE /\ behind' = TRUE
          /\ clobbered' = (clobbered \/ (stale /\ ~torn))

Save ==
    /\ SaveWrites \/ SaveFails
    /\ UNCHANGED <<mem, blind>>

--------------------------------------------------------------------------------
(* Start and stop *)

(* Mutant of Recomputed: a start drops the jobs that will not run any more. *)
RecomputedDrops(s) ==
    [j \in Jobs |-> IF s[j].status # "enabled" THEN s[j]
                    ELSE IF NextRun(j, now) = NoRun THEN Absent ELSE Enabled(j, now)]

Recomputed(s) ==
    [j \in Jobs |-> IF s[j].status = "enabled" THEN Enabled(j, now) ELSE s[j]]

(* The gateway boots and reads jobs.json. *)
Boot ==
    /\ phase = "down"
    /\ phase' = "registered" /\ toRegister' = Protected
    /\ mem' = disk
    /\ stale' = torn
    /\ UNCHANGED <<now, starting, disk, torn, calls, requested, timerVars,
                   historyVars, early, dirty, behind, clobbered, blind, events>>

(* register_system_job, for one system job after the other; SaveCall saves and
   asks for a timer. *)
Register(j) ==
    /\ j \in toRegister /\ calls = {}
    /\ toRegister' = toRegister \ {j}
    /\ calls' = {<<"register", j>>}
    /\ mem' = [Current EXCEPT ![j] = Enabled(j, now)]
    /\ Reload
    /\ dirty' = TRUE
    /\ UNCHANGED <<now, phase, starting, disk, torn, requested, timerVars,
                   historyVars, early, behind, events>>

(* CronService::start takes the mutex four times.  The arms the registrations
   asked for may run in between: they see a service that runs, and a store that
   may hold an overdue one-shot job. *)
Start ==
    /\ phase = "registered" /\ toRegister = {} /\ calls = {}
    /\ phase' = "running" /\ starting' = "load"
    /\ UNCHANGED <<now, toRegister, disk, torn, mem, stale, calls, requested,
                   timerVars, historyVars, early, dirty, behind, clobbered,
                   blind, events>>

StartLoad ==
    /\ starting = "load"
    /\ starting' = "recompute"
    /\ mem' = Current
    /\ Reload
    /\ dirty' = (dirty /\ ~stale)
    /\ UNCHANGED <<now, phase, toRegister, disk, torn, calls, requested,
                   timerVars, historyVars, early, behind, events>>

(* Overdue one-shot jobs lose their run, the others start their interval anew. *)
StartRecompute ==
    /\ starting = "recompute"
    /\ starting' = "save"
    /\ mem' = Recomputed(Current)
    /\ Reload
    /\ dirty' = TRUE
    /\ UNCHANGED <<now, phase, toRegister, disk, torn, calls, requested,
                   timerVars, historyVars, early, behind, events>>

(* The last step counts the arm that start() runs itself as one asked for. *)
StartSave ==
    /\ starting = "save"
    /\ starting' = "no"
    /\ Save
    /\ requested' = requested + 1
    /\ UNCHANGED <<now, phase, toRegister, calls, timerVars, historyVars, early>>

(* A timer task is gone; an arm that has still to store its handle keeps its
   identity. *)
Ended(t) == IF t \in unstored THEN "done" ELSE "free"

(* The task in the slot is aborted, and with it the callback it awaits. *)
AbortHandle ==
    /\ handle' = NoTimer
    /\ todo' = [t \in Timers |-> IF t = handle THEN {} ELSE todo[t]]
    /\ cur' = [t \in Timers |-> IF t = handle THEN NoJob ELSE cur[t]]
    /\ ran' = [j \in OneShots |-> IF handle # NoTimer /\ cur[handle] = j
                                    THEN ran[j] - 1 ELSE ran[j]]

Aborted == [t \in Timers |-> IF t = handle THEN "free" ELSE tstate[t]]
Wakes == [t \in Timers |-> IF t = handle THEN 0 ELSE wake[t]]

(* CronService::stop; the gateway calls it after start() has returned. *)
Stop ==
    /\ Running /\ starting = "no"
    /\ phase' = "stopped"
    /\ AbortHandle
    /\ tstate' = Aborted
    /\ wake' = Wakes
    /\ UNCHANGED <<now, toRegister, starting, disk, torn, mem, stale, calls,
                   requested, unstored, used, surplus, kept, gone, early, dirty,
                   behind, clobbered, blind, events>>

(* A kill, which cuts every callback off.  In the middle of a save it leaves
   a file that does not parse, and an unparsable file is an empty store. *)
Kill ==
    /\ phase # "down" /\ events < MaxEvents
    /\ events' = events + 1
    /\ phase' = "down" /\ toRegister' = {} /\ starting' = "no"
    /\ \/ UNCHANGED <<disk, torn>> /\ clobbered' = (clobbered \/ behind)
       \/ /\ \/ calls # {} \/ starting = "save"
             \/ \E t \in Timers : tstate[t] = "firing" /\ todo[t] = {} /\ cur[t] = NoJob
          /\ disk' = Empty /\ torn' = TRUE /\ clobbered' = TRUE
    /\ mem' = Empty /\ stale' = FALSE /\ dirty' = FALSE /\ behind' = FALSE
    /\ blind' = FALSE
    /\ calls' = {} /\ requested' = 0
    /\ tstate' = [t \in Timers |-> "free"] /\ wake' = [t \in Timers |-> 0]
    /\ todo' = [t \in Timers |-> {}] /\ cur' = [t \in Timers |-> NoJob]
    /\ handle' = NoTimer /\ unstored' = {}
    /\ UNCHANGED <<now, historyVars, early>>

--------------------------------------------------------------------------------
(* The operations of the cron tool.  Each leaves a call that saves and asks for
   a timer.  enable_job and run_job have no caller in the program. *)

Call(op, j) ==
    /\ Running /\ events < MaxEvents
    /\ events' = events + 1
    /\ calls' = calls \union {<<op, j>>}
    /\ Reload
    /\ UNCHANGED <<now, bootVars, disk, torn, requested, timerVars, surplus, gone,
                   early, behind>>

(* The agent loop runs after start() has returned; before that only a job of an
   early timer can call the tool, which lets it remove and not add. *)
AddJob(j) ==
    /\ j \notin used /\ starting = "no"
    /\ Call("add", j)
    /\ used' = used \union {j}
    /\ mem' = [Current EXCEPT ![j] = Enabled(j, now)]
    /\ dirty' = TRUE
    /\ UNCHANGED <<ran, kept>>

(* Unknown and protected jobs are refused. *)
RemoveJob(j) ==
    /\ Present(Current, j) /\ j \notin Protected
    /\ Call("remove", j)
    /\ mem' = [Current EXCEPT ![j] = Absent]
    /\ kept' = kept \ {j}
    /\ dirty' = TRUE
    /\ UNCHANGED <<used, ran>>

(* list_jobs, get_job and status only reload: nothing arms the timer. *)
ListJobs ==
    /\ phase # "down" /\ stale
    /\ Reload
    /\ mem' = Current
    /\ dirty' = FALSE
    /\ UNCHANGED <<now, bootVars, disk, torn, calls, requested, timerVars,
                   historyVars, early, behind, events>>

(* Nobody has removed the job meanwhile, another process included. *)
StillThere(j) == Present(mem, j) /\ (stale /\ ~torn => Present(disk, j))

(* The second critical section of an operation; then it returns, whether the
   save succeeded or not. *)
SaveCall(c) ==
    /\ c \in calls
    /\ calls' = calls \ {c}
    /\ Save
    /\ requested' = requested + 1
    /\ kept' = IF c[1] = "add" /\ StillThere(c[2]) THEN kept \union {c[2]} ELSE kept
    /\ gone' = IF c[1] = "remove" THEN gone \union {c[2]} ELSE gone
    /\ UNCHANGED <<now, bootVars, timerVars, used, ran, surplus, early>>

(* Another process adds or removes a job.  It too reads a torn file as empty. *)
External ==
    /\ events < MaxEvents
    /\ events' = events + 1
    /\ \E j \in Jobs \ Protected :
        \/ /\ j \notin used
           /\ used' = used \union {j}
           /\ disk' = [disk EXCEPT ![j] = Enabled(j, now)]
           /\ kept' = kept
        \/ /\ Present(disk, j)
           /\ used' = used
           /\ disk' = [disk EXCEPT ![j] = Absent]
           /\ kept' = kept \ {j}
    /\ torn' = FALSE
    /\ stale' = (phase # "down")
    /\ UNCHANGED <<now, bootVars, mem, calls, requested, timerVars, ran,
                   surplus, gone, early, dirty, behind, clobbered, blind>>

--------------------------------------------------------------------------------
(* The timer *)

(* Mutant of TimerFor: a timer sleeps until the latest run. *)
TimerForLast(t) ==
    \E j \in Jobs :
        /\ Scheduled(mem, j)
        /\ \A i \in Jobs : Scheduled(mem, i) => mem[j].next >= mem[i].next
        /\ wake' = [Wakes EXCEPT ![t] = mem[j].next]

(* The timer sleeps until the earliest run. *)
TimerFor(t) ==
    \E j \in Jobs :
        /\ Scheduled(mem, j)
        /\ \A i \in Jobs : Scheduled(mem, i) => mem[j].next <= mem[i].next
        /\ wake' = [Wakes EXCEPT ![t] = mem[j].next]

(* Mutant of ArmRequested: an arm that nobody asked for. *)
ArmUnasked == requested' = requested - 1

ArmRequested == requested > 0 /\ requested' = requested - 1

(* arm_timer_async up to the spawn: the task in the slot is aborted, and a
   timer is spawned if the service runs and something is scheduled. *)
Arm ==
    /\ ArmRequested
    /\ AbortHandle
    /\ blind' = FALSE
    /\ IF Running /\ \E j \in Jobs : Scheduled(mem, j)
       THEN \E t \in Timers :
              /\ Aborted[t] = "free" /\ \A u \in Timers : Aborted[u] = "free" => t <= u
              /\ TimerFor(t)
              /\ tstate' = [Aborted EXCEPT ![t] = "sleeping"]
              /\ unstored' = unstored \union {t}
              /\ surplus' = IF \E u \in Timers : Aborted[u] \in {"sleeping", "firing"}
                            THEN surplus + 1 ELSE surplus
       ELSE tstate' = Aborted /\ wake' = Wakes /\ UNCHANGED <<unstored, surplus>>
    /\ UNCHANGED <<now, bootVars, disk, torn, mem, stale, calls, used, kept, gone,
                   early, dirty, behind, clobbered, events>>

(* ... and its second critical section: the handle is stored over whatever
   another arm stored meanwhile, whose task goes on without one. *)
StoreHandle(t) ==
    /\ t \in unstored
    /\ unstored' = unstored \ {t}
    /\ IF tstate[t] = "done"
       THEN handle' = NoTimer /\ tstate' = [tstate EXCEPT ![t] = "free"]
       ELSE handle' = t /\ UNCHANGED tstate
    /\ UNCHANGED <<now, bootVars, disk, torn, mem, stale, calls, requested, wake,
                   todo, cur, historyVars, early, dirty, behind, clobbered, blind,
                   events>>

(* on_timer: reload, and collect the due jobs. *)
Fire(t) ==
    /\ tstate[t] = "sleeping" /\ now >= wake[t]
    /\ tstate' = [tstate EXCEPT ![t] = "firing"]
    /\ wake' = [wake EXCEPT ![t] = 0]
    /\ Reload
    /\ mem' = Current
    /\ dirty' = (dirty /\ ~stale)
    /\ todo' = [todo EXCEPT ![t] = {j \in Jobs : Due(Current, j)}]
    /\ early' = IF Recomputing /\ \E j \in OneShots : Due(Current, j)
                THEN early + 1 ELSE early
    /\ UNCHANGED <<now, bootVars, disk, torn, calls, requested, cur, handle,
                   unstored, historyVars, behind, events>>

(* execute_job up to the callback; a job removed meanwhile is skipped.  The
   order of the jobs in the store is left open. *)
Execute(t, j) ==
    /\ tstate[t] = "firing" /\ cur[t] = NoJob /\ j \in todo[t]
    /\ todo' = [todo EXCEPT ![t] = @ \ {j}]
    /\ IF Present(mem, j)
       THEN /\ cur' = [cur EXCEPT ![t] = j]
            /\ ran' = [i \in OneShots |-> IF i = j THEN ran[i] + 1 ELSE ran[i]]
       ELSE UNCHANGED <<cur, ran>>
    /\ UNCHANGED <<now, bootVars, disk, torn, mem, stale, calls, requested, tstate,
                   wake, handle, unstored, used, surplus, kept, gone, early, dirty,
                   behind, clobbered, blind, events>>

(* execute_job after the callback *)
AfterRun(s, j) ==
    IF ~Present(s, j) THEN s
    ELSE IF j \in OneShots THEN [s EXCEPT ![j] = Absent]
    ELSE [s EXCEPT ![j] = [@ EXCEPT !.next = NextRun(j, now)]]

(* The state update after the callback of job j. *)
JobDone(j) ==
    /\ mem' = AfterRun(Current, j)
    /\ dirty' = (Present(Current, j) \/ (dirty /\ ~stale))
    /\ Reload
    /\ kept' = IF j \in OneShots THEN kept \ {j} ELSE kept

CallbackReturns(t) ==
    /\ cur[t] # NoJob
    /\ JobDone(cur[t])
    /\ cur' = [cur EXCEPT ![t] = NoJob]
    /\ UNCHANGED <<now, bootVars, disk, torn, calls, requested, tstate, wake, todo,
                   handle, unstored, used, ran, surplus, gone, early, behind, events>>

(* Mutant of TimerEnds: a timer that ran its jobs is not armed again. *)
TimerEndsUnarmed(t) ==
    /\ tstate[t] = "firing" /\ todo[t] = {} /\ cur[t] = NoJob
    /\ tstate' = [tstate EXCEPT ![t] = Ended(t)]
    /\ handle' = IF handle = t THEN NoTimer ELSE handle
    /\ Save
    /\ UNCHANGED <<now, bootVars, calls, requested, wake, todo, cur, unstored,
                   historyVars, early>>

(* The end of on_timer: save, and ask for the next timer. *)
TimerEnds(t) ==
    /\ tstate[t] = "firing" /\ todo[t] = {} /\ cur[t] = NoJob
    /\ tstate' = [tstate EXCEPT ![t] = Ended(t)]
    /\ handle' = IF handle = t THEN NoTimer ELSE handle
    /\ Save
    /\ requested' = requested + 1
    /\ UNCHANGED <<now, bootVars, calls, wake, todo, cur, unstored, historyVars,
                   early>>

Tick ==
    /\ now < MaxTime
    /\ now' = now + 1
    /\ UNCHANGED <<bootVars, disk, torn, mem, stale, calls, requested, timerVars,
                   historyVars, early, dirty, behind, clobbered, blind, events>>

--------------------------------------------------------------------------------
Service(t) ==
    \/ StoreHandle(t) \/ Fire(t) \/ CallbackReturns(t) \/ TimerEnds(t)
    \/ \E j \in Jobs : Execute(t, j)

Operation(j) ==
    \/ Register(j) \/ AddJob(j) \/ RemoveJob(j)

Starts == StartLoad \/ StartRecompute \/ StartSave

Next ==
    \/ Boot \/ Start \/ Starts \/ Stop \/ Kill \/ External \/ Tick
    \/ Arm \/ ListJobs
    \/ \E t \in Timers : Service(t)
    \/ \E j \in Jobs : Operation(j)
    \/ \E c \in calls : SaveCall(c)

Spec == Init /\ [][Next]_vars

(* Tasks are run by tokio, and a callback ends: the turn it awaits has
   timeouts on the model and on the tools. *)
Fairness ==
    /\ WF_vars(Arm) /\ WF_vars(Starts)
    /\ WF_vars(\E c \in calls : SaveCall(c))
    /\ \A t \in Timers : WF_vars(Service(t))

FairSpec == Spec /\ Fairness

--------------------------------------------------------------------------------
(* Properties *)

(* Somebody is going to look at the store and arm a timer. *)
ArmComing ==
    \/ requested > 0 \/ calls # {} \/ starting # "no"
    \/ \E t \in Timers : tstate[t] = "firing"

(* No wakeup is lost.  Whatever operations, timers and arms overlap, each
   scheduled job of a running service has a timer that wakes no later than it
   is due, or an arm is still to come.  A store reloaded behind the timer's
   back (by listing jobs after another process changed it) waits for the next
   arm. *)
NoLostWakeup ==
    Running /\ ~blind =>
        \A j \in Jobs : Scheduled(mem, j) =>
            \/ ArmComing
            \/ \E t \in Timers : tstate[t] = "sleeping" /\ wake[t] <= mem[j].next

(* A one-shot reminder fires once.  Each further run by a timer has a cause of
   its own: the callback was cut off because the timer was armed anew while it
   ran; two arms overlapped and left two timers; or, after a kill that cut the
   first run off, a timer collected the overdue job between running = true and
   the recompute of start().  Any later start drops an overdue reminder.  What
   is said holds as long as no change of the store was lost (clobbered), which
   may bring back a reminder that has run. *)
OneShotOnce ==
    ~clobbered =>
        \A j \in OneShots : ran[j] <= 1 + surplus + early

(* The store keeps its promises over failing saves.  A job whose add returned is
   in jobs.json until it is removed or has run, and one whose removal returned
   is not; if a save failed since the last one that succeeded, memory still has
   it right, and the next save makes up for it.  Three things break the promise
   (clobbered): a write of another process that crosses one of this process; a
   kill in the middle of a write, or before a failed save was made up for; and a
   reload, before that, of a file that a failed save left torn. *)
AckedIsDurable ==
    ~clobbered =>
        /\ \A j \in kept : /\ behind \/ Present(disk, j)
                           /\ phase # "down" /\ (stale => torn) => Present(mem, j)
        /\ \A j \in gone : (behind \/ ~Present(disk, j)) /\ ~Present(mem, j)

(* A due job is run, removed or disabled in the end, as long as the service
   runs. *)
DueIsServed ==
    \A j \in Jobs :
        (Running /\ ~blind /\ Due(mem, j)) ~> (~Running \/ blind \/ ~Due(mem, j))
================================================================================
