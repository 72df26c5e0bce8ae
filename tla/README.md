# Verification of rust-bot

TLA+ models of rust-bot's crash recovery, session store, web chat control and cron
service, with TLC runs and TLAPS proofs. Paths
are relative to the repository; `agent/`, `session/`, `bus/`, ... are below
`src/`. `PROJECT.json` holds the runs, the map from definitions to source lines,
the hazards and the findings.

    tlc -workers 2 -config Durability_core.cfg Durability    # a run
    tlapm ToolRecovery_proofs.tla                            # a proof module

## 1. The system

rust-bot is a chat agent. Channels publish inbound messages; the agent loop runs
each as a *turn* (model requests and tool calls) and publishes the answer. The
gateway process may be killed at any moment and must finish what it accepted.

| Component | State | Operations | Talks to |
|---|---|---|---|
| Run journal (`session/journal.rs`, `journal_file.rs`) | one append-only file per session; in-memory sequence counter | append, scan, rewrite, delete | called by the ledger, the turn journal and recovery |
| Inbox ledger (`session/inbox.rs`) | folded from the journal's `inbox` records | admit, mark processing / done, compact, plan re-drive | guard of the bus; called by dispatch and startup |
| Message bus (`bus/queue.rs`) | inbound and outbound queue | publish, republish, consume | channels, agent loop |
| Agent loop (`agent/agent_loop.rs`) | session locks, running tasks, session cache | run, dispatch, process, restore, persist, `/stop`, `/new`, resume, re-drive | everything |
| Agent runner (`agent/runner.rs`, `checkpoint_payload.rs`) | messages of the turn | model requests, tool batches, checkpoints | tool pipeline, turn journal |
| Tool pipeline (`agent/tool_pipeline.rs`, `turn_journal.rs`) | calls in flight | prepare, authorise, begin, execute, finish | journal, tools, hooks |
| Recovery (`agent/recovery.rs`, `resume.rs`) | none: decisions over journal records | fold calls, restore, prune, plan resumes | agent loop |
| Session manager (`session/manager.rs`) | session cache, transcript files, archive, tombstones | save, reset, delete, evict, rename, title | agent loop, consolidator, WebSocket channel |
| Consolidator, auto-compaction (`agent/memory.rs`, `autocompact.rs`) | a lock and a mark per session; `history.jsonl` | consolidate, compact idle sessions | session manager, inside a turn and in the background |
| Tool approval and question brokers (`agent/tool_approval.rs`, `question_broker.rs`, `cli/confirm_tools.rs`) | pending requests, grants of a chat | ask, answer, time out, revoke | pipeline, channels |
| Subagents (`agent/subagent.rs`) | tasks by session | spawn, cancel, announce | bus |
| ACP (`agent/acp/`) | child agents, workspace locks | start, prompt, cancel, escalate | child processes |
| WebSocket channel (`channels/websocket/`, `session/websocket_turns.rs`) | connections, turn registry, transcript | envelopes, turn events, stop, clear, delete | bus, session manager, approval broker, `abort_session` |
| Cron (`cron/`, `agent/tools/cron.rs`) | job store in memory and in `jobs.json`, one timer task | add, remove, list, start, stop, arm, fire | `process_direct`, in the callback of a job |
| Heartbeat (`heartbeat/`) | none | a turn at an interval | `process_direct` |
| REST, CLI (`api/`, `cli/`) | requests | `process_direct`, past the bus and the session lock | agent loop |
| Providers, security, config, command line, web clients | files, tokens, sockets | | |

**What is hard here.** The kill: eleven durable writes happen on the way from a
published message to a closed request, and a restart decides from what it
finds. Interleaving: startup resumes and re-drives while new messages are
consumed, `/stop` and `/status` run beside the turn, channels redeliver.
Partial failure: an append may be torn, fail, or fail after its bytes landed.
Snapshots: a turn, a consolidation and an idle compaction each work on a clone of
the session and save it after an await. Control: stopping, clearing and deleting
abort tasks without waiting for them. Timers: arming a timer aborts the task of
the one before, which may be running a job.

**What makes each part correct.** Journal: an acknowledged record is read back,
in order. Ledger: no accepted request is lost, run twice without a kill, or
forgotten while unfinished. Turns: one at a time, given up when they keep
killing the process, merged once. Tools: an unsafe call runs at most once, a
safe one at most twice, and the transcript tells the model the real outcome.
Sessions: what was saved stays in the file or the archive until it is cleared or
deleted, and then stays away. Chats: a call is either put to the user or covered
by what he granted; a chat is shown as running as long as its turn runs. Cron: a
scheduled job always has somebody to wake for it, and a reminder fires once.

## 2. Modules

| Module | What it is |
|---|---|
| `RunJournal` | the journal file and its counter |
| `RunJournal_proofs` | theorems about it |
| `RecoveryPlan` | the decisions of recovery as operators over records; no variables |
| `RequestLife` | what the ledger promises about one request: unknown, pending, settled |
| `Durability` | one session across kills; EXTENDS `RecoveryPlan`, implements `RequestLife` |
| `RecoveryPlan_proofs` | lemmas about these operators: order, parts of a journal, the ledger |
| `Durability_proofs` | theorems about `Durability`, and the refinement of `RequestLife` |
| `ToolRecovery` | the tool calls of one turn across kills |
| `ToolRecovery_proofs` | theorems about it |
| `SessionStore` | the transcript of one session and every task that changes it |
| `SessionStore_proofs` | theorems about it |
| `SessionCopies_proofs` | more of them: clear, names, order and history |
| `Chats` | one web chat: turn registry, approvals, stop, clear |
| `Chats_proofs` | theorems about it |
| `Cron` | the cron service: job store, timer, operations |
| `Cron_proofs` | theorems about it |

Each component module can be read alone. `Durability` treats the journal as a
sequence of records and the turn's tool work as one step; `RunJournal` and
`ToolRecovery` are what justifies both. The composition is by argument, not by
a checked refinement. In the same way `SessionStore` has the session file that
`Durability` calls the transcript, without the journal, and with all the other
writers; `Chats` has the turns of both without their content. The definitions whose comment begins with "Mutant of" are not part
of a specification: each is a version of the next definition with a plausible
bug, and shows that a property would notice it.

**`RunJournal`.** The file is a set of lines ordered by `pos`; a record is its
sequence number, the identity of its append call and its owner. `AppendOk`,
`AppendFails` and `AppendKilled` are the outcomes of `FileJournalStore::append`:
the torn tail is terminated first, so every write is a line of its own. An I/O
error or a kill leaves nothing, a torn line, or the whole record. `Compact` is
`RunJournal::compact` with any choice of records; `CompactLedger` is
`InboxLedger::compact`, which rewrites and renumbers the ledger. `PowerLoss`
cuts anything that was not synced. `next` = 0 means the counter has not been
read from disk yet.

**`Durability`.** One session. `lane` is the task that holds the session lock;
its `pc` walks through `dispatch` / `process_message_inner` / `run_agent_loop`
(or `resume_turn_inner` when `resumed`) and stops at every durable write or
await. `startup` is the task spawned by `AgentLoop::run`. `waiting` is the set
of dispatch tasks before the lock, `bus` the inbound queue. Ordinary
messages, `/new` (`Resets`), `/stop` (`Stops`) and another priority command
(`Statuses`) are the kinds of request. A transcript message is a tuple: the
prompt of a request, the answer of a turn, a command turn, or the system
prompt. The session manager's mutex makes restore-and-save exclude other
writers but not a kill, hence the pc "restoring". `live` of a record replaces
the comparison of its timestamp with the process start. A request delivered again
is dropped by the guard; if it was answered, its stored reply is published once more
(`PublishDuplicate`, `Reply`), and the replies so caused are marked `redelivered`.

**`ToolRecovery`.** `log` is what `tool_call_states` folds for each call;
`phase` is the call in the running process. The result of a call is the number
of its execution, so that "the transcript shows the right result" can be said.
An append that fails may leave its record (`AfterFailure`).

**`SessionStore`.** One session: the cache, the file, the archive, and a *copy* in
every task that is going to save one. An element of a transcript is an exchange
(a user message and what follows it), numbered in the order of the saves; all of
the code's cuts are at user messages, so nothing smaller is needed. `turn` is,
per lane, `process_message_inner`: "begun" up to `maybe_consolidate_by_tokens`,
"consolidating" while its own pass runs, "ready", "running" with the copy it
took, "finishing" from the last await of the run to `persist_finished_turn`. The
lane "bus" has the session lock and is aborted by `abort_session`; "direct" is
`process_direct`. `pass` is whoever holds the consolidator lock: token
consolidation in a turn or in the background, or idle compaction, with the stages
pick, await, save. `Saves` is `SessionManager::save`: the hidden prefix is
appended to the archive, then the file is replaced, then the cache, and each
write may fail; `before` is what the caller left in the cache.

The archive is appended to in place. An append that fails or is killed
(`AppendsArchive`) leaves any number of whole lines and perhaps a part of one, and
`tail` says how the file then ends. The next append continues a torn line and
`load_archive` skips the glued line; behind a torn character it reads nothing at all
(`Readable`). A tail that only lacks its newline counts as torn. `archive` is what
`load_archive` returns, and `swallowed` what an append that succeeded put where it is
not read. `history.jsonl` is the set of exchanges its entries cover. An append to it
may fail, which is only logged while the pass goes on (`AppendsHistory`); a torn entry
(`tornLog`) swallows the next one, and `unlogged` remembers what a pass hid without an
entry. Deleting sets the tombstone, drops the cache and unlinks two files
(`Unlinks`). Either unlink may fail, the user is told so, and `leftover` is what then
stays on disk. Until the restart the key has a placeholder in memory instead of it
(`Reloaded`). `Existing` and `Live` are `get_session_internal` and
`get_or_create_session`. The WebSocket handlers of clear and delete are two steps
each (`socket` in between).

Left out: sizes (all exchanges count the same), the cap of five rounds of a
consolidation, the restore of a journal (`Durability`), the old metadata checkpoint,
saves that change other metadata, which interleave like `Rename`, and the cursor and
the trimming of `history.jsonl`, which drop its oldest entries on purpose. When a
session counts as idle is left open.

**`Chats`.** One chat. `phase` is how far a message is: announced in the registry,
queued on the bus, waiting for the session lock, running, asking the user,
expiring (its timeout fired), ending (the stretch from the return of the run to
its TurnEnd, which awaits nothing). Turns run by `process_direct` take no lock and
have no registration. `outbox` holds the TurnEnd events with the owner they name;
`Deliver` is the channel manager handing one to `handle_turn_end`. `step` is what
a connection handler, or the loop for `/stop`, does next: cancel the tasks,
publish the TurnEnd, revoke the grants, unregister the chat. Both answers to a
request let the turn go on, so approving and denying differ only in the grants.
`resolve_with_grant` is one step; the order of the bus and of the lock queue is
left open, which allows more than the code does. Messages of the web chat carry
no platform message id, so the inbox guard never drops one. A restart forgets
everything and is the initial state again. The question broker is the same
protocol without grants.

**`Cron`.** `mem` and `disk` are the store in memory and `jobs.json`; `stale` says
that the file changed since it was last read, which the next operation notices.
An operation is a change under the mutex (`AddJob`, `RemoveJob`) and a save under
the mutex (`SaveCall`); `requested` counts the spawned `arm_timer_async` tasks. A
save writes the file in place (`SaveWrites`) or fails (`SaveFails`), before the write
or in the middle of it, which tears the file; that is only logged, and the operation
returns as if it had succeeded. `dirty` says that memory has a change no save has
written, `behind` that a save of such a change failed. A boot registers the system
jobs (`Boot`, `Register`), then `start` takes the mutex four times: it sets `running`
(`Start`), reloads (`StartLoad`), recomputes the next runs (`StartRecompute`) and saves
(`StartSave`); the arm it then runs itself is counted with those that were asked for.
An arm left from the registration can run in between, and its timer can collect a
reminder that the recompute would have dropped (`early`). An arm is `Arm` and
`StoreHandle`, its two critical sections. A timer task sleeps,
reloads and collects the due jobs (`Fire`), runs each (`Execute`,
`CallbackReturns`), saves and asks for the next arm (`TimerEnds`). `External` is
the cron service of the command line agent, which changes the file and never
starts a timer. A cron expression is an interval; a timer finds no use for more
than "after now".

## 3. Runs

| Run | Instance | Shows |
|---|---|---|
| journal | 2 requests, 4 appends | acknowledged records survive; order and numbers increase until something renumbers |
| core | 2 prompts delivered twice, 2 kills, turns too old to resume, ledger of 1 | nothing lost; one more turn and answer per kill at most, stored replies sent again at most once per delivery; the crash loop ends; one open turn; answers saved once; the ledger refines `RequestLife` |
| control | 1 prompt that may panic, `/stop`, `/new`, 1 kill | turns stay serialised, no answer saved twice, a stopped request does not come back |
| live | 2 prompts, a priority command, 1 kill, fairness | every accepted prompt is closed; no save drops a prompt or an answer |
| tools | 3 calls, 2 of them safe, 3 restarts | executions bounded, results real, outcomes final |
| session | a registered and an unregistered lane, 3 exchanges, 3 events (commands, user actions, scans, failed or torn writes, failed unlinks, kills), consolidation at 2 exchanges | nothing saved undisturbed is lost (torn archive lines apart), reordered or comes back; a user's name stays; an idle mark goes away |
| chats | 2 messages, a direct turn, 2 tools, a connection and `/stop`, one call per turn, one grant, one stop, clear or revocation | no call without consent or request without a waiter; the registry tells the truth; turns end and the chat becomes idle |
| cron | a system job and a reminder, 2 timers, times 0 to 2, 2 events (operations, other processes, failed saves, kills) | no lost wakeup, no unexplained repetition, acknowledged changes stay, due jobs are served |
| journal_reuse, second, ended, own | the smallest instance that shows it | the findings below |

**Bounds.** `MaxAppends`, `MaxDeliveries`, `MaxCrashes` and `MaxRestarts` cap the
environment; nothing in the program is capped. Two prompts are the smallest
number with a queue, an interrupted turn and a newcomer at once; the second kill
meets the recovery from the first. Prompts differ only in identity. A ledger of
one entry makes every second compaction evict, and the second delivery then
comes before or after the request was forgotten. Four appends are enough for a
record, a torn one, a ledger compaction and a successor. Deadlock is not checked
because the bounded environment may stop. `durability.autoResume = false` needs
no run of its own for safety: it is a startup task that is never scheduled, and
safety is checked with every schedule. The model answers or fails at once, and a
turn's model requests and tool batches are one step: its intermediate
checkpoints differ only in the tool calls, which `ToolRecovery` covers.

`session`: two exchanges fill the budget and a third is cut off around them; three
events are enough for a failure or kill in the middle of an action that itself
needs one, and one after it. `chats`: with two messages of the bus one can be
registered, the other not; the direct turn asks at the same time as either; a
stop, clear or revocation meets every interleaving of the three, and the second
handler is `/stop` in the loop. A second event is not affordable with liveness;
the proofs cover the safety properties for any number. `cron`: times 0 to 2 make
the reminder due before, with and after the system job; two timers are what two
overlapping arms leave, and a third arm needs a third only when two are already
loose (the guard of `Arm` then waits, the proofs have any number). Two events are an
operation and what disturbs it: another operation, a failing save, a kill in the run of
a job and the restart after it.

**What the runs deliberately do not claim.** `OneMorePerCrash` fails with panics
(a panicked turn is answered and still resumed later), `LedgerImplementsLife`
and `QueuedNeverLost` fail with `/stop` and `/new` (section 4), so `control`
leaves them out. `CrashLoopBounded` counts per series of resumes. Two things
start a new one: the turn of another message that merges the dead turn first, and
a kill right after a resume has merged the dead turn and before its continuation
is in the journal, when the next message prunes what told the attempts
(`AttemptsLost`). The latter needs three kills, one more than `core` has; the
theorem of section 5 covers it.
`OneMorePerCrash` counts the answers of the agent and the stored replies apart: the
former are bounded by what the ledger accepted and by kills, the latter by deliveries.
`NothingLost`, `WipedStaysWiped` and `NameKept` are about what was saved, cleared
or named while no other task held a copy; `NothingLost` leaves out what was appended
behind a torn tail of the archive, and still holds of what was safe before a save next
to a copy. `OrderKept` ends with the first save next to a copy or cut off,
`HiddenIsCovered` with the first cut applied to a session that changed since it was
chosen, and it leaves out what a pass could not log. `DeletedStaysDeleted` leaves out
what failing unlinks left. `AckedIsDurable` asks memory instead of the file while a
failed save is not made up for (`behind`). It ends, as `OneShotOnce` does, with a lost
change (`clobbered`): a write of another process that crossed one of this process, a
kill in the middle of a write or before a failed save was made up for, or the reload
of a file that a failed save tore. `OneShotOnce` allows a run per surplus timer and per
early one. The deviations below say what happens in each case. `ShownWhileRunning` is about turns
that were registered and whose chat was not unregistered as a whole.
`SeqIncreasing` holds until a ledger compaction or a failed append that left its
record; the history variable `renumbered` says which happened.

**Fairness.** `FairSpec` is weak fairness of the program's steps taken together:
as long as a task is ready (`Ready`), some task runs. That is the least tokio's
executor gives, and it suffices because every task ends; the model call has a
timeout. It is written out as "infinitely often nothing is ready, or infinitely
often a step is taken" because TLC evaluates the ENABLED of so large an action
slowly. Publishing and kills are not fair: nobody must send a message, and kills
are finitely many. With turns too old to resume the property does not hold: such
a turn waits for the next message. `SessionStore` has weak fairness of each
turn's steps and of the pass: the model answers or times out and the consolidator
lock is a fair mutex. `Chats` has it for the steps of each message that are up to
the runtime (polling, timeouts, drops, the run that returns because iterations and
waits are bounded), for each handler and for the outbound dispatcher; answering,
stopping and sending are never fair. `Cron` has it for arms, saves and each timer
task; a callback is a turn, with timeouts on model and tools. The clock and the
operations are not fair.

## 4. Findings

Each is a run that TLC ends with a counterexample; `PROJECT.json` quotes the
line of the repository it contradicts.

| Run | What the code does |
|---|---|
| journal_reuse | compacting the ledger gives a record the number of the next append |
| second | killed after the prune, before mark_done: a second fresh turn |
| ended | killed after turn_end, before the save: the answer is in no store |
| own | a new message overtakes the resume: its answer is sent as the old reply |

**Further deviations.** The same configuration files with another INVARIANT or
another request kind show more of them; they have no run of their own.

| Invariant of `Durability` | Instance | What the code does |
|---|---|---|
| `RestoredIsSaved` | 2 prompts, 1 kill | killed after turn_restored, before the save: the merged turn is gone ("merged exactly once", docs/DURABILITY.md:50) |
| `PromptSavedOnce` | 2 prompts, 2 kills | a resumed turn killed again: the prompt is in the transcript twice |
| `AnsweredWasSent` | 2 prompts, 2 kills | killed after closing a resumed request: no reply, and no re-drive |
| `AnsweredNotRedriven` | with a `Statuses` request | a priority command stays queued in the ledger and runs again after a restart |
| `QueuedNeverLost` | with a `Stops` request | `/stop` closes messages sent after it; a kill loses them |
| `QueuedNeverLost` | with a `Resets` request | `/new` deletes the ledger of messages queued behind it; a kill loses them |

`NeverLost` in `SessionStore`, with the constants of `SessionStore.cfg`, contradicts two
comments of the session manager, "so no raw conversation history is ever lost"
(session/manager.rs:99) and "a duplicated (never a missing) range in the archive"
(session/manager.rs:1127). A save that fails, or is killed, in the middle of the archive
append leaves a part of a line. The next save appends behind it, trims the session file
and succeeds, and the message whose line was glued to the torn one is in neither: the
same prefix is archived again, its first message is skipped on reading.

Still of `Durability`:

- The attempts of a request can be counted from zero again, as section 3 says of
  `CrashLoopBounded`, so a turn may be resumed more often than docs/DURABILITY.md:86
  allows ("than maxResumeAttempts times").
- `LedgerImplementsLife` fails with one /stop or one /new as well: an entry closed
  while its message is on the bus is marked again, and a pending one is deleted.
  `StoppedNotRedriven` fails when a channel delivers a request
  twice, and `OneMorePerCrash` with panics (2 prompts, 2 kills).
- With panics, `LedgerImplementsLife` fails: the dispatcher answers and closes a
  panicked request whose turn stays open, a restart resumes that turn while the
  request, delivered again, is accepted anew, and a settled entry is marked
  processing again.

Also: a command turn saved beside a running turn is overwritten by the snapshot
that turn saves (why `TranscriptOnlyGrows` is about prompts and answers); a
failed append whose bytes were written leaves its record while the counter
stays; and a refused replay is recorded as `Blocked`, the status of calls that
never ran.

*Sessions.* These show up when the exception of a property is dropped; what is said of
the journal of a deleted session and of the heartbeat is known from reading.

- A turn saves the session it copied before the run: a rename, a pin or a command
  turn saved meanwhile is undone (without `Holders` in `SavesNew` or `Rename`).
- Idle compaction saves its copy, too: a turn saved during its summary is lost, and
  a conversation cleared meanwhile comes back. The handler of clear aborts "so a
  stale write cannot land on the just-cleared session" (runtime.rs:5315), but does
  not wait for the aborted turn and does not reach the passes.
- Token consolidation applies the boundary it chose before the summary to whatever
  the session is afterwards: after a clear and new messages, messages nobody
  summarised are hidden from the model (`misfiled`).
- A save from an old copy archives the same messages again; a crash or a failed
  write between archive and file does, too.
- `append_history` only logs that it failed, and `archive` returns the summary all the
  same: messages are hidden from the model that `history.jsonl` does not have
  (`unlogged`).
- A tombstone stops the saves of a deleted session but not the journal of a turn in
  flight. A delete that is killed in the middle leaves its archive; one whose unlink
  fails reports it and leaves the file as well, the session is gone as long as the
  process runs and there again after a restart (`leftover`).
- The heartbeat trims its session without archiving what it drops.

*Chats.* The model has the first three; the others are known from reading.

- A TurnEnd without an owner (of an abort, `/stop`, or a message that was not
  registered) clears the registration of the next turn, and the turn of a second
  message runs unregistered: the chat is shown idle while a turn runs, though
  runtime.rs:1788 says there is "never a second turn". A Stop click for a turn
  that has ended then reaches that turn.
- A message that is the bare name of a command ("help") runs as a turn and is not
  registered: `builtin_command_starts_agent_turn` makes the slash optional, the
  router does not.
- A grant answered between clear's abort and the end of the aborted turn, or by a
  turn of `process_direct`, which clear does not abort, is in force in the cleared
  chat; an answer that loses to the timeout still records its grant though its call
  was denied.
- `/new` in a web chat keeps the grants: `WebsocketsAskHook` does not implement
  `revoke_grants`, though command/builtin.rs:178 says "nothing stays pre-approved".
- A grant for a turn is overwritten by the grant of a concurrent turn, which makes
  the first turn ask again. A tab that attaches while a request is answered, or any
  tab when one times out, keeps a card nobody withdraws.
- The question tool keeps its chat in one slot shared by all sessions
  (agent/tools/question.rs): a turn of another chat can redirect a question.

*Cron.*

- Adding or removing a job while a job runs arms the timer, which aborts the task
  that runs it: the job is cut off and runs again. A job that removes itself aborts
  its own turn.
- Two arms that overlap leave two live timers and both run what is due
  (`surplus` in `OneShotOnce`).
- An overdue reminder is not run after a restart: `compute_next_run` has no run for
  a time that has passed, and it stays in the store for ever.
- `jobs.json` is written in place: a kill or a failing write tears it, and a file that
  does not parse is an empty store, which the next reload takes over and the next save
  makes durable.
- A save that fails is only logged: adding or removing a job reports success, and a
  kill before the next save undoes it (`behind`, without its exception in
  `AckedIsDurable`).
- An arm left from the registration of the system jobs may run after `start` has set
  `running` and before it recomputes the store: its timer runs an overdue reminder, a
  second time when a kill had cut off the first run or the save after it (`early` in
  `OneShotOnce`).
- `list_jobs` and `status` reload a changed file without arming the timer, so a job
  another process added waits for an unrelated arm (`blind`).

## 5. Proofs

All theorems hold for every value of the constants; the assumptions are the
named `ASSUME`s of the modules (a finite set of requests, the owner of turn
records outside it, safe calls among the calls, bounds natural) and, in five
theorems about `Durability`, hypotheses on the session that each of them states.

*`RunJournal_proofs`.* `TypeCorrect` is inductive by itself, given that the
ranks of the compacted ledger records are natural (`RefoldedType`).
`AckedNeverLost` strengthens the property by: every line lies at or before
`top`, and every synced record at or before `synced`, which is where a power
loss cuts. `SeqAlwaysIncreases` strengthens it, as long as nothing was
renumbered, by: positions are unique and below `top`, identities below
`nextId`, and every number below the counter when it is known.

*`ToolRecovery_proofs`.* `UnsafeRunsOnce`: an unsafe call that was begun is out
of the idle phase for the rest of the process, and a later process replays only
declared-safe calls. `ShownIsReal` and `FinishedNeverRuns` rest on
`FinishedInv`: a call on the replay list or in flight has no outcome yet, and a
journaled outcome is the number of the last execution. `SafeRunsTwice` rests on
`RetryInv`: each execution has an intent of its own in the journal or was begun
without one, and replay needs at most one intent. The journal mode may differ
from process to process.

*`SessionStore_proofs`.* The inductive invariant is `TypeOK`, `Holding` (a lane
holds a copy exactly while it runs or saves, a pass at least when it saves; the
turn whose pass it is waits for it; idle compaction leaves what it should) and
`Sound`: every copy that may still be saved (the cache, the turns', the pass's)
together with the archive has everything that is safe, contains nothing that was
never made, and nothing forgotten unless the key is tombstoned, and the disk
likewise. It is needed because a save replaces the file by the copy: whatever the
copy lacked is lost. Safe means kept, `safe \ swallowed`: an append behind a torn tail
takes out exactly what it made unreadable. On disk there may be what a deletion left,
as long as the tombstone stands. `SavedIsKept` and `DeletionHolds` follow.

*`SessionCopies_proofs`.* Four more invariants of the same shape, each inductive with
`TypeOK` and `Holding`: whatever a task may still save is as good as what is on
disk. `Unwiped`: no copy and no file has anything of what was cleared
(`ClearedStaysCleared`). `Renamed`: every copy carries the name the user gave, and the
key is not tombstoned (`NameStands`). `Ordered`: every copy continues the archive in
order, and the archive ends with a whole line (`TranscriptInOrder`); it is about
copies, as the next save appends the hidden prefix of one of them. `Filed`: what a
copy hides is `Logged`, in the history or remembered as unlogged, or will be when the
pass that holds it ends (`HistoryCovers`). The exceptions of the properties
(`overlapped`, `misfiled`, tasks that hold a copy) are in the invariants as they
stand in the properties.

*`Chats_proofs`.* `TypeCorrect` needs `Asked` (who asks has a tool) for the grants.
`RequestsAreWaitedFor` rests on the request being dropped by the guard of the call
that waits for it, and on nothing else. `GrantsCover` rests on `Backed`: every grant
in force was given since the last revocation. `RunningIsReal` and
`RegistrationIsKept` share the invariant `Known`: owners of the registry belong to
messages under way, a TurnEnd on the bus to one that is over, only tasks of the bus
are aborted, the registered message has an owner or is over, and if it was aborted
something is on the way that unregisters the chat.

*`Cron_proofs`.* `WakeupsKept` strengthens the property by `CurFiring`: a callback is
awaited by a timer task that is firing, so that an arm is still to come when the
state of its job is updated. `StoreKeepsItsWord` and `ReminderFiresOnce` share `Stored` (what is
known, written and scheduled of a job) and `Idle` (no timer task before the service
starts). The first adds `AckInv` (`RemovalsHold`, `KeptHold`, `GoneHold`,
`BehindHold`): an acknowledged job is kept in memory and on disk together, or the save
that will bring them together is under way, or a save failed, and then memory has the
change for the next one; only a failed save leaves a torn file behind a process that
runs. The second counts:
every timer beside the first is `surplus` (`AliveBound`), and a one-shot job is
collected after its time only (`Overdue`). A job that a callback now running does not account
for is `Settled`: it has left the store (`Dropped`), or what was run and what is in hand
together (`Debt`) stay within `1 + surplus + early` while it has no run any more
(`Missed`) or the recompute of a start is still to come (`Unstarted`), before which only
an early timer collects it (`OnceInv`).

*`Durability_proofs`.* The journal is a sequence that is filtered by prune and
compaction and read through the order of its records. Where a proof needs no order,
`QuietJournal` says that a step writes no record that tells something and opens no
turn; where it does, `RecoveryPlan_proofs` has the facts: `Part` keeps the relative order of
the records it takes (so that the last state of a ledger entry is the same before and
after), a longer sequence has a longer part, and each kind of append changes exactly
one entry.
`InOrder` is defined with cardinalities, not with recursion, for that reason.

- `TypeCorrect`: `Typed` types each group of variables for the turns given out so far.
- `OneOpenTurn`: `OpenTurns` says which turns may be open at each pc. At most one is
  to restore; while the session is being restored and until the new turn is in the
  journal there is none.
- `AnswersSavedOnce`: `SavedOnce` adds that a turn that still can be merged has its
  answer in no transcript. The answer of a turn comes from the save or from a later
  merge, never from both.
- `TurnsGivenUp`: the attempt a resume starts with is read from the journal, so
  `Counted` ties the length of a series to the attempt in the start record of its
  last turn, in the lane, and in the startup task on its way there, each of which is
  one step later than the one before.
- `PromptsNotLost`: `PromptsSafe`. A prompt without turn and reply is in the ledger
  with its message; what closes an entry (the lane, the re-drive) does so only for
  a request that has had a turn or a reply. /stop and /new close and delete entries on
  purpose; the theorem assumes that the session has none.
- `LedgerRefines`: `HeldOnce`. A request has at most one holder (bus, a waiting
  task, the lane, the resume, the re-drive), a holder's request is pending, and so
  is that of an open turn. Hence only a pending request is settled or marked, and
  startup, which tells by `live` what is new, never re-drives what this process
  has. Each action is then an `Accept`, a `Settle`, a `Forget` or a stutter of
  `RequestLife`. Without /stop and /new as before, and without panics, since the code
  answers a panicked request whose turn stays open (section 4).
- `OneMorePerKill`: `OneMore` counts the turns and answers still to come with those
  there are (`AnswersTo`): every place of the request in the queues, the lane that has it, and one
  for what a kill left, be it an open turn, a stale ledger entry, a resume or a
  re-drive (`Queued`, `ToRun`, `ToAnswer`). An admission adds one, a kill adds one and
  empties the queues, and every other step turns one to come into one that was or
  drops it. No holder has to be unique, so /stop and /new may happen; a panic may
  not, since a resumed turn that panics leaves its entry stale and is found again. A
  stored reply belongs to a delivery that the ledger did not accept (`StoredCounted`),
  so that all replies together are bounded by deliveries and kills.
- `StoppedStays`: `StopSafe`. A stopped request was accepted, is not on the bus, has
  no message in the ledger, and no re-drive has it. It assumes `MaxDeliveries <= 1`: a
  second delivery after the closed entry was evicted is a new request to the code.
- `SavedChatGrows`: `Grown` says that the chat on disk is a prefix of the chat in
  the cache and, while a turn runs, of the session it will save. `SessionsApart`, a part
  of `SavedOnce`, gives that nobody else saves while a restore is under way. It assumes
  a session without /new, which clears the transcript.

The hypotheses hold in the runs that check these properties (`core`, `control` for
`StoppedStays`, `live` for `SavedChatGrows`), and each is needed: section 4 has the
counterexample without it, or the property is about what the command is there to do.

*Only model-checked.* Every safety property of a passing run is a theorem. The
liveness properties `AcceptedIsSettled`,
`MarkGoesAway`, `MessagesEnd`, `IdleAgain` and `DueIsServed`: fairness is out of the
prover's reach. The runs that end in a counterexample have nothing to prove.

## 6. Not modelled

Eviction of ledger entries by age; several sessions (journals, locks and
ledgers are per session; the concurrency gate and `maxConcurrentResumes` only
delay); system messages, and with them subagents, whose results they are; failing
ledger writes (the message is then accepted without a trace, as documented); the
metadata checkpoint of sessions older than the journal; in `Durability`, callers
without the session lock: that `process_direct` may restore a live turn as
interrupted is known from reading, not from a run. Forks, imports and listings of
sessions; connections, authentication, files and rendering of the WebSocket
channel; the prompts of the command line; `enable_job` and `run_job` of the cron
service, which nothing calls. Most of the repository's lines are network and file
formats, configuration, rendering, command line and tests: they keep no state
that interleaves with anything, and conversions of text are better tested. The
components with status `not_modelled` in `PROJECT.json` each give a reason.

## 7. What comes next

1. `Durability` with a second lane for `process_direct`, and `SessionStore` below it:
   a refinement instead of an argument.
2. Subagents and the system messages that announce their results.
3. The ACP manager with `WorkspaceLock`.
4. An abstract journal that `RunJournal` implements, proved step by step as
   `LedgerRefines` is, and what the theorems that exclude /stop, /new and panics leave
   true when these are there.
