------------------------------ MODULE SessionStore ------------------------------
(***************************************************************************)
(* The transcript of one session: the session manager's cache, the session *)
(* file and its archive (session/manager.rs), and the tasks that change    *)
(* them.  A turn copies the session, runs for as long as the model takes   *)
(* and saves the copy with its exchange appended; token consolidation and  *)
(* idle compaction (agent/memory.rs, agent/autocompact.rs) wait for a      *)
(* summary and then hide the messages it covers; commands, renames, title  *)
(* generation, /new, clear and delete come in between.  Only a single      *)
(* access to the manager is under its mutex.                               *)
(*                                                                         *)
(* An exchange, a user message and what follows it up to the next one, is  *)
(* one element of a transcript, numbered in the order of the saves: every  *)
(* cut the code makes is at a user message.                                *)
(***************************************************************************)
EXTENDS Integers, Sequences, FiniteSets

CONSTANTS
    Lanes,         \* where turns run: the bus, and process_direct (REST, cron)
    Registered,    \* lanes whose turns are in active_tasks, serial and abortable
    Budget,        \* exchanges that make token consolidation begin
    Target,        \* exchanges it cuts back to
    Suffix,        \* exchanges idle compaction leaves visible
    NoSession,
    MaxExchanges,  \* bound: exchanges ever made
    MaxEvents      \* bound: commands, user actions, scans, failures, kills

(* The lanes are none of the other tasks that save the session. *)
ASSUME LanesAssumption ==
    /\ Registered \subseteq Lanes
    /\ Lanes \cap {"background", "pass", "command", "rename", "title"} = {}
ASSUME SizesAssumption ==
    Budget \in Nat /\ Target \in Nat /\ Suffix \in Nat /\ 0 < Target /\ Target < Budget
ASSUME BoundsAssumption == MaxExchanges \in Nat /\ MaxEvents \in Nat

VARIABLES
    file,        \* the session file
    archive,     \* the archive file: what saves have cut off, as it is read back
    tail,        \* how the archive file ends: with a whole line, in a line, in a character
    swallowed,   \* exchanges appended behind such a part, and read no more
    cache,       \* the session manager's copy, if it has one
    deleted,     \* the key is tombstoned (until the process ends)
    turn,        \* per lane, the turn under way: its phase and its copy
    pass,        \* the consolidation that holds the session's consolidator lock
    background,  \* finished turns whose background consolidation is to come
    archiving,   \* the session is marked for idle compaction
    titling,     \* a title is being generated
    socket,      \* the WebSocket handler between two steps of clear or delete
    history,     \* exchanges that history.jsonl covers, summarised or in full
    tornLog,     \* history.jsonl ends in a part of a line
    made,        \* exchanges made so far
    (* history *)
    safe,        \* exchanges saved while nobody held a copy without them
    wiped,       \* exchanges cleared while nobody held a copy
    unlogged,    \* exchanges hidden by a pass whose entry never got to history.jsonl
    forgotten,   \* exchanges a deletion removed
    leftover,    \* what the last deletion left on disk
    misfiled,    \* a pass hid other messages than those it had counted
    overlapped,  \* a save was made next to a copy, failed or was cut off
    named,       \* the user named the session while nobody held a copy
    events

files == <<file, archive, tail, swallowed>>
log == <<history, tornLog, unlogged>>
ghosts == <<safe, wiped, forgotten, leftover, misfiled, overlapped, named>>
vars == <<files, cache, deleted, turn, pass, background, archiving,
          titling, socket, log, made, ghosts, events>>

Titles == {"none", "generated", "renamed"}
Fresh == [msgs |-> <<>>, lc |-> 0, title |-> "none"]

Sessions == [msgs : Seq(Nat), lc : Nat, title : Titles]
ASSUME NoSessionAssumption == NoSession \notin Sessions
SessionsOrNone == Sessions \cup {NoSession}

Tails == {"whole", "line", "character"}
Phases == {"idle", "begun", "consolidating", "ready", "running", "finishing"}
NothingLeft == [file |-> NoSession, archive |-> <<>>]
NoTurn == [phase |-> "idle", copy |-> NoSession]
NoPass == [kind |-> "none", by |-> "background", stage |-> "pick", end |-> 0,
           chunk |-> {}, head |-> <<>>, copy |-> NoSession]

Turns == [phase : Phases, copy : SessionsOrNone]
Passes == [kind : {"none", "tokens", "idle"}, by : Lanes \cup {"background"},
           stage : {"pick", "await", "save"}, end : Nat, chunk : SUBSET Nat,
           head : Seq(Nat), copy : SessionsOrNone]

TypeOK ==
    /\ file \in SessionsOrNone /\ cache \in SessionsOrNone /\ archive \in Seq(Nat)
    /\ turn \in [Lanes -> Turns] /\ pass \in Passes
    /\ deleted \in BOOLEAN /\ archiving \in BOOLEAN /\ titling \in BOOLEAN
    /\ background \in Nat /\ made \in Nat /\ events \in Nat
    /\ socket \in {"idle", "clear", "delete"}
    /\ tail \in Tails /\ swallowed \subseteq Nat
    /\ history \subseteq Nat /\ tornLog \in BOOLEAN /\ unlogged \subseteq Nat
    /\ leftover \in [file : SessionsOrNone, archive : Seq(Nat)] /\ safe \subseteq Nat
    /\ wiped \subseteq Nat /\ forgotten \subseteq Nat
    /\ misfiled \in BOOLEAN /\ overlapped \in BOOLEAN /\ named \in BOOLEAN

Init ==
    /\ file = NoSession /\ archive = <<>> /\ tail = "whole" /\ swallowed = {}
    /\ cache = NoSession /\ deleted = FALSE
    /\ turn = [l \in Lanes |-> NoTurn] /\ pass = NoPass
    /\ background = 0 /\ archiving = FALSE /\ titling = FALSE /\ socket = "idle"
    /\ history = {} /\ tornLog = FALSE /\ unlogged = {} /\ made = 0
    /\ leftover = NothingLeft /\ safe = {} /\ wiped = {} /\ forgotten = {} /\ misfiled = FALSE
    /\ overlapped = FALSE /\ named = FALSE /\ events = 0

--------------------------------------------------------------------------------
(* Sessions *)

Elements(q) == {q[i] : i \in DOMAIN q}
ContentsOf(s) == IF s = NoSession THEN {} ELSE Elements(s.msgs)
OnDisk == Elements(archive) \cup ContentsOf(file)

(* consolidated_len, take_consolidated_prefix and what it leaves *)
HiddenLen(s) == IF s.lc < Len(s.msgs) THEN s.lc ELSE Len(s.msgs)
Hidden(s) == SubSeq(s.msgs, 1, HiddenLen(s))
Visible(s) == SubSeq(s.msgs, HiddenLen(s) + 1, Len(s.msgs))
(* Mutant of Trimmed: only the cursor is reset. *)
TrimmedCursorOnly(s) == [s EXCEPT !.lc = 0]

Trimmed(s) == [s EXCEPT !.msgs = Visible(s), !.lc = 0]
With(s, e) == [s EXCEPT !.msgs = Append(@, e)]
Cleared(s) == [s EXCEPT !.msgs = <<>>, !.lc = 0]

(* get_session_internal, and get_or_create_session: a tombstoned key gets a
   placeholder in memory, though a file may have been left. *)
Existing == IF cache # NoSession THEN cache ELSE file
Reloaded == IF deleted \/ file = NoSession THEN Fresh ELSE file
Live == IF cache # NoSession THEN cache ELSE Reloaded

(* The tasks that hold a copy of the session they are going to save. *)
Holders ==
    {l \in Lanes : turn[l].phase \in {"running", "finishing"}}
        \cup (IF pass.copy # NoSession THEN {"pass"} ELSE {})

Spend(n) == events + n <= MaxEvents /\ events' = events + n

(* What load_archive reads of an append: a line that continues a torn one is
   skipped, and with it the exchange it began; where a character is torn it
   reads no further. *)
Readable(q) ==
    CASE tail = "whole" -> q
      [] tail = "line" -> SubSeq(q, 2, Len(q))
      [] tail = "character" -> <<>>

(* append_archive.  A failing or killed append leaves any number of whole lines
   and perhaps a part of the next.  A line that only lacks its end counts as
   such a part: the next append makes it one. *)
AppendsArchive(q, whole) ==
    \E n \in IF whole THEN {Len(q)} ELSE 0..Len(q) :
        /\ archive' = archive \o Readable(SubSeq(q, 1, n))
        /\ tail' \in IF tail = "character" THEN {tail}
                     ELSE {IF n = 0 THEN tail ELSE "whole"}
                              \cup (IF n < Len(q) THEN {"line", "character"} ELSE {})
        /\ swallowed' = IF whole THEN swallowed \cup (Elements(q) \ Elements(archive'))
                        ELSE swallowed

(* Mutant of Saves: the session file is written, the prefix is dropped. *)
SavesUnarchived(s, before, ok, by) ==
    IF deleted THEN cache' = before /\ UNCHANGED <<files, overlapped>>
    ELSE /\ UNCHANGED <<archive, tail, swallowed>>
         /\ file' = (IF ok THEN Trimmed(s) ELSE file)
         /\ cache' = (IF ok THEN Trimmed(s) ELSE before)
         /\ overlapped' = (overlapped \/ ~ok \/ Holders \ {by} # {})

(* Mutant of Saves: no look at the tombstone. *)
SavesDeleted(s, before, ok, by) ==
    /\ AppendsArchive(Hidden(s), ok)
    /\ file' = (IF ok THEN Trimmed(s) ELSE file)
    /\ cache' = (IF ok THEN Trimmed(s) ELSE before)
    /\ overlapped' = (overlapped \/ ~ok \/ Holders \ {by} # {})

(* SessionManager::save: the prefix goes to the archive, then the file is
   replaced, then the cache.  It may fail at either write, the first one half
   done; the cache then stays what the caller had made it. *)
Saves(s, before, ok, by) ==
    IF deleted THEN cache' = before /\ UNCHANGED <<files, overlapped>>
    ELSE /\ AppendsArchive(Hidden(s), ok)
         /\ file' = (IF ok THEN Trimmed(s) ELSE file)
         /\ cache' = (IF ok THEN Trimmed(s) ELSE before)
         /\ overlapped' = (overlapped \/ ~ok \/ Holders \ {by} # {})

SavesNew(s, before, ok, by) ==
    /\ Saves(With(s, made + 1), before, ok, by)
    /\ made' = made + 1
    /\ safe' = IF ok /\ ~deleted /\ Holders \ {by} = {} THEN safe \cup {made + 1} ELSE safe

(* A failing save is one of the bounded events. *)
Outcome(ok) == IF ok THEN UNCHANGED events ELSE Spend(1)

--------------------------------------------------------------------------------
(* A turn (process_message_inner) *)

Begin(l) ==
    /\ turn[l].phase = "idle"
    /\ made + Cardinality({k \in Lanes : turn[k].phase # "idle"}) < MaxExchanges
    /\ turn' = [turn EXCEPT ![l].phase = "begun"]
    /\ cache' = Live
    /\ UNCHANGED <<files, deleted, pass, background, archiving, titling, socket,
                   log, made, ghosts, events>>

OverBudget(s) == Len(Visible(s)) >= Budget

TokenPass(by) == [NoPass EXCEPT !.kind = "tokens", !.by = by]

(* maybe_consolidate_by_tokens takes the lock. *)
StartConsolidation(l) ==
    /\ turn[l].phase = "begun" /\ pass.kind = "none"
    /\ cache' = Live
    /\ IF OverBudget(Live)
       THEN turn' = [turn EXCEPT ![l].phase = "consolidating"] /\ pass' = TokenPass(l)
       ELSE turn' = [turn EXCEPT ![l].phase = "ready"] /\ UNCHANGED pass
    /\ UNCHANGED <<files, deleted, background, archiving, titling, socket,
                   log, made, ghosts, events>>

TakeCopy(l) ==
    /\ turn[l].phase = "ready"
    /\ turn' = [turn EXCEPT ![l] = [phase |-> "running", copy |-> Live]]
    /\ cache' = Live
    /\ UNCHANGED <<files, deleted, pass, background, archiving, titling, socket,
                   log, made, ghosts, events>>

RunEnds(l) ==
    /\ turn[l].phase = "running"
    /\ turn' = [turn EXCEPT ![l].phase = "finishing"]
    /\ UNCHANGED <<files, cache, deleted, pass, background, archiving, titling, socket,
                   log, made, ghosts, events>>

(* persist_finished_turn saves the copy, not what the session is by now. *)
PersistFinishedTurn(l, ok) ==
    /\ turn[l].phase = "finishing"
    /\ SavesNew(turn[l].copy, cache, ok, l)
    /\ turn' = [turn EXCEPT ![l] = NoTurn]
    /\ background' = background + 1
    /\ Outcome(ok)
    /\ UNCHANGED <<deleted, pass, archiving, titling, socket, log,
                   wiped, forgotten, leftover, misfiled, named>>

TurnStep(l) ==
    \/ StartConsolidation(l) \/ TakeCopy(l) \/ RunEnds(l)
    \/ \E ok \in BOOLEAN : PersistFinishedTurn(l, ok)

(* abort_session: a turn past its last await still gets to its save. *)
AbortTurns ==
    LET cut == {l \in Registered :
                   turn[l].phase \in {"begun", "consolidating", "ready", "running"}}
    IN  /\ turn' = [l \in Lanes |-> IF l \in cut THEN NoTurn ELSE turn[l]]
        /\ pass' = IF pass.kind = "tokens" /\ pass.by \in cut THEN NoPass ELSE pass
        (* no await lies between applying a summary and saving it *)
        /\ ~(pass.stage = "save" /\ pass.by \in Registered)

--------------------------------------------------------------------------------
(* Token consolidation (maybe_consolidate_by_tokens) *)

StartBackground ==
    /\ background > 0 /\ pass.kind = "none"
    /\ background' = background - 1
    /\ cache' = Live
    /\ pass' = IF OverBudget(Live) THEN TokenPass("background") ELSE NoPass
    /\ UNCHANGED <<files, deleted, turn, archiving, titling, socket, log, made,
                   ghosts, events>>

(* Mutant of PassEnds: the mark is left standing. *)
PassEndsMarked ==
    /\ pass' = NoPass
    /\ UNCHANGED archiving
    /\ turn' = [l \in Lanes |-> IF pass.kind = "tokens" /\ pass.by = l
                                THEN [turn[l] EXCEPT !.phase = "ready"] ELSE turn[l]]

(* The lock is released: the turn whose pass it was goes on, UnmarkArchiving
   is dropped. *)
PassEnds ==
    /\ pass' = NoPass
    /\ archiving' = (archiving /\ pass.kind # "idle")
    /\ turn' = [l \in Lanes |-> IF pass.kind = "tokens" /\ pass.by = l
                                THEN [turn[l] EXCEPT !.phase = "ready"] ELSE turn[l]]

(* pick_consolidation_boundary: the exchange at the boundary stays visible. *)
Boundary(s) ==
    IF s.lc + Target < Len(s.msgs) THEN s.lc + Target ELSE Len(s.msgs) - 1

PickChunk ==
    /\ pass.kind = "tokens" /\ pass.stage = "pick"
    /\ cache' = Live
    /\ IF Boundary(Live) > Live.lc
       THEN /\ pass' = [pass EXCEPT !.stage = "await", !.end = Boundary(Live),
                                    !.head = SubSeq(Live.msgs, 1, Boundary(Live)),
                                    !.chunk = Elements(SubSeq(Live.msgs, Live.lc + 1, Boundary(Live)))]
            /\ UNCHANGED <<turn, archiving>>
       ELSE PassEnds
    /\ UNCHANGED <<files, deleted, background, titling, socket, log, made,
                   ghosts, events>>

(* append_history: a failing append is only logged, and may leave a part of its
   line, which then swallows the next one. *)
AppendsHistory(whole) ==
    /\ history' = IF whole /\ ~tornLog THEN history \cup pass.chunk ELSE history
    /\ tornLog' \in IF whole THEN {FALSE} ELSE {tornLog, TRUE}

(* The summary arrives, or the model fails and the chunk is dumped as it is;
   either is logged.  Whether that succeeded is not looked at. *)
Summarise(ok, logged) ==
    /\ pass.kind = "tokens" /\ pass.stage = "await"
    /\ AppendsHistory(logged) /\ Outcome(logged)
    /\ IF ok
       THEN LET hiding == [Live EXCEPT !.lc = pass.end]
            IN  /\ cache' = hiding
                /\ pass' = [pass EXCEPT !.stage = "save", !.copy = hiding]
                /\ unlogged' = unlogged \cup (pass.chunk \ history')
                /\ misfiled' = (misfiled \/ Hidden(hiding) # pass.head)
                /\ UNCHANGED <<turn, archiving>>
       ELSE PassEnds /\ UNCHANGED <<cache, unlogged, misfiled>>
    /\ UNCHANGED <<files, deleted, background, titling, socket, made, safe, wiped,
                   forgotten, leftover, overlapped, named>>

--------------------------------------------------------------------------------
(* Idle compaction (check_expired, archive, compact_idle_session) *)

(* Mutant of Dropped: no retention of what is visible. *)
DroppedUnclamped(s) == Len(Visible(s)) - Suffix

Dropped(s) == IF Len(Visible(s)) > Suffix THEN Len(Visible(s)) - Suffix ELSE 0

(* The session file is old enough and no turn of the bus is under way. *)
MarkIdle ==
    /\ ~archiving /\ file # NoSession /\ Dropped(Existing) > 0
    /\ \A l \in Registered : turn[l].phase = "idle"
    /\ archiving' = TRUE
    /\ Spend(1)
    /\ UNCHANGED <<files, cache, deleted, turn, pass, background, titling, socket,
                   log, made, ghosts>>

(* The cache is dropped and the file loaded anew. *)
StartCompaction ==
    /\ archiving /\ pass.kind = "none"
    /\ LET s == Reloaded
           n == Dropped(s)
       IN  /\ cache' = s
           /\ pass' = [NoPass EXCEPT !.kind = "idle", !.copy = s,
                           !.stage = IF n = 0 THEN "save" ELSE "await",
                           !.chunk = Elements(SubSeq(Visible(s), 1, n))]
    /\ UNCHANGED <<files, deleted, turn, background, archiving, titling, socket,
                   log, made, ghosts, events>>

(* Mutant of CompactIdle: when the model fails the messages are not dumped. *)
CompactIdleUndumped(logged) ==
    /\ pass.kind = "idle" /\ pass.stage = "await"
    /\ Outcome(logged)
    /\ \/ AppendsHistory(logged) /\ unlogged' = unlogged \cup (pass.chunk \ history')
       \/ UNCHANGED log
    /\ pass' = [pass EXCEPT !.stage = "save", !.copy.lc = Len(pass.copy.msgs) - Suffix]
    /\ UNCHANGED <<files, cache, deleted, turn, background, archiving, titling, socket,
                   made, ghosts>>

(* Summarised or dumped, logged or not, the prefix of the copy is hidden. *)
CompactIdle(logged) ==
    /\ pass.kind = "idle" /\ pass.stage = "await"
    /\ AppendsHistory(logged) /\ Outcome(logged)
    /\ unlogged' = unlogged \cup (pass.chunk \ history')
    /\ pass' = [pass EXCEPT !.stage = "save", !.copy.lc = Len(pass.copy.msgs) - Suffix]
    /\ UNCHANGED <<files, cache, deleted, turn, background, archiving, titling, socket,
                   made, ghosts>>

(* Both passes save the copy they hold; token consolidation may go on. *)
SavePass(ok) ==
    /\ pass.stage = "save"
    /\ Saves(pass.copy, cache, ok, "pass")
    /\ IF pass.kind = "tokens" /\ (ok \/ deleted) /\ Len(Visible(pass.copy)) > Target
       THEN pass' = TokenPass(pass.by) /\ UNCHANGED <<turn, archiving>>
       ELSE PassEnds
    /\ Outcome(ok)
    /\ UNCHANGED <<deleted, background, titling, socket, log, made, safe, wiped,
                   forgotten, leftover, misfiled, named>>

PassStep ==
    \/ StartBackground \/ PickChunk \/ StartCompaction
    \/ \E ok \in BOOLEAN : SavePass(ok) \/ CompactIdle(ok)
    \/ \E ok, logged \in BOOLEAN : Summarise(ok, logged)

--------------------------------------------------------------------------------
(* What comes in between *)

(* persist_command_turn, on the session as it is *)
PersistCommandTurn(ok) ==
    /\ made + Cardinality({k \in Lanes : turn[k].phase # "idle"}) < MaxExchanges
    /\ SavesNew(Live, With(Live, made + 1), ok, "command")
    /\ Spend(IF ok THEN 1 ELSE 2)
    /\ UNCHANGED <<deleted, turn, pass, background, archiving, titling, socket, log,
                   wiped, forgotten, leftover, misfiled, named>>

Rename(ok) ==
    /\ Existing # NoSession
    /\ Saves([Existing EXCEPT !.title = "renamed"], cache, ok, "rename")
    /\ named' = (named \/ (ok /\ ~deleted /\ Holders = {}))
    /\ Spend(IF ok THEN 1 ELSE 2)
    /\ UNCHANGED <<deleted, turn, pass, background, archiving, titling, socket, log,
                   made, safe, wiped, forgotten, leftover, misfiled>>

(* generate_title: before and after the model is asked *)
StartTitle ==
    /\ ~titling /\ Existing # NoSession
    /\ Existing.title = "none" /\ Existing.msgs # <<>>
    /\ titling' = TRUE
    /\ Spend(1)
    /\ UNCHANGED <<files, cache, deleted, turn, pass, background, archiving, socket,
                   log, made, ghosts>>

(* Mutant of TitleFor: the title that was made meanwhile is not looked at. *)
TitleForAlways(s) == "generated"

(* persist_generated_title *)
TitleFor(s) == IF s.title = "none" THEN "generated" ELSE s.title

StoreTitle(ok) ==
    /\ titling /\ titling' = FALSE
    /\ LET s == [Live EXCEPT !.title = TitleFor(Live)]
       IN  IF s = Live THEN ok /\ cache' = Live /\ UNCHANGED <<files, overlapped, events>>
           ELSE Saves(s, s, ok, "title") /\ Outcome(ok)
    /\ UNCHANGED <<deleted, turn, pass, background, archiving, socket, log,
                   made, safe, wiped, forgotten, leftover, misfiled, named>>

(* Mutant of Resets: Session::clear and a save. *)
ResetsSessionOnly(s, after, ok) ==
    /\ UNCHANGED <<archive, tail, swallowed>>
    /\ file' = IF ok /\ ~deleted THEN Cleared(s) ELSE file
    /\ cache' = after
    /\ safe' = IF ok THEN {} ELSE safe \ Elements(archive)
    /\ wiped' = IF ok /\ ~deleted /\ Holders = {} THEN wiped \cup OnDisk ELSE wiped
    /\ overlapped' = (overlapped \/ (~deleted /\ (~ok \/ Holders # {})))

(* reset_session: the archive goes first, then the cleared session is saved;
   either may fail. *)
Resets(s, after, ok) ==
    /\ \/ archive' = <<>> /\ tail' = "whole"
       \/ ~ok /\ UNCHANGED <<archive, tail>>
    /\ UNCHANGED swallowed
    /\ file' = IF ok /\ ~deleted THEN Cleared(s) ELSE file
    /\ cache' = after
    /\ safe' = IF ok THEN {} ELSE safe \ Elements(archive)
    /\ wiped' = IF ok /\ ~deleted /\ Holders = {} THEN wiped \cup OnDisk ELSE wiped
    /\ overlapped' = (overlapped \/ (~deleted /\ (~ok \/ Holders # {})))

(* /new on a lane of its own; the cached session is dropped afterwards. *)
CmdNew(l, ok) ==
    /\ turn[l].phase = "idle"
    /\ Resets(Live, NoSession, ok)
    /\ Spend(IF ok THEN 1 ELSE 2)
    /\ UNCHANGED <<deleted, turn, pass, background, archiving, titling, socket, log, made,
                   forgotten, leftover, misfiled, named>>

(* handle_envelope_clear_session: the turn is aborted, then the session reset. *)
ClearAborts ==
    /\ socket = "idle" /\ socket' = "clear"
    /\ AbortTurns
    /\ Spend(1)
    /\ UNCHANGED <<files, cache, deleted, background, archiving, titling, log, made,
                   ghosts>>

ClearResets(ok) ==
    /\ socket = "clear" /\ socket' = "idle"
    /\ IF Existing = NoSession
       THEN ok /\ UNCHANGED <<files, cache, safe, wiped, overlapped, events>>
       ELSE /\ Resets(Existing, IF ok /\ ~deleted THEN Cleared(Existing) ELSE cache, ok)
            /\ Outcome(ok)
    /\ UNCHANGED <<deleted, turn, pass, background, archiving, titling, log, made,
                   forgotten, leftover, misfiled, named>>

(* delete_session: the tombstone stands and the cache is dropped before the file
   and the archive are unlinked, and stand so when either unlink fails: what was
   still there is left.  Only after a success is the turn aborted. *)
Unlinks(ok) ==
    \/ file' = NoSession /\ archive' = <<>> /\ tail' = "whole"
    \/ ~ok /\ file' = NoSession /\ UNCHANGED <<archive, tail>>
    \/ ~ok /\ UNCHANGED <<file, archive, tail>>

DeleteSession(ok) ==
    /\ socket = "idle" /\ Existing # NoSession
    /\ socket' = (IF ok THEN "delete" ELSE "idle")
    /\ deleted' = TRUE /\ cache' = NoSession
    /\ Unlinks(ok) /\ UNCHANGED swallowed
    /\ leftover' = [file |-> file', archive |-> archive']
    /\ forgotten' = forgotten \cup (OnDisk \ OnDisk')
    /\ safe' = {} /\ named' = FALSE
    /\ Spend(IF ok THEN 1 ELSE 2)
    /\ UNCHANGED <<turn, pass, background, archiving, titling, log, made, wiped,
                   misfiled, overlapped>>

DeleteAborts ==
    /\ socket = "delete" /\ socket' = "idle"
    /\ AbortTurns
    /\ UNCHANGED <<files, cache, deleted, background, archiving, titling, log, made,
                   ghosts, events>>

(* remove_stale_sessions *)
Evict ==
    /\ cache # NoSession /\ cache' = NoSession
    /\ Spend(1)
    /\ UNCHANGED <<files, deleted, turn, pass, background, archiving, titling, socket,
                   log, made, ghosts>>

(* The copies whose save may be under way when the process is killed. *)
BeingSaved ==
    {turn[l].copy : l \in {k \in Lanes : turn[k].phase = "finishing"}}
        \cup (IF pass.stage = "save" THEN {pass.copy} ELSE {})

(* A kill: between two steps, in a save that got to the archive and no further,
   after a delete removed the file or a reset the archive and nothing else. *)
KilledAnywhere ==
    \/ UNCHANGED <<files, safe, named>>
    \/ /\ ~deleted
       /\ \E s \in BeingSaved : AppendsArchive(Hidden(s), FALSE)
       /\ UNCHANGED <<file, safe, named>>
    \/ /\ socket = "idle" /\ file' = NoSession /\ UNCHANGED <<archive, tail, swallowed>>
       /\ safe' = safe \cap Elements(archive) /\ named' = FALSE
    \/ /\ archive' = <<>> /\ tail' = "whole" /\ safe' = safe \ Elements(archive)
       /\ UNCHANGED <<file, swallowed, named>>

(* A pass that had its summary may have been writing it to history.jsonl. *)
KilledLogging ==
    /\ \/ UNCHANGED <<history, tornLog>>
       \/ pass.stage = "await" /\ \E whole \in BOOLEAN : AppendsHistory(whole)
    /\ UNCHANGED unlogged

Kill ==
    /\ KilledAnywhere /\ KilledLogging
    /\ overlapped' = (overlapped \/ files' # files)
    /\ cache' = NoSession /\ deleted' = FALSE /\ leftover' = NothingLeft
    /\ turn' = [l \in Lanes |-> NoTurn] /\ pass' = NoPass
    /\ background' = 0 /\ archiving' = FALSE /\ titling' = FALSE /\ socket' = "idle"
    /\ Spend(1)
    /\ UNCHANGED <<made, wiped, forgotten, misfiled>>

Next ==
    \/ \E l \in Lanes : Begin(l) \/ TurnStep(l)
    \/ PassStep \/ MarkIdle
    \/ \E ok \in BOOLEAN : \/ PersistCommandTurn(ok) \/ Rename(ok) \/ StoreTitle(ok)
                           \/ ClearResets(ok) \/ DeleteSession(ok)
                           \/ \E l \in Lanes : CmdNew(l, ok)
    \/ StartTitle \/ ClearAborts \/ DeleteAborts \/ Evict \/ Kill

Spec == Init /\ [][Next]_vars

--------------------------------------------------------------------------------
(* Properties *)

(* An exchange saved while no other task held a copy of the session is in the
   file or in the archive until it is cleared or deleted, whatever saves, fails
   or is killed afterwards; the one exception is an exchange moved to an archive
   that ended in a part of a line. *)
NothingLost == safe \ swallowed \subseteq OnDisk

(* "No raw conversation history is ever lost" (the comment on append_archive):
   the same without the exception. *)
NeverLost == safe \subseteq OnDisk

(* While nothing was saved next to an older copy and no save was cut off, archive
   and file together are the conversation: in order, nothing twice. *)
OrderKept ==
    LET all == archive \o (IF file = NoSession THEN <<>> ELSE file.msgs)
    IN  ~overlapped => \A i, j \in DOMAIN all : i < j => all[i] < all[j]

(* What the model does not see any more is covered by history.jsonl, unless its
   own pass could not log it, or a cut was ever applied to a session whose
   messages had moved since it was chosen. *)
HiddenIsCovered ==
    LET hidden(s) == IF s = NoSession THEN {} ELSE Elements(Hidden(s))
    IN  ~misfiled => Elements(archive) \cup hidden(file) \cup hidden(cache)
                         \subseteq history \cup unlogged

(* As long as its tombstone stands, a deleted session gets nothing on disk that
   the deletion did not leave there, which is nothing if its unlinks succeeded;
   and what was removed does not come back after a restart either. *)
DeletedStaysDeleted ==
    /\ deleted => file \in {NoSession, leftover.file} /\ archive \in {<<>>, leftover.archive}
    /\ forgotten \cap OnDisk = {}

(* A conversation cleared while no task held a copy of it does not come back. *)
WipedStaysWiped == wiped \cap OnDisk = {}

(* A name the user gave while no task held a copy is not overwritten, by a title
   that was being generated least of all. *)
NameKept == named => file # NoSession /\ file.title = "renamed"

(* The model answers, an aborted or finished turn lets go, and nobody waits for
   the consolidator lock for ever (it is a fair lock). *)
Fairness ==
    /\ \A l \in Lanes : WF_vars(TurnStep(l))
    /\ WF_vars(PassStep)

FairSpec == Spec /\ Fairness

(* A session marked for idle compaction, which no further scan then looks at, is
   unmarked however its compaction ends. *)
MarkGoesAway == archiving ~> ~archiving
================================================================================
