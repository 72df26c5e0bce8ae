-------------------------- MODULE SessionCopies_proofs --------------------------
(***************************************************************************)
(* More proofs about SessionStore: what the copies of a session that tasks *)
(* carry about can still do to the files.  Every step of the system is one *)
(* of six kinds of step on those copies (StepShapes); each invariant is    *)
(* then proved once per kind and not once per action.                      *)
(***************************************************************************)
EXTENDS SessionStore_proofs, SequenceTheorems

(* The copies of the session in memory, and with the file. *)
TaskCopies == {pass.copy} \cup {turn[l].copy : l \in Lanes}
Held == {cache} \cup TaskCopies
AllCopies == (Held \cup {file}) \ {NoSession}

(* What a task may take for the session, NoSession for none. *)
Sources ==
    Held \cup {file, NoSession} \cup (IF deleted \/ file = NoSession THEN {Fresh} ELSE {})

(* What history.jsonl covers, or a pass could not get into it. *)
Logged == history \cup unlogged

(* Copies are taken, handed on and dropped. *)
CopyStep ==
    /\ UNCHANGED <<files, made, overlapped, wiped, named, misfiled, deleted>>
    /\ Logged \subseteq Logged'
    /\ Held' \subseteq Sources

(* A pass moves the cursor of a copy. *)
HideStep ==
    /\ \E logged \in BOOLEAN : CompactIdle(logged) \/ Summarise(TRUE, logged)
    /\ UNCHANGED <<files, made, overlapped, wiped, named, deleted>>
    /\ \E d \in Sources \ {NoSession}, n \in Nat :
          Held' \subseteq Sources \cup {[d EXCEPT !.lc = n]}

(* What a save writes: a copy d, with a new exchange or another title. *)
Saved(s, d) ==
    /\ s \in Sessions /\ s.lc = d.lc
    /\ s.title = d.title \/ (d.title # "renamed" /\ s.title = "generated") \/ s.title = "renamed"
    /\ \/ s.msgs = d.msgs /\ made' = made
       \/ s.msgs = Append(d.msgs, made + 1) /\ made' = made + 1

(* A copy is saved; whose copy it was lets go of it. *)
SaveStep ==
    /\ UNCHANGED <<log, wiped, misfiled, deleted>>
    /\ TaskCopies' \subseteq TaskCopies \cup {NoSession}
    /\ \E d \in Sources \ {NoSession}, s \in Sessions, ok \in BOOLEAN,
          by \in Lanes \cup {"pass", "command", "rename", "title"} :
          /\ Saved(s, d)
          /\ \E before \in {cache, s} : Saves(s, before, ok, by)
          /\ Holders \ {by} = {} => TaskCopies' \subseteq {NoSession}
          /\ \/ named' = named
             \/ s.title = "renamed" /\ ok /\ ~deleted /\ Holders = {} /\ by = "rename"

(* The session is reset. *)
ResetStep ==
    /\ UNCHANGED <<turn, pass, made, log, misfiled, named, deleted>>
    /\ \E s \in Sources \ {NoSession}, ok \in BOOLEAN :
          \E after \in {cache, NoSession, Cleared(s)} :
             /\ Resets(s, after, ok)
             /\ ok /\ ~deleted => after \in {NoSession, Cleared(s)}

--------------------------------------------------------------------------------
(* Every step has one of these shapes, or is a delete or a kill. *)

LEMMA HeldParts ==
    /\ Held = {cache, pass.copy} \cup {turn[l].copy : l \in Lanes}
    /\ \A l \in Lanes : turn[l].copy \in Held /\ turn[l].copy \in TaskCopies
    /\ cache \in Held /\ pass.copy \in Held /\ pass.copy \in TaskCopies
    /\ Held \subseteq Sources /\ file \in Sources /\ NoSession \in Sources
    /\ Existing \in Sources
BY DEF Held, TaskCopies, Sources, Existing

LEMMA LiveIsASource ==
    ASSUME TypeOK
    PROVE  /\ Live \in Sources \ {NoSession} /\ Live \in Sessions
           /\ Reloaded \in Sources \ {NoSession} /\ Reloaded \in Sessions
<1>1. Live \in Sessions /\ Fresh \in Sessions /\ Live # NoSession /\ Fresh # NoSession
  BY LiveType, NoSessionAssumption
<1>2. Live \in Sources
  BY HeldParts DEF Live, Reloaded, Sources
<1>3. Reloaded \in Sources /\ Reloaded # NoSession
  BY <1>1 DEF Sources, Reloaded
<1>4. QED
  BY <1>1, <1>2, <1>3, LiveType

LEMMA SourcesType == ASSUME TypeOK PROVE Sources \subseteq SessionsOrNone /\ AllCopies \subseteq Sessions
<1>1. cache \in SessionsOrNone /\ file \in SessionsOrNone /\ pass.copy \in SessionsOrNone
      /\ Fresh \in SessionsOrNone /\ NoSession \in SessionsOrNone
  BY LiveType DEF TypeOK, Passes, SessionsOrNone
<1>2. \A l \in Lanes : turn[l].copy \in SessionsOrNone
  BY DEF TypeOK, Turns
<1>3. Sources \subseteq SessionsOrNone
  BY <1>1, <1>2 DEF Sources, Held, TaskCopies
<1>4. AllCopies \subseteq Sources \ {NoSession}
  BY DEF AllCopies, Sources
<1>5. QED
  BY <1>3, <1>4 DEF SessionsOrNone

LEMMA LogKept == UNCHANGED log => Logged \subseteq Logged'
BY DEF log, Logged

(* The steps that leave every task's copy what it was, or drop it. *)
LEMMA QuietCopies ==
    ASSUME UNCHANGED <<files, made, overlapped, wiped, named, misfiled, deleted>>,
           Logged \subseteq Logged', cache' \in Sources, pass'.copy \in Sources,
           \A l \in Lanes : turn'[l].copy \in Sources
    PROVE  CopyStep
BY DEF CopyStep, Held, TaskCopies

LEMMA PassEndsCopies ==
    ASSUME TypeOK, PassEnds
    PROVE  pass'.copy = NoSession /\ \A l \in Lanes : turn'[l].copy = turn[l].copy
<1>1. turn \in [Lanes -> Turns] /\ NoPass.copy = NoSession
  BY DEF TypeOK, NoPass
<1>2. QED
  BY <1>1 DEF PassEnds, Turns

LEMMA TaskCopiesSame ==
    ASSUME \A l \in Lanes : turn'[l].copy \in {turn[l].copy, NoSession},
           pass'.copy \in {pass.copy, NoSession}
    PROVE  TaskCopies' \subseteq TaskCopies \cup {NoSession}
BY DEF TaskCopies

LEMMA TaskCopiesGone ==
    ASSUME Holding, NEW by, Holders \ {by} = {},
           \A l \in Lanes : turn'[l].copy = turn[l].copy \/ turn'[l].copy = NoSession,
           pass'.copy = pass.copy \/ pass'.copy = NoSession,
           by \in Lanes => turn'[by].copy = NoSession,
           by = "pass" => pass'.copy = NoSession
    PROVE  TaskCopies' \subseteq {NoSession}
<1>1. \A l \in Lanes : l # by => turn[l].copy = NoSession
  BY DEF Holders, Holding
<1>2. by # "pass" => pass.copy = NoSession
  BY DEF Holders
<1>3. pass'.copy = NoSession
  BY <1>2
<1>4. \A l \in Lanes : turn'[l].copy = NoSession
  BY <1>1
<1>5. QED
  BY <1>3, <1>4 DEF TaskCopies

LEMMA ShapesOfTurns ==
    ASSUME TypeOK, Holding, NEW l \in Lanes, Begin(l) \/ TurnStep(l)
    PROVE  CopyStep \/ SaveStep
<1>1. /\ turn \in [Lanes -> Turns] /\ turn[l] \in Turns
      /\ \A k \in Lanes : turn[k].copy \in Sources
      /\ pass.copy \in Sources /\ cache \in Sources /\ Live \in Sources /\ NoSession \in Sources
  BY HeldParts, LiveIsASource DEF TypeOK
<1>2. ASSUME NEW p, turn' = [turn EXCEPT ![l].phase = p]
      PROVE \A k \in Lanes : turn'[k].copy \in Sources
  <2>1. \A k \in Lanes : turn'[k].copy = turn[k].copy
    BY <1>1, <1>2 DEF Turns
  <2>2. QED
    BY <1>1, <2>1
<1>3. CASE Begin(l)
  BY <1>1, <1>2, <1>3, QuietCopies, LogKept DEF Begin, ghosts
<1>4. CASE StartConsolidation(l)
  <2>1. /\ UNCHANGED <<files, made, overlapped, wiped, named, misfiled, deleted, log>>
        /\ cache' = Live
        /\ \E p : turn' = [turn EXCEPT ![l].phase = p]
        /\ pass' = TokenPass(l) \/ pass' = pass
    BY <1>4 DEF StartConsolidation, ghosts
  <2>2. TokenPass(l).copy = NoSession
    BY DEF TokenPass, NoPass
  <2>3. QED
    BY <1>1, <1>2, <2>1, <2>2, QuietCopies, LogKept
<1>5. CASE TakeCopy(l)
  <2>1. turn' = [turn EXCEPT ![l] = [phase |-> "running", copy |-> Live]]
        /\ UNCHANGED <<files, made, overlapped, wiped, named, misfiled, deleted, log, pass>>
        /\ cache' = Live
    BY <1>5 DEF TakeCopy, ghosts
  <2>2. \A k \in Lanes : turn'[k].copy = turn[k].copy \/ turn'[k].copy = Live
    BY <1>1, <2>1
  <2>3. QED
    BY <1>1, <2>1, <2>2, QuietCopies, LogKept
<1>6. CASE RunEnds(l)
  BY <1>1, <1>2, <1>6, QuietCopies, LogKept DEF RunEnds, ghosts
<1>7. ASSUME NEW ok \in BOOLEAN, PersistFinishedTurn(l, ok) PROVE SaveStep
  <2> DEFINE d == turn[l].copy
             s == With(d, made + 1)
  <2>1. d \in Sessions /\ d # NoSession /\ made + 1 \in Nat
    BY <1>1, <1>7 DEF PersistFinishedTurn, Holding, Turns, SessionsOrNone, TypeOK
  <2>2. s \in Sessions /\ s.msgs = Append(d.msgs, made + 1) /\ s.lc = d.lc /\ s.title = d.title
    BY <2>1, SessionForms DEF With, Sessions
  <2>3. /\ Saves(s, cache, ok, l) /\ made' = made + 1 /\ named' = named
        /\ turn' = [turn EXCEPT ![l] = NoTurn] /\ pass' = pass
        /\ UNCHANGED <<log, wiped, misfiled, deleted>>
    BY <1>7 DEF PersistFinishedTurn, SavesNew
  <2>4. Saved(s, d)
    BY <2>2, <2>3 DEF Saved
  <2>5. \A k \in Lanes : turn'[k].copy = IF k = l THEN NoSession ELSE turn[k].copy
    BY <1>1, <2>3 DEF NoTurn
  <2>6. TaskCopies' \subseteq TaskCopies \cup {NoSession}
    BY <2>3, <2>5, TaskCopiesSame
  <2>7. l # "pass"
    BY LanesAssumption
  <2>8. Holders \ {l} = {} => TaskCopies' \subseteq {NoSession}
    BY <2>3, <2>5, <2>7, TaskCopiesGone
  <2>9. d \in Sources \ {NoSession}
    BY <1>1, <2>1
  <2> HIDE DEF s, d
  <2>10. QED
    BY <2>2, <2>3, <2>4, <2>6, <2>8, <2>9 DEF SaveStep
<1>8. QED
  BY <1>3, <1>4, <1>5, <1>6, <1>7 DEF TurnStep

LEMMA ShapesOfPasses ==
    ASSUME TypeOK, Holding, PassStep
    PROVE  CopyStep \/ HideStep \/ SaveStep
<1>1. /\ turn \in [Lanes -> Turns] /\ pass \in Passes
      /\ \A k \in Lanes : turn[k].copy \in Sources
      /\ pass.copy \in Sources /\ cache \in Sources /\ NoSession \in Sources
      /\ Live \in Sources \ {NoSession} /\ Live \in Sessions /\ NoPass.copy = NoSession
  BY HeldParts, LiveIsASource DEF TypeOK, NoPass
<1>2. CASE StartBackground
  <2>1. TokenPass("background").copy = NoSession
    BY DEF TokenPass, NoPass
  <2>2. pass'.copy = NoSession /\ turn' = turn /\ cache' = Live
        /\ UNCHANGED <<files, made, overlapped, wiped, named, misfiled, deleted, log>>
    BY <1>1, <1>2, <2>1 DEF StartBackground, ghosts
  <2>3. QED
    BY <1>1, <2>2, QuietCopies, LogKept
<1>3. CASE PickChunk
  <2>1. cache' = Live
        /\ UNCHANGED <<files, made, overlapped, wiped, named, misfiled, deleted, log>>
    BY <1>3 DEF PickChunk, ghosts
  <2>2. pass'.copy \in Sources /\ \A k \in Lanes : turn'[k].copy = turn[k].copy
    <3>1. CASE Boundary(Live) > Live.lc
      <4>1. turn' = turn /\ pass'.copy = pass.copy
        BY <1>1, <1>3, <3>1 DEF PickChunk, Passes
      <4>2. QED
        BY <1>1, <4>1
    <3>2. CASE ~(Boundary(Live) > Live.lc)
      BY <1>1, <1>3, <3>2, PassEndsCopies DEF PickChunk
    <3>3. QED
      BY <3>1, <3>2
  <2>3. QED
    BY <1>1, <2>1, <2>2, QuietCopies, LogKept
<1>4. CASE StartCompaction
  <2> DEFINE s == Reloaded
  <2>1. s \in Sources
    BY LiveIsASource
  <2>2. pass'.copy = s /\ cache' = s /\ turn' = turn
        /\ UNCHANGED <<files, made, overlapped, wiped, named, misfiled, deleted, log>>
    BY <1>4 DEF StartCompaction, NoPass, ghosts
  <2>3. QED
    BY <1>1, <2>1, <2>2, QuietCopies, LogKept
<1>5. ASSUME NEW logged \in BOOLEAN, CompactIdle(logged) PROVE HideStep
  <2>1. /\ turn' = turn /\ cache' = cache /\ pass.kind = "idle" /\ pass.stage = "await"
        /\ UNCHANGED <<files, made, overlapped, wiped, named, deleted>>
        /\ pass' = [pass EXCEPT !.stage = "save", !.copy.lc = Len(pass.copy.msgs) - Suffix]
    BY <1>5 DEF CompactIdle, ghosts
  <2>2. pass.copy \in Sessions /\ pass.copy # NoSession
    BY <1>1, <2>1 DEF Holding, Passes, SessionsOrNone
  <2>3. Len(pass.copy.msgs) - Suffix \in Nat
    BY <2>1, <2>2, SizesAssumption DEF Holding, Sessions
  <2>4. pass'.copy = [pass.copy EXCEPT !.lc = Len(pass.copy.msgs) - Suffix]
    BY <1>1, <2>1 DEF Passes
  <2>5. Held' \subseteq Sources \cup {[pass.copy EXCEPT !.lc = Len(pass.copy.msgs) - Suffix]}
    BY <1>1, <2>1, <2>4 DEF Held, TaskCopies
  <2>6. QED
    BY <1>1, <1>5, <2>1, <2>2, <2>3, <2>5 DEF HideStep
<1>6. ASSUME NEW ok \in BOOLEAN, NEW logged \in BOOLEAN, Summarise(ok, logged)
      PROVE CopyStep \/ HideStep
  <2>1. UNCHANGED <<files, made, overlapped, wiped, named, deleted>>
        /\ history \subseteq history'
    BY <1>6, AppendsHistoryType DEF Summarise
  <2>2. CASE ok
    <3>1. pass.end \in Nat
      BY <1>1 DEF Passes
    <3>2. /\ turn' = turn /\ cache' = [Live EXCEPT !.lc = pass.end]
          /\ pass'.copy = [Live EXCEPT !.lc = pass.end]
      BY <1>1, <1>6, <2>2 DEF Summarise, Passes
    <3>3. Held' \subseteq Sources \cup {[Live EXCEPT !.lc = pass.end]}
      BY <1>1, <3>2 DEF Held, TaskCopies
    <3>4. Summarise(TRUE, logged)
      BY <1>6, <2>2
    <3>5. QED
      BY <1>1, <2>1, <3>1, <3>3, <3>4 DEF HideStep
  <2>3. CASE ~ok
    <3>1. PassEnds /\ cache' = cache /\ misfiled' = misfiled /\ unlogged' = unlogged
      BY <1>6, <2>3 DEF Summarise
    <3>2. Logged \subseteq Logged'
      BY <2>1, <3>1 DEF Logged
    <3>3. QED
      BY <1>1, <2>1, <3>1, <3>2, PassEndsCopies, QuietCopies
  <2>4. QED
    BY <2>2, <2>3
<1>7. ASSUME NEW ok \in BOOLEAN, SavePass(ok) PROVE SaveStep
  <2> DEFINE d == pass.copy
  <2>1. /\ Saves(d, cache, ok, "pass") /\ pass.stage = "save"
        /\ UNCHANGED <<made, named, log, wiped, misfiled, deleted>>
    BY <1>7 DEF SavePass
  <2>2. d \in Sessions /\ d # NoSession
    BY <1>1, <2>1 DEF Holding, Passes, SessionsOrNone
  <2>3. Saved(d, d)
    BY <2>1, <2>2 DEF Saved
  <2>4. /\ \A k \in Lanes : turn'[k].copy = turn[k].copy
        /\ pass'.copy = NoSession
    <3>1. CASE PassEnds
      BY <3>1, PassEndsCopies
    <3>2. CASE pass' = TokenPass(pass.by) /\ turn' = turn
      BY <3>2 DEF TokenPass, NoPass
    <3>3. QED
      BY <1>7, <3>1, <3>2 DEF SavePass
  <2>5. TaskCopies' \subseteq TaskCopies \cup {NoSession}
    BY <2>4, TaskCopiesSame
  <2>6. "pass" \notin Lanes
    BY LanesAssumption
  <2>7. Holders \ {"pass"} = {} => TaskCopies' \subseteq {NoSession}
    BY <2>4, <2>6, TaskCopiesGone
  <2>8. d \in Sources \ {NoSession}
    BY <1>1, <2>2
  <2> HIDE DEF d
  <2>9. QED
    BY <2>1, <2>2, <2>3, <2>5, <2>7, <2>8 DEF SaveStep
<1>8. QED
  BY <1>2, <1>3, <1>4, <1>5, <1>6, <1>7 DEF PassStep

LEMMA ShapesOfOperations ==
    ASSUME TypeOK, Holding, NEW ok \in BOOLEAN,
           PersistCommandTurn(ok) \/ Rename(ok) \/ StoreTitle(ok)
    PROVE  CopyStep \/ SaveStep
<1>1. /\ \A k \in Lanes : turn[k].copy \in Sources
      /\ pass.copy \in Sources /\ cache \in Sources
      /\ Live \in Sources \ {NoSession} /\ Live \in Sessions /\ made + 1 \in Nat
  BY HeldParts, LiveIsASource DEF TypeOK
<1>2. ASSUME UNCHANGED <<turn, pass>>, NEW by \in {"command", "rename", "title"}
      PROVE /\ TaskCopies' \subseteq TaskCopies \cup {NoSession}
            /\ Holders \ {by} = {} => TaskCopies' \subseteq {NoSession}
  <2>1. by \notin Lanes /\ by # "pass"
    BY LanesAssumption
  <2>2. QED
    BY <1>2, <2>1, TaskCopiesSame, TaskCopiesGone
<1>3. CASE PersistCommandTurn(ok)
  <2> DEFINE s == With(Live, made + 1)
  <2>1. s \in Sessions /\ s.msgs = Append(Live.msgs, made + 1) /\ s.lc = Live.lc
        /\ s.title = Live.title
    BY <1>1, SessionForms DEF With, Sessions
  <2>2. /\ Saves(s, s, ok, "command") /\ made' = made + 1
        /\ UNCHANGED <<turn, pass, log, wiped, misfiled, deleted, named>>
    BY <1>3 DEF PersistCommandTurn, SavesNew
  <2>3. Saved(s, Live)
    BY <2>1, <2>2 DEF Saved
  <2> HIDE DEF s
  <2>4. QED
    BY <1>1, <1>2, <2>1, <2>2, <2>3 DEF SaveStep
<1>4. CASE Rename(ok)
  <2> DEFINE s == [Existing EXCEPT !.title = "renamed"]
  <2>1. Existing \in Sources \ {NoSession} /\ Existing \in Sessions
    BY <1>4, LiveType, HeldParts DEF Rename, SessionsOrNone
  <2>2. s \in Sessions /\ s.msgs = Existing.msgs /\ s.lc = Existing.lc /\ s.title = "renamed"
    BY <2>1 DEF Sessions, Titles
  <2>3. /\ Saves(s, cache, ok, "rename")
        /\ UNCHANGED <<turn, pass, made, log, wiped, misfiled, deleted>>
        /\ named' = named \/ (ok /\ ~deleted /\ Holders = {})
    <3>1. named \in BOOLEAN
      BY DEF TypeOK
    <3>2. QED
      BY <1>4, <3>1 DEF Rename
  <2>4. Saved(s, Existing)
    BY <2>2, <2>3 DEF Saved
  <2> HIDE DEF s
  <2>5. QED
    BY <1>1, <1>2, <2>1, <2>2, <2>3, <2>4 DEF SaveStep
<1>5. CASE StoreTitle(ok)
  <2> DEFINE s == [Live EXCEPT !.title = TitleFor(Live)]
  <2>1. /\ UNCHANGED <<turn, pass, made, log, wiped, misfiled, deleted, named>>
        /\ \/ cache' = Live /\ UNCHANGED <<files, overlapped>>
           \/ Saves(s, s, ok, "title")
    BY <1>5 DEF StoreTitle
  <2>2. s \in Sessions /\ s.msgs = Live.msgs /\ s.lc = Live.lc
        /\ (s.title = Live.title \/ (Live.title # "renamed" /\ s.title = "generated"))
    BY <1>1 DEF Sessions, Titles, TitleFor
  <2>3. Saved(s, Live)
    BY <2>1, <2>2 DEF Saved
  <2> HIDE DEF s
  <2>4. CASE cache' = Live /\ UNCHANGED <<files, overlapped>>
    BY <1>1, <2>1, <2>4, QuietCopies, LogKept
  <2>5. CASE Saves(s, s, ok, "title")
    BY <1>1, <1>2, <2>1, <2>2, <2>3, <2>5 DEF SaveStep
  <2>6. QED
    BY <2>1, <2>4, <2>5
<1>6. QED
  BY <1>3, <1>4, <1>5

LEMMA ShapesOfResets ==
    ASSUME TypeOK, NEW ok \in BOOLEAN,
           ClearResets(ok) \/ \E l \in Lanes : CmdNew(l, ok)
    PROVE  CopyStep \/ ResetStep
<1>1. /\ \A k \in Lanes : turn[k].copy \in Sources
      /\ pass.copy \in Sources /\ cache \in Sources
      /\ Live \in Sources \ {NoSession} /\ Existing \in Sources
  BY HeldParts, LiveIsASource
<1>2. ASSUME NEW l \in Lanes, CmdNew(l, ok) PROVE ResetStep
  <2>1. Resets(Live, NoSession, ok)
        /\ UNCHANGED <<turn, pass, made, log, misfiled, named, deleted>>
    BY <1>2 DEF CmdNew
  <2>2. QED
    BY <1>1, <2>1 DEF ResetStep
<1>3. CASE ClearResets(ok)
  <2>1. UNCHANGED <<turn, pass, made, log, misfiled, named, deleted>>
    BY <1>3 DEF ClearResets
  <2>2. CASE Existing = NoSession
    <3>1. UNCHANGED <<files, cache, overlapped, wiped>>
      BY <1>3, <2>2 DEF ClearResets
    <3>2. QED
      BY <1>1, <2>1, <3>1, QuietCopies, LogKept
  <2>3. CASE Existing # NoSession
    <3> DEFINE after == IF ok /\ ~deleted THEN Cleared(Existing) ELSE cache
    <3>1. Resets(Existing, after, ok)
      BY <1>3, <2>3 DEF ClearResets
    <3>2. after \in {cache, NoSession, Cleared(Existing)}
          /\ (ok /\ ~deleted => after \in {NoSession, Cleared(Existing)})
      OBVIOUS
    <3> HIDE DEF after
    <3>3. QED
      BY <1>1, <2>1, <2>3, <3>1, <3>2 DEF ResetStep
  <2>4. QED
    BY <2>2, <2>3
<1>4. QED
  BY <1>2, <1>3

LEMMA ShapesOfOthers ==
    ASSUME TypeOK, MarkIdle \/ StartTitle \/ ClearAborts \/ DeleteAborts \/ Evict
    PROVE  CopyStep
<1>1. /\ \A k \in Lanes : turn[k].copy \in Sources
      /\ pass.copy \in Sources /\ cache \in Sources /\ NoSession \in Sources
  BY HeldParts
<1>2. CASE MarkIdle \/ StartTitle \/ Evict
  <2>1. /\ UNCHANGED <<files, made, overlapped, wiped, named, misfiled, deleted, log, turn, pass>>
        /\ cache' = cache \/ cache' = NoSession
    BY <1>2 DEF MarkIdle, StartTitle, Evict, ghosts
  <2>2. QED
    BY <1>1, <2>1, QuietCopies, LogKept
<1>3. CASE ClearAborts \/ DeleteAborts
  <2>1. UNCHANGED <<files, made, overlapped, wiped, named, misfiled, deleted, log, cache>>
        /\ AbortTurns
    BY <1>3 DEF ClearAborts, DeleteAborts, ghosts
  <2>2. /\ pass' = pass \/ pass' = NoPass
        /\ \A k \in Lanes : turn'[k] = turn[k] \/ turn'[k] = NoTurn
    BY <2>1 DEF AbortTurns
  <2>3. NoTurn.copy = NoSession /\ NoPass.copy = NoSession
    BY DEF NoTurn, NoPass
  <2>4. QED
    BY <1>1, <2>1, <2>2, <2>3, QuietCopies, LogKept
<1>4. QED
  BY <1>2, <1>3

(* Whatever a step is, this is what it does to the copies of the session. *)
LEMMA StepShapes ==
    ASSUME TypeOK, Holding, [Next]_vars
    PROVE  CopyStep \/ HideStep \/ SaveStep \/ ResetStep
           \/ (\E ok \in BOOLEAN : DeleteSession(ok)) \/ Kill
<1>1. CASE Next
  <2>1. ASSUME NEW l \in Lanes, Begin(l) \/ TurnStep(l) PROVE CopyStep \/ SaveStep
    BY <2>1, ShapesOfTurns
  <2>2. CASE PassStep
    BY <2>2, ShapesOfPasses
  <2>3. ASSUME NEW ok \in BOOLEAN, PersistCommandTurn(ok) \/ Rename(ok) \/ StoreTitle(ok)
        PROVE CopyStep \/ SaveStep
    BY <2>3, ShapesOfOperations
  <2>4. ASSUME NEW ok \in BOOLEAN, ClearResets(ok) \/ \E l \in Lanes : CmdNew(l, ok)
        PROVE CopyStep \/ ResetStep
    BY <2>4, ShapesOfResets
  <2>5. CASE MarkIdle \/ StartTitle \/ ClearAborts \/ DeleteAborts \/ Evict
    BY <2>5, ShapesOfOthers
  <2>6. QED
    BY <1>1, <2>1, <2>2, <2>3, <2>4, <2>5 DEF Next
<1>2. CASE UNCHANGED vars
  <2>1. UNCHANGED <<files, made, overlapped, wiped, named, misfiled, deleted, log, cache, turn, pass>>
    BY <1>2, Zenon DEF vars, ghosts
  <2>2. /\ cache' \in Sources /\ pass'.copy \in Sources
        /\ \A l \in Lanes : turn'[l].copy \in Sources
    BY <2>1, HeldParts
  <2>3. CopyStep
    BY <2>1, <2>2, QuietCopies, LogKept
  <2>4. QED
    BY <2>3
<1>3. QED
  BY <1>1, <1>2

(* Where the copies that are there after a step come from. *)
LEMMA CopiesAfterCopy ==
    ASSUME CopyStep
    PROVE  AllCopies' \subseteq Sources \ {NoSession}
BY HeldParts DEF CopyStep, AllCopies, files

LEMMA CopiesAfterHide ==
    ASSUME NEW d, NEW n, UNCHANGED files, Held' \subseteq Sources \cup {[d EXCEPT !.lc = n]}
    PROVE  AllCopies' \subseteq (Sources \ {NoSession}) \cup {[d EXCEPT !.lc = n]}
BY HeldParts DEF AllCopies, files

LEMMA CopiesAfterSave ==
    ASSUME NEW s, NEW before \in {cache, s}, NEW ok \in BOOLEAN, NEW by, Saves(s, before, ok, by),
           TaskCopies' \subseteq TaskCopies \cup {NoSession}
    PROVE  AllCopies' \subseteq (Sources \ {NoSession}) \cup {s, Trimmed(s)}
<1>1. cache' \in {cache, s, Trimmed(s)} /\ file' \in {file, Trimmed(s)}
  BY DEF Saves, files
<1>2. QED
  BY <1>1, HeldParts DEF AllCopies, Held

LEMMA CopiesAfterReset ==
    ASSUME NEW s, NEW after \in {cache, NoSession, Cleared(s)}, NEW ok \in BOOLEAN,
           Resets(s, after, ok), UNCHANGED <<turn, pass>>
    PROVE  AllCopies' \subseteq (Sources \ {NoSession}) \cup {Cleared(s)}
<1>1. cache' \in {cache, NoSession, Cleared(s)} /\ file' \in {file, Cleared(s)}
      /\ TaskCopies' = TaskCopies
  BY DEF Resets, TaskCopies
<1>2. QED
  BY <1>1, HeldParts DEF AllCopies, Held

LEMMA CopiesAfterDelete ==
    ASSUME NEW ok \in BOOLEAN, DeleteSession(ok)
    PROVE  AllCopies' \subseteq AllCopies /\ archive' \in {<<>>, archive} /\ tail' \in {"whole", tail}
<1>1. cache' = NoSession /\ file' \in {file, NoSession} /\ TaskCopies' = TaskCopies
      /\ archive' \in {<<>>, archive} /\ tail' \in {"whole", tail}
  BY DEF DeleteSession, Unlinks, TaskCopies
<1>2. QED
  BY <1>1 DEF AllCopies, Held

LEMMA CopiesAfterKill == ASSUME Kill PROVE AllCopies' \subseteq {file} \ {NoSession}
<1>1. cache' = NoSession /\ pass'.copy = NoSession
      /\ \A l \in Lanes : turn'[l].copy = NoSession
  BY DEF Kill, NoTurn, NoPass
<1>2. file' \in {file, NoSession}
  BY DEF Kill, KilledAnywhere, files
<1>3. QED
  BY <1>1, <1>2 DEF AllCopies, Held, TaskCopies

(* What a save adds to the archive is from the hidden part of the copy. *)
LEMMA ArchiveAfterSave ==
    ASSUME TypeOK, NEW s \in Sessions, NEW before, NEW ok \in BOOLEAN, NEW by,
           Saves(s, before, ok, by)
    PROVE  /\ Elements(archive') \subseteq Elements(archive) \cup Elements(Hidden(s))
           /\ ok /\ ~deleted /\ tail = "whole" =>
                  archive' = archive \o Hidden(s) /\ tail' = "whole"
<1>1. CASE deleted
  BY <1>1 DEF Saves, files
<1>2. CASE ~deleted
  <2>1. AppendsArchive(Hidden(s), ok) /\ Hidden(s) \in Seq(Nat)
    BY <1>2, SplitSession DEF Saves
  <2>2. QED
    BY <2>1, AppendsKeeps
<1>3. QED
  BY <1>1, <1>2

(* What a kill adds to it is from the hidden part of a copy that was being saved. *)
LEMMA ArchiveAfterKill ==
    ASSUME TypeOK, Holding, Kill
    PROVE  \/ Elements(archive') \subseteq Elements(archive)
           \/ \E s \in AllCopies :
                 Elements(archive') \subseteq Elements(archive) \cup Elements(Hidden(s))
<1>1. ASSUME NEW s \in BeingSaved, AppendsArchive(Hidden(s), FALSE)
      PROVE  s \in AllCopies
             /\ Elements(archive') \subseteq Elements(archive) \cup Elements(Hidden(s))
  <2>1. s \in Sessions /\ s # NoSession
    BY BeingSavedType
  <2>2. Hidden(s) \in Seq(Nat)
    BY <2>1, SplitSession
  <2>3. s \in AllCopies
    BY <2>1 DEF BeingSaved, AllCopies, Held, TaskCopies
  <2>4. QED
    BY <1>1, <2>2, <2>3, AppendsKeeps
<1>2. archive' \in {archive, <<>>} \/ \E s \in BeingSaved : AppendsArchive(Hidden(s), FALSE)
  BY DEF Kill, KilledAnywhere, files
<1>3. Elements(<<>>) = {}
  BY DEF Elements
<1>4. QED
  BY <1>1, <1>2, <1>3

LEMMA SourcesAreCopies ==
    \A c \in Sources \ {NoSession} : c \in AllCopies \/ (c = Fresh /\ (deleted \/ file = NoSession))
BY DEF Sources, AllCopies, Held

--------------------------------------------------------------------------------
(* A cleared conversation does not come back. *)

(* No copy, in memory or on disk, has anything of what was cleared. *)
Unwiped ==
    /\ wiped \subseteq 1..made
    /\ wiped \cap Elements(archive) = {}
    /\ \A c \in AllCopies : wiped \cap Elements(c.msgs) = {}

LEMMA UnwipedSources ==
    ASSUME TypeOK, Unwiped
    PROVE  \A c \in Sources \ {NoSession} : wiped \cap Elements(c.msgs) = {}
<1>1. Elements(Fresh.msgs) = {}
  BY DEF Fresh, Elements
<1>2. QED
  BY <1>1, SourcesAreCopies DEF Unwiped

LEMMA UnwipedStep ==
    ASSUME TypeOK, Holding, Sound, Unwiped, [Next]_vars
    PROVE  Unwiped'
<1>1. /\ \A c \in Sources \ {NoSession} : c \in Sessions /\ wiped \cap Elements(c.msgs) = {}
      /\ made \in Nat /\ archive \in Seq(Nat)
      /\ wiped \subseteq 1..made
      /\ wiped \cap Elements(archive) = {}
  BY UnwipedSources, SourcesType DEF Unwiped, SessionsOrNone, TypeOK
<1>2. CASE CopyStep
  BY <1>1, <1>2, CopiesAfterCopy DEF Unwiped, CopyStep, files
<1>3. CASE HideStep
  <2>1. PICK d \in Sources \ {NoSession}, n \in Nat :
            Held' \subseteq Sources \cup {[d EXCEPT !.lc = n]}
    BY <1>3 DEF HideStep
  <2>2. UNCHANGED <<files, made, wiped>>
    BY <1>3 DEF HideStep
  <2>3. [d EXCEPT !.lc = n].msgs = d.msgs
    BY <1>1 DEF Sessions
  <2>4. \A c \in AllCopies' : wiped \cap Elements(c.msgs) = {}
    BY <1>1, <2>1, <2>2, <2>3, CopiesAfterHide
  <2>5. QED
    BY <1>1, <2>2, <2>4 DEF Unwiped, files
<1>4. CASE SaveStep
  <2>1. PICK d \in Sources \ {NoSession}, s \in Sessions, ok \in BOOLEAN,
             by \in Lanes \cup {"pass", "command", "rename", "title"} :
             Saved(s, d) /\ \E before \in {cache, s} : Saves(s, before, ok, by)
    BY <1>4 DEF SaveStep
  <2>2. PICK before \in {cache, s} : Saves(s, before, ok, by)
    BY <2>1
  <2>3. d.msgs \in Seq(Nat) /\ made + 1 \in Nat /\ wiped' = wiped /\ made' \in {made, made + 1}
    BY <1>1, <1>4, <2>1 DEF Sessions, Saved, SaveStep
  <2>4. wiped \cap Elements(s.msgs) = {}
    <3>1. Elements(s.msgs) \subseteq Elements(d.msgs) \cup {made + 1}
      BY <2>1, <2>3, AppendElements DEF Saved
    <3>2. made + 1 \notin wiped
      BY <1>1
    <3>3. QED
      BY <1>1, <3>1, <3>2
  <2>5. /\ Hidden(s) \in Seq(Nat) /\ Elements(Hidden(s)) \subseteq Elements(s.msgs)
        /\ Elements(Trimmed(s).msgs) \subseteq Elements(s.msgs)
    BY SplitSession
  <2>6. wiped \cap Elements(archive') = {}
    <3>1. Elements(archive') \subseteq Elements(archive) \cup Elements(Hidden(s))
      BY <2>2, ArchiveAfterSave
    <3>2. QED
      BY <1>1, <2>4, <2>5, <3>1
  <2>7. AllCopies' \subseteq (Sources \ {NoSession}) \cup {s, Trimmed(s)}
    BY <1>4, <2>2, CopiesAfterSave DEF SaveStep
  <2>8. \A c \in AllCopies' : wiped \cap Elements(c.msgs) = {}
    BY <1>1, <2>4, <2>5, <2>7
  <2>9. wiped \subseteq 1..made'
    BY <1>1, <2>3
  <2>10. QED
    BY <2>3, <2>6, <2>8, <2>9 DEF Unwiped
<1>5. CASE ResetStep
  <2>1. PICK s \in Sources \ {NoSession}, ok \in BOOLEAN :
             \E after \in {cache, NoSession, Cleared(s)} :
                /\ Resets(s, after, ok)
                /\ ok /\ ~deleted => after \in {NoSession, Cleared(s)}
    BY <1>5 DEF ResetStep
  <2>2. PICK after \in {cache, NoSession, Cleared(s)} :
                /\ Resets(s, after, ok)
                /\ ok /\ ~deleted => after \in {NoSession, Cleared(s)}
    BY <2>1
  <2>3. UNCHANGED <<turn, pass, made>>
    BY <1>5 DEF ResetStep
  <2>4. Elements(Cleared(s).msgs) = {} /\ Elements(<<>>) = {}
    BY <1>1, <2>1 DEF Cleared, Elements, Sessions
  <2>5. /\ archive' \in {<<>>, archive} /\ (ok => archive' = <<>>)
        /\ wiped' = IF ok /\ ~deleted /\ Holders = {} THEN wiped \cup OnDisk ELSE wiped
    BY <2>2 DEF Resets
  <2>6. OnDisk \subseteq 1..made
    BY DEF Sound, Disk
  <2>7. CASE wiped' = wiped
    <3>1. AllCopies' \subseteq (Sources \ {NoSession}) \cup {Cleared(s)}
      BY <2>2, <2>3, CopiesAfterReset
    <3>2. QED
      BY <1>1, <2>3, <2>4, <2>5, <2>7, <3>1 DEF Unwiped
  <2>8. CASE ok /\ ~deleted /\ Holders = {}
    <3>1. TaskCopies' \subseteq {NoSession}
      BY <2>3, <2>8 DEF Holders, Holding, TaskCopies
    <3>2. cache' \in {NoSession, Cleared(s)} /\ file' = Cleared(s)
      BY <2>2, <2>8 DEF Resets
    <3>3. AllCopies' \subseteq {Cleared(s)}
      BY <3>1, <3>2 DEF AllCopies, Held
    <3>4. QED
      BY <1>1, <2>3, <2>4, <2>5, <2>6, <3>3 DEF Unwiped
  <2>9. QED
    BY <2>5, <2>7, <2>8
<1>6. ASSUME NEW ok \in BOOLEAN, DeleteSession(ok) PROVE Unwiped'
  <2>1. UNCHANGED <<wiped, made>> /\ Elements(<<>>) = {}
    BY <1>6 DEF DeleteSession, Elements
  <2>2. QED
    BY <1>6, <2>1, CopiesAfterDelete DEF Unwiped
<1>7. CASE Kill
  <2>1. UNCHANGED <<wiped, made>> /\ Elements(<<>>) = {}
    BY <1>7 DEF Kill, Elements
  <2>2. wiped \cap Elements(archive') = {}
    <3>1. ASSUME NEW s \in AllCopies,
                 Elements(archive') \subseteq Elements(archive) \cup Elements(Hidden(s))
          PROVE wiped \cap Elements(archive') = {}
      <4>1. s \in Sessions /\ wiped \cap Elements(s.msgs) = {}
        BY SourcesType DEF Unwiped
      <4>2. Elements(Hidden(s)) \subseteq Elements(s.msgs)
        BY <4>1, SplitSession
      <4>3. QED
        BY <1>1, <3>1, <4>1, <4>2
    <3>2. QED
      BY <1>1, <1>7, <2>1, <3>1, ArchiveAfterKill
  <2>3. AllCopies' \subseteq AllCopies
    BY <1>7, CopiesAfterKill DEF AllCopies
  <2>4. QED
    BY <2>1, <2>2, <2>3 DEF Unwiped
<1>8. QED
  BY <1>2, <1>3, <1>4, <1>5, <1>6, <1>7, StepShapes

LEMMA NoCopiesAtFirst == ASSUME Init PROVE AllCopies = {}
<1>1. cache = NoSession /\ file = NoSession /\ pass.copy = NoSession
      /\ \A l \in Lanes : turn[l].copy = NoSession
  BY DEF Init, NoTurn, NoPass
<1>2. QED
  BY <1>1 DEF AllCopies, Held, TaskCopies

(* A conversation that was cleared, by /new or by the clear of the WebSocket
   handler, while no task held a copy of the session is on disk never again:
   neither in the file nor in the archive, whatever is saved or killed later. *)
THEOREM ClearedStaysCleared == Spec => []WipedStaysWiped
<1>1. Init => Unwiped
  BY NoCopiesAtFirst DEF Init, Unwiped
<1>2. TypeOK /\ Holding /\ Sound /\ Unwiped /\ [Next]_vars => Unwiped'
  BY UnwipedStep
<1>3. Unwiped => WipedStaysWiped
  BY DEF Unwiped, WipedStaysWiped, OnDisk, ContentsOf, AllCopies
<1>4. QED
  BY <1>1, <1>2, <1>3, TypeCorrect, AlwaysSound, PTL DEF Spec

--------------------------------------------------------------------------------
(* A name the user gave is kept. *)

(* Every copy that may still be saved carries the name. *)
Renamed == named => file # NoSession /\ ~deleted /\ \A c \in AllCopies : c.title = "renamed"

LEMMA RenamedStep ==
    ASSUME TypeOK, Holding, Renamed, [Next]_vars
    PROVE  Renamed'
<1>1. /\ named => file # NoSession /\ ~deleted /\ \A c \in Sources \ {NoSession} : c.title = "renamed"
      /\ \A c \in Sources \ {NoSession} : c \in Sessions
  BY SourcesAreCopies, SourcesType DEF Renamed, SessionsOrNone
<1>2. CASE CopyStep
  BY <1>1, <1>2, CopiesAfterCopy DEF Renamed, CopyStep, files
<1>3. CASE HideStep
  <2>1. PICK d \in Sources \ {NoSession}, n \in Nat :
            Held' \subseteq Sources \cup {[d EXCEPT !.lc = n]}
    BY <1>3 DEF HideStep
  <2>2. UNCHANGED <<files, named, deleted>>
    BY <1>3 DEF HideStep
  <2>3. [d EXCEPT !.lc = n].title = d.title
    BY <1>1 DEF Sessions
  <2>4. named => \A c \in AllCopies' : c.title = "renamed"
    BY <1>1, <2>1, <2>2, <2>3, CopiesAfterHide
  <2>5. QED
    BY <1>1, <2>2, <2>4 DEF Renamed, files
<1>4. CASE SaveStep
  <2>1. PICK d \in Sources \ {NoSession}, s \in Sessions, ok \in BOOLEAN,
             by \in Lanes \cup {"pass", "command", "rename", "title"} :
             /\ Saved(s, d)
             /\ \E before \in {cache, s} : Saves(s, before, ok, by)
             /\ Holders \ {by} = {} => TaskCopies' \subseteq {NoSession}
             /\ \/ named' = named
                \/ s.title = "renamed" /\ ok /\ ~deleted /\ Holders = {} /\ by = "rename"
    BY <1>4 DEF SaveStep
  <2>2. PICK before \in {cache, s} : Saves(s, before, ok, by)
    BY <2>1
  <2>3. Trimmed(s).title = s.title /\ Trimmed(s) # NoSession
    BY SplitSession, NoSessionAssumption DEF Trimmed, Sessions
  <2>4. file' \in {file, Trimmed(s)}
    BY <2>2 DEF Saves, files
  <2>5. ASSUME named' = named, named PROVE file' # NoSession /\ \A c \in AllCopies' : c.title = "renamed"
    <3>1. s.title = "renamed"
      BY <1>1, <2>1, <2>5 DEF Saved
    <3>2. AllCopies' \subseteq (Sources \ {NoSession}) \cup {s, Trimmed(s)}
      BY <1>4, <2>2, CopiesAfterSave DEF SaveStep
    <3>3. QED
      BY <1>1, <2>3, <2>4, <2>5, <3>1, <3>2
  <2>6. ASSUME s.title = "renamed", ok, ~deleted, Holders = {}
        PROVE file' # NoSession /\ \A c \in AllCopies' : c.title = "renamed"
    <3>1. TaskCopies' \subseteq {NoSession}
      BY <2>1, <2>6
    <3>2. cache' = Trimmed(s) /\ file' = Trimmed(s)
      BY <2>2, <2>6 DEF Saves
    <3>3. AllCopies' \subseteq {Trimmed(s)}
      BY <3>1, <3>2 DEF AllCopies, Held
    <3>4. QED
      BY <2>3, <2>6, <3>2, <3>3
  <2>7. deleted' = deleted
    BY <1>4 DEF SaveStep
  <2>8. QED
    BY <1>1, <2>1, <2>5, <2>6, <2>7 DEF Renamed
<1>5. CASE ResetStep
  <2>1. PICK s \in Sources \ {NoSession}, ok \in BOOLEAN :
             \E after \in {cache, NoSession, Cleared(s)} : Resets(s, after, ok)
    BY <1>5 DEF ResetStep
  <2>2. PICK after \in {cache, NoSession, Cleared(s)} : Resets(s, after, ok)
    BY <2>1
  <2>3. UNCHANGED <<turn, pass, named, deleted>>
    BY <1>5 DEF ResetStep
  <2>4. Cleared(s).title = s.title /\ Cleared(s) # NoSession
    <3>1. s \in Sessions /\ 0 \in Nat
      BY <1>1
    <3>2. Cleared(s) \in Sessions
      BY <3>1, SessionForms
    <3>3. QED
      BY <3>1, <3>2, NoSessionAssumption DEF Cleared, Sessions
  <2>5. file' \in {file, Cleared(s)}
    BY <2>2 DEF Resets
  <2>6. AllCopies' \subseteq (Sources \ {NoSession}) \cup {Cleared(s)}
    BY <2>2, <2>3, CopiesAfterReset
  <2>7. QED
    BY <1>1, <2>3, <2>4, <2>5, <2>6 DEF Renamed
<1>6. ASSUME NEW ok \in BOOLEAN, DeleteSession(ok) PROVE Renamed'
  BY <1>6 DEF DeleteSession, Renamed
<1>7. CASE Kill
  <2>1. (named' = FALSE \/ (named' = named /\ file' = file)) /\ deleted' = FALSE
    BY <1>7, Zenon DEF Kill, KilledAnywhere, files
  <2>2. AllCopies' \subseteq AllCopies
    BY <1>7, CopiesAfterKill DEF AllCopies
  <2>3. QED
    BY <2>1, <2>2 DEF Renamed
<1>8. QED
  BY <1>2, <1>3, <1>4, <1>5, <1>6, <1>7, StepShapes

(* A name the user gave while no task held a copy stands in the session file until
   the session is deleted: a turn that ends, a pass, a reset, and the title that
   was being generated at the time all keep it. *)
THEOREM NameStands == Spec => []NameKept
<1>1. Init => Renamed
  BY DEF Init, Renamed
<1>2. TypeOK /\ Holding /\ Renamed /\ [Next]_vars => Renamed'
  BY RenamedStep
<1>3. Renamed => NameKept
  BY DEF Renamed, NameKept, AllCopies
<1>4. QED
  BY <1>1, <1>2, <1>3, TypeCorrect, PTL DEF Spec

--------------------------------------------------------------------------------
(* The transcript stays in order. *)

Increasing(q) == \A i, j \in DOMAIN q : i < j => q[i] < q[j]

(* A part of an increasing sequence is increasing. *)
LEMMA IncreasingParts ==
    ASSUME NEW a \in Seq(Nat), NEW b \in Seq(Nat), Increasing(a \o b)
    PROVE  Increasing(a) /\ Increasing(b) /\ Increasing(<<>> \o b)
<1>1. /\ a \o b \in Seq(Nat) /\ Len(a \o b) = Len(a) + Len(b)
      /\ \A i \in 1..Len(a) : (a \o b)[i] = a[i]
      /\ \A i \in 1..Len(b) : (a \o b)[Len(a) + i] = b[i]
      /\ <<>> \o b = b
  OBVIOUS
<1>2. /\ DOMAIN a = 1..Len(a) /\ DOMAIN b = 1..Len(b)
      /\ Len(a) \in Nat /\ Len(b) \in Nat
      /\ DOMAIN (a \o b) = 1..(Len(a) + Len(b))
  BY <1>1
<1>3. Increasing(a)
  <2> SUFFICES ASSUME NEW i \in 1..Len(a), NEW j \in 1..Len(a), i < j PROVE a[i] < a[j]
    BY <1>2 DEF Increasing
  <2>1. i \in 1..(Len(a) + Len(b)) /\ j \in 1..(Len(a) + Len(b))
    BY <1>2
  <2>2. QED
    BY <1>1, <1>2, <2>1 DEF Increasing
<1>4. Increasing(b)
  <2> SUFFICES ASSUME NEW i \in 1..Len(b), NEW j \in 1..Len(b), i < j PROVE b[i] < b[j]
    BY <1>2 DEF Increasing
  <2>1. Len(a) + i \in 1..(Len(a) + Len(b)) /\ Len(a) + j \in 1..(Len(a) + Len(b))
        /\ Len(a) + i < Len(a) + j
    BY <1>2
  <2>2. (a \o b)[Len(a) + i] < (a \o b)[Len(a) + j]
    BY <1>2, <2>1 DEF Increasing
  <2>3. QED
    BY <1>1, <2>2
<1>5. QED
  BY <1>1, <1>3, <1>4

(* A number above all those there are keeps the sequence increasing. *)
LEMMA IncreasingAppend ==
    ASSUME NEW a \in Seq(Nat), NEW b \in Seq(Nat), NEW n \in Nat, Increasing(a \o b),
           Elements(a) \subseteq 1..n, Elements(b) \subseteq 1..n
    PROVE  Increasing(a \o Append(b, n + 1))
<1> DEFINE q == a \o b
           r == a \o Append(b, n + 1)
<1>1. /\ q \in Seq(Nat) /\ r \in Seq(Nat) /\ Len(r) = Len(q) + 1
      /\ r[Len(q) + 1] = n + 1
      /\ \A i \in 1..Len(q) : r[i] = q[i]
  <2>1. Append(b, n + 1) \in Seq(Nat) /\ Len(Append(b, n + 1)) = Len(b) + 1
        /\ Append(b, n + 1)[Len(b) + 1] = n + 1
        /\ \A i \in 1..Len(b) : Append(b, n + 1)[i] = b[i]
    OBVIOUS
  <2>2. r = Append(q, n + 1)
    OBVIOUS
  <2>3. q \in Seq(Nat)
    OBVIOUS
  <2> HIDE DEF q, r
  <2>4. QED
    BY <2>2, <2>3
<1>2. Elements(q) \subseteq 1..n
  BY ConcatElements
<1> HIDE DEF q, r
<1>3. DOMAIN q = 1..Len(q) /\ DOMAIN r = 1..(Len(q) + 1) /\ Len(q) \in Nat
  BY <1>1
<1>4. Increasing(q)
  BY DEF q
<1>5. Increasing(r)
  <2> SUFFICES ASSUME NEW i \in 1..(Len(q) + 1), NEW j \in 1..(Len(q) + 1), i < j
               PROVE r[i] < r[j]
    BY <1>3 DEF Increasing
  <2>1. i \in 1..Len(q)
    BY <1>3
  <2>2. r[i] = q[i] /\ q[i] \in 1..n
    BY <1>1, <1>2, <1>3, <2>1 DEF Elements
  <2>3. CASE j \in 1..Len(q)
    BY <1>1, <1>3, <1>4, <2>1, <2>3 DEF Increasing
  <2>4. CASE j = Len(q) + 1
    BY <1>1, <2>2, <2>4
  <2>5. QED
    BY <1>3, <2>3, <2>4
<1>6. QED
  BY <1>5 DEF r

(* What a save moves to the archive was in front of what it leaves. *)
LEMMA ArchivedInOrder ==
    ASSUME NEW a \in Seq(Nat), NEW s \in Sessions
    PROVE  (a \o Hidden(s)) \o Trimmed(s).msgs = a \o s.msgs
<1> DEFINE h == HiddenLen(s)
           q == s.msgs
<1>1. q \in Seq(Nat) /\ s.lc \in Nat /\ Len(q) \in Nat
  BY DEF Sessions
<1>2. h \in Nat /\ h <= Len(q)
  BY <1>1 DEF HiddenLen
<1>3. Hidden(s) = SubSeq(q, 1, h) /\ Trimmed(s).msgs = SubSeq(q, h + 1, Len(q))
  BY SplitSession DEF Hidden, Visible
<1> HIDE DEF h, q
<1>4. SubSeq(q, 1, h) \o SubSeq(q, h + 1, Len(q)) = q
  <2>1. SubSeq(q, 1, h) \o SubSeq(q, h + 1, Len(q)) = SubSeq(q, 1, Len(q))
    <3>1. 1 \in 1..(Len(q) + 1) /\ h \in (1 - 1)..Len(q) /\ Len(q) \in h..Len(q)
      BY <1>1, <1>2
    <3>2. QED
      BY <1>1, <3>1, ConcatAdjacentSubSeq
  <2>2. SubSeq(q, 1, Len(q)) = q
    BY <1>1, SubSeqFull
  <2>3. QED
    BY <2>1, <2>2
<1>5. Hidden(s) \in Seq(Nat) /\ Trimmed(s).msgs \in Seq(Nat)
  BY SplitSession
<1>6. (a \o Hidden(s)) \o Trimmed(s).msgs = a \o (Hidden(s) \o Trimmed(s).msgs)
  <2>1. ASSUME NEW x \in Seq(Nat), NEW y \in Seq(Nat) PROVE (a \o x) \o y = a \o (x \o y)
    BY ConcatAssociative
  <2>2. QED
    BY <1>5, <2>1
<1>7. Hidden(s) \o Trimmed(s).msgs = q
  BY <1>3, <1>4
<1>8. a \o (Hidden(s) \o Trimmed(s).msgs) = a \o q
  BY <1>7, Zenon
<1>9. a \o q = a \o s.msgs
  BY DEF q
<1>10. QED
  BY <1>6, <1>8, <1>9, Zenon

(* Behind the archive, every copy continues it in order. *)
Ordered ==
    ~overlapped => /\ tail = "whole" /\ Increasing(archive)
                   /\ \A c \in AllCopies : Increasing(archive \o c.msgs)

LEMMA OrderedSources ==
    ASSUME TypeOK, Ordered, ~overlapped
    PROVE  \A c \in Sources \ {NoSession} : Increasing(archive \o c.msgs)
<1>1. Fresh.msgs = <<>> /\ archive \in Seq(Nat)
  BY DEF Fresh, TypeOK
<1>2. archive \o <<>> = archive
  BY <1>1
<1>3. QED
  BY <1>1, <1>2, SourcesAreCopies DEF Ordered

(* No copy has an exchange that was not made. *)
LEMMA SourcesAreMade ==
    ASSUME TypeOK, Sound
    PROVE  /\ Elements(archive) \subseteq 1..made
           /\ \A c \in Sources \ {NoSession} : Elements(c.msgs) \subseteq 1..made
<1>1. Elements(archive) \subseteq 1..made /\ GoodCopy(file)
  BY LiveIsGood DEF Sound, Disk, OnDisk
<1>2. \A c \in AllCopies : ContentsOf(c) \subseteq 1..made
  BY <1>1 DEF Sound, Copies, GoodCopy, Good, AllCopies, Held, TaskCopies
<1>3. \A c \in AllCopies : Elements(c.msgs) \subseteq 1..made
  BY <1>2 DEF ContentsOf, AllCopies
<1>4. Elements(Fresh.msgs) = {}
  BY DEF Fresh, Elements
<1>5. QED
  BY <1>1, <1>3, <1>4, SourcesAreCopies

(* The archive is as it was, or gone. *)
ArchiveStays == archive' \in {<<>>, archive} /\ tail' \in {"whole", tail}

LEMMA OrderedStep ==
    ASSUME TypeOK, Holding, Sound, Ordered, [Next]_vars
    PROVE  Ordered'
<1>1. /\ \A c \in Sources \ {NoSession} : c \in Sessions /\ Elements(c.msgs) \subseteq 1..made
      /\ made \in Nat /\ archive \in Seq(Nat) /\ Elements(archive) \subseteq 1..made
  BY SourcesAreMade, SourcesType DEF SessionsOrNone, TypeOK
<1>2. ~overlapped => /\ \A c \in Sources \ {NoSession} : Increasing(archive \o c.msgs)
                     /\ Increasing(archive) /\ tail = "whole"
  BY OrderedSources DEF Ordered
<1>3. CASE CopyStep
  BY <1>2, <1>3, CopiesAfterCopy DEF Ordered, CopyStep, files
<1>4. CASE HideStep
  <2>1. PICK d \in Sources \ {NoSession}, n \in Nat :
            Held' \subseteq Sources \cup {[d EXCEPT !.lc = n]}
    BY <1>4 DEF HideStep
  <2>2. UNCHANGED <<files, overlapped>>
    BY <1>4 DEF HideStep
  <2>3. [d EXCEPT !.lc = n].msgs = d.msgs
    BY <1>1 DEF Sessions
  <2>4. ~overlapped => \A c \in AllCopies' : Increasing(archive \o c.msgs)
    BY <1>2, <2>1, <2>2, <2>3, CopiesAfterHide
  <2>5. QED
    BY <1>2, <2>2, <2>4 DEF Ordered, files
<1>5. CASE SaveStep
  <2>1. PICK d \in Sources \ {NoSession}, s \in Sessions, ok \in BOOLEAN,
             by \in Lanes \cup {"pass", "command", "rename", "title"} :
             /\ Saved(s, d)
             /\ \E before \in {cache, s} : Saves(s, before, ok, by)
             /\ Holders \ {by} = {} => TaskCopies' \subseteq {NoSession}
    BY <1>5 DEF SaveStep
  <2>2. PICK before \in {cache, s} : Saves(s, before, ok, by)
    BY <2>1
  <2>3. ASSUME ~overlapped PROVE Increasing(archive \o s.msgs)
    <3>1. Increasing(archive \o d.msgs) /\ d.msgs \in Seq(Nat) /\ Elements(d.msgs) \subseteq 1..made
      BY <1>1, <1>2, <2>3 DEF Sessions
    <3>2. CASE s.msgs = d.msgs
      BY <3>1, <3>2
    <3>3. CASE s.msgs = Append(d.msgs, made + 1)
      BY <1>1, <3>1, <3>3, IncreasingAppend
    <3>4. QED
      BY <2>1, <3>2, <3>3 DEF Saved
  <2>4. CASE deleted
    <3>1. UNCHANGED <<files, overlapped>> /\ cache' \in {cache, s}
      BY <2>2, <2>4 DEF Saves
    <3>2. AllCopies' \subseteq (Sources \ {NoSession}) \cup {s}
      BY <1>5, <3>1, HeldParts DEF AllCopies, Held, SaveStep, files
    <3>3. QED
      BY <1>2, <2>3, <3>1, <3>2 DEF Ordered, files
  <2>5. CASE ~deleted
    <3> SUFFICES ASSUME ~overlapped'
                 PROVE  tail' = "whole" /\ Increasing(archive')
                        /\ \A c \in AllCopies' : Increasing(archive' \o c.msgs)
      BY DEF Ordered
    <3>1. ~overlapped /\ ok /\ Holders \ {by} = {}
      BY <2>2, <2>5 DEF Saves
    <3>2. archive' = archive \o Hidden(s) /\ tail' = "whole"
          /\ file' = Trimmed(s) /\ cache' = Trimmed(s)
      BY <1>2, <2>2, <2>5, <3>1, ArchiveAfterSave DEF Saves
    <3>3. AllCopies' \subseteq {Trimmed(s)}
      BY <2>1, <3>1, <3>2 DEF AllCopies, Held
    <3>4. Increasing(archive' \o Trimmed(s).msgs)
      BY <1>1, <2>3, <3>1, <3>2, ArchivedInOrder
    <3>5. archive' \in Seq(Nat) /\ Trimmed(s).msgs \in Seq(Nat)
      BY <1>1, <3>2, SplitSession, ConcatElements
    <3>6. Increasing(archive')
      BY <3>4, <3>5, IncreasingParts
    <3>7. QED
      BY <3>2, <3>3, <3>4, <3>6
  <2>6. QED
    BY <2>4, <2>5
<1>6. ASSUME NEW s, ArchiveStays, ~overlapped' => ~overlapped,
             AllCopies' \subseteq (Sources \ {NoSession}) \cup {s}, s.msgs = <<>>
      PROVE Ordered'
  <2> SUFFICES ASSUME ~overlapped'
               PROVE  /\ tail' = "whole" /\ Increasing(archive')
                      /\ \A c \in AllCopies' : Increasing(archive' \o c.msgs)
    BY DEF Ordered
  <2>1. ~overlapped /\ archive' \in {<<>>, archive} /\ tail' \in {"whole", tail}
    BY <1>6 DEF ArchiveStays
  <2>2. <<>> \in Seq(Nat) /\ Increasing(<<>>) /\ <<>> \o <<>> = <<>> /\ archive \o <<>> = archive
    BY <1>1 DEF Increasing
  <2>3. \A c \in Sources \ {NoSession} : Increasing(<<>> \o c.msgs)
    <3> TAKE c \in Sources \ {NoSession}
    <3>1. c.msgs \in Seq(Nat) /\ Increasing(archive \o c.msgs)
      BY <1>1, <1>2, <2>1 DEF Sessions
    <3>2. QED
      BY <1>1, <3>1, IncreasingParts
  <2>4. CASE archive' = <<>>
    BY <1>2, <1>6, <2>1, <2>2, <2>3, <2>4
  <2>5. CASE archive' = archive
    BY <1>2, <1>6, <2>1, <2>2, <2>5
  <2>6. QED
    BY <2>1, <2>4, <2>5
<1>7. CASE ResetStep
  <2>1. PICK s \in Sources \ {NoSession}, ok \in BOOLEAN :
             \E after \in {cache, NoSession, Cleared(s)} : Resets(s, after, ok)
    BY <1>7 DEF ResetStep
  <2>2. PICK after \in {cache, NoSession, Cleared(s)} : Resets(s, after, ok)
    BY <2>1
  <2>3. UNCHANGED <<turn, pass>>
    BY <1>7 DEF ResetStep
  <2>4. ArchiveStays /\ (~overlapped' => ~overlapped)
    BY <2>2 DEF Resets, ArchiveStays
  <2>5. AllCopies' \subseteq (Sources \ {NoSession}) \cup {Cleared(s)}
    BY <2>2, <2>3, CopiesAfterReset
  <2>6. Cleared(s).msgs = <<>>
    BY <1>1 DEF Cleared, Sessions
  <2>7. QED
    BY <1>6, <2>4, <2>5, <2>6
<1>8. ASSUME NEW ok \in BOOLEAN, DeleteSession(ok) PROVE Ordered'
  <2>1. ArchiveStays /\ (~overlapped' => ~overlapped)
    BY <1>8, CopiesAfterDelete DEF DeleteSession, ArchiveStays
  <2>2. AllCopies' \subseteq Sources \ {NoSession}
    BY <1>8, CopiesAfterDelete DEF AllCopies, Sources
  <2>3. Fresh.msgs = <<>>
    BY DEF Fresh
  <2>4. QED
    BY <1>6, <2>1, <2>2, <2>3
<1>9. CASE Kill
  <2>1. ~overlapped' => ~overlapped /\ UNCHANGED files
    BY <1>9 DEF Kill, TypeOK
  <2>2. AllCopies' \subseteq AllCopies
    BY <1>9, CopiesAfterKill DEF AllCopies
  <2>3. QED
    BY <2>1, <2>2 DEF Ordered, files
<1>10. QED
  BY <1>3, <1>4, <1>5, <1>7, <1>8, <1>9, StepShapes

(* As long as nothing was saved next to an older copy, no save failed and none was
   cut off by a kill, the archive with the session file behind it is the
   conversation in the order its exchanges were made, none of them twice. *)
THEOREM TranscriptInOrder == Spec => []OrderKept
<1>1. Init => Ordered
  <2> SUFFICES ASSUME Init PROVE Ordered
    OBVIOUS
  <2>1. AllCopies = {} /\ archive = <<>> /\ tail = "whole"
    BY NoCopiesAtFirst DEF Init
  <2>2. Increasing(<<>>)
    BY DEF Increasing
  <2>3. QED
    BY <2>1, <2>2 DEF Ordered
<1>2. TypeOK /\ Holding /\ Sound /\ Ordered /\ [Next]_vars => Ordered'
  BY OrderedStep
<1>3. TypeOK /\ Ordered => OrderKept
  <2> SUFFICES ASSUME TypeOK, Ordered, ~overlapped
               PROVE  Increasing(archive \o (IF file = NoSession THEN <<>> ELSE file.msgs))
    BY DEF OrderKept, Increasing
  <2>1. CASE file = NoSession
    <3>1. archive \o <<>> = archive
      BY DEF TypeOK
    <3>2. QED
      BY <2>1, <3>1 DEF Ordered
  <2>2. CASE file # NoSession
    BY <2>2 DEF Ordered, AllCopies
  <2>3. QED
    BY <2>1, <2>2
<1>4. QED
  BY <1>1, <1>2, <1>3, TypeCorrect, AlwaysSound, PTL DEF Spec

--------------------------------------------------------------------------------
(* What the model does not see any more is covered by history.jsonl, but for what
   the pass that hid it could not log. *)

Covered(c) == c.lc <= Len(c.msgs) /\ Elements(Hidden(c)) \subseteq Logged

(* What a pass waiting for its summary is going to hide is covered, or counted. *)
PassCounted ==
    /\ pass.stage = "await" /\ pass.kind = "tokens" =>
           Len(pass.head) = pass.end /\ Elements(pass.head) \subseteq Logged \cup pass.chunk
    /\ pass.stage = "await" /\ pass.kind = "idle" =>
           Elements(SubSeq(pass.copy.msgs, 1, Len(pass.copy.msgs) - Suffix))
               \subseteq Logged \cup pass.chunk

Filed ==
    ~misfiled => /\ Elements(archive) \subseteq Logged
                 /\ \A c \in AllCopies : Covered(c)
                 /\ PassCounted

LEMMA HiddenPart ==
    ASSUME NEW s \in Sessions, s.lc <= Len(s.msgs)
    PROVE  /\ Hidden(s) = SubSeq(s.msgs, 1, s.lc) /\ Len(Hidden(s)) = s.lc
           /\ Elements(Hidden(s)) = {s.msgs[i] : i \in 1..s.lc}
           /\ Visible(s) = SubSeq(s.msgs, s.lc + 1, Len(s.msgs))
<1>1. s.msgs \in Seq(Nat) /\ s.lc \in Nat /\ Len(s.msgs) \in Nat
  BY DEF Sessions
<1>2. HiddenLen(s) = s.lc
  BY <1>1 DEF HiddenLen
<1>3. Hidden(s) = SubSeq(s.msgs, 1, s.lc) /\ Visible(s) = SubSeq(s.msgs, s.lc + 1, Len(s.msgs))
  BY <1>2 DEF Hidden, Visible
<1>4. Len(SubSeq(s.msgs, 1, s.lc)) = s.lc
  BY <1>1
<1>5. Elements(SubSeq(s.msgs, 1, s.lc)) = {s.msgs[i] : i \in 1..s.lc}
  BY <1>1, SubSeqElements
<1>6. QED
  BY <1>3, <1>4, <1>5

(* A session whose cursor is at its start hides nothing. *)
LEMMA NothingHidden ==
    ASSUME NEW s \in Sessions, s.lc = 0
    PROVE  Covered(s) /\ Elements(Hidden(s)) = {}
<1>1. s.lc <= Len(s.msgs)
  BY DEF Sessions
<1>2. Elements(Hidden(s)) = {s.msgs[i] : i \in 1..0}
  BY <1>1, HiddenPart
<1>3. QED
  BY <1>1, <1>2 DEF Covered

LEMMA CoveredSources ==
    ASSUME TypeOK, Filed, ~misfiled
    PROVE  \A c \in Sources \ {NoSession} : Covered(c)
<1>1. Covered(Fresh)
  BY LiveType, NothingHidden DEF Fresh
<1>2. QED
  BY <1>1, SourcesAreCopies DEF Filed

(* A save hides what the copy hid: the new exchange is visible. *)
LEMMA SavedIsCovered ==
    ASSUME TypeOK, NEW d \in Sessions, NEW s, Saved(s, d), Covered(d)
    PROVE  Covered(s) /\ Covered(Trimmed(s)) /\ Elements(Hidden(s)) = Elements(Hidden(d))
<1>1. s \in Sessions /\ s.lc = d.lc /\ d.lc \in Nat /\ d.msgs \in Seq(Nat)
      /\ made + 1 \in Nat /\ s.msgs \in {d.msgs, Append(d.msgs, made + 1)}
      /\ d.lc <= Len(d.msgs)
  BY DEF Saved, Sessions, TypeOK, Covered
<1>2. s.lc <= Len(s.msgs) /\ \A i \in 1..d.lc : s.msgs[i] = d.msgs[i]
  <2>1. /\ Len(Append(d.msgs, made + 1)) = Len(d.msgs) + 1 /\ Len(d.msgs) \in Nat
        /\ \A i \in 1..Len(d.msgs) : Append(d.msgs, made + 1)[i] = d.msgs[i]
    BY <1>1
  <2>2. \A i \in 1..d.lc : i \in 1..Len(d.msgs)
    BY <1>1, <2>1
  <2>3. CASE s.msgs = d.msgs
    BY <1>1, <2>3
  <2>4. CASE s.msgs = Append(d.msgs, made + 1)
    <3>1. s.lc <= Len(s.msgs)
      BY <1>1, <2>1, <2>4
    <3>2. QED
      BY <2>1, <2>2, <2>4, <3>1
  <2>5. QED
    BY <1>1, <2>3, <2>4
<1>3. /\ Elements(Hidden(s)) = {s.msgs[i] : i \in 1..s.lc}
      /\ Elements(Hidden(d)) = {d.msgs[i] : i \in 1..d.lc}
  BY <1>1, <1>2, HiddenPart
<1>4. Elements(Hidden(s)) = Elements(Hidden(d))
  BY <1>1, <1>2, <1>3
<1>5. Covered(s)
  BY <1>2, <1>4 DEF Covered
<1>6. Trimmed(s) \in Sessions /\ Trimmed(s).lc = 0
  BY <1>1, SplitSession DEF Trimmed, Sessions
<1>7. QED
  BY <1>4, <1>5, <1>6, NothingHidden

(* Who moves a pass to its await, and that what is logged only grows. *)
LEMMA PassMoves ==
    ASSUME TypeOK, Holding, [Next]_vars
    PROVE  /\ Logged \subseteq Logged' /\ (misfiled => misfiled')
           /\ \/ pass' = pass \/ pass'.stage # "await"
              \/ PickChunk /\ Boundary(Live) > Live.lc
              \/ StartCompaction
<1>1. /\ NoPass.stage # "await" /\ \A by : TokenPass(by).stage # "await"
      /\ pass \in Passes
  BY DEF NoPass, TokenPass, TypeOK
<1>2. CASE UNCHANGED vars
  BY <1>2, LogKept, Zenon DEF vars, ghosts
<1>3. ASSUME NEW l \in Lanes, Begin(l) \/ TurnStep(l)
      PROVE  UNCHANGED <<log, misfiled>> /\ (pass' = pass \/ pass'.stage # "await")
  BY <1>1, <1>3 DEF Begin, TurnStep, StartConsolidation, TakeCopy, RunEnds,
                    PersistFinishedTurn, ghosts
<1>4. CASE StartBackground \/ PickChunk \/ StartCompaction
  <2>1. UNCHANGED <<log, misfiled>>
    BY <1>4 DEF StartBackground, PickChunk, StartCompaction, ghosts
  <2>2. QED
    BY <1>1, <1>4, <2>1, LogKept DEF StartBackground, PickChunk, PassEnds
<1>5. ASSUME NEW logged \in BOOLEAN, CompactIdle(logged)
      PROVE  /\ Logged \subseteq Logged' /\ misfiled' = misfiled
             /\ pass'.stage # "await"
  <2>1. pass'.stage = "save"
    BY <1>1, <1>5 DEF CompactIdle, Passes
  <2>2. AppendsHistory(logged) /\ unlogged \subseteq unlogged' /\ misfiled' = misfiled
    BY <1>5 DEF CompactIdle, ghosts
  <2>3. QED
    BY <2>1, <2>2, AppendsHistoryType DEF Logged
<1>6. ASSUME NEW ok \in BOOLEAN, NEW logged \in BOOLEAN, Summarise(ok, logged)
      PROVE  /\ Logged \subseteq Logged' /\ (misfiled => misfiled')
             /\ pass'.stage # "await"
  <2>1. AppendsHistory(logged)
    BY <1>6 DEF Summarise
  <2>2. unlogged \subseteq unlogged' /\ (misfiled => misfiled') /\ pass'.stage # "await"
    <3>1. CASE ok
      BY <1>1, <1>6, <3>1 DEF Summarise, Passes
    <3>2. CASE ~ok
      BY <1>1, <1>6, <3>2 DEF Summarise, PassEnds
    <3>3. QED
      BY <3>1, <3>2
  <2>3. QED
    BY <2>1, <2>2, AppendsHistoryType DEF Logged
<1>7. ASSUME NEW ok \in BOOLEAN, SavePass(ok)
      PROVE  UNCHANGED <<log, misfiled>> /\ pass'.stage # "await"
  BY <1>1, <1>7 DEF SavePass, PassEnds
<1>8. ASSUME NEW ok \in BOOLEAN,
             \/ PersistCommandTurn(ok) \/ Rename(ok) \/ StoreTitle(ok)
             \/ ClearResets(ok) \/ \E l \in Lanes : CmdNew(l, ok)
      PROVE  UNCHANGED <<log, misfiled, pass>>
  BY <1>8 DEF PersistCommandTurn, Rename, StoreTitle, ClearResets, CmdNew
<1>9. CASE MarkIdle \/ StartTitle \/ ClearAborts \/ DeleteAborts \/ Evict
  <2>1. UNCHANGED <<log, misfiled>>
    BY <1>9 DEF MarkIdle, StartTitle, ClearAborts, DeleteAborts, Evict, ghosts
  <2>2. pass' = pass \/ pass'.stage # "await"
    BY <1>1, <1>9 DEF MarkIdle, StartTitle, ClearAborts, DeleteAborts, Evict, AbortTurns
  <2>3. QED
    BY <2>1, <2>2, LogKept
<1>10. ASSUME NEW ok \in BOOLEAN, DeleteSession(ok) PROVE UNCHANGED <<log, misfiled, pass>>
  BY <1>10 DEF DeleteSession
<1>11. CASE Kill
  <2>1. history \subseteq history' /\ unlogged' = unlogged
    BY <1>11, AppendsHistoryType DEF Kill, KilledLogging
  <2>2. misfiled' = misfiled /\ pass'.stage # "await"
    BY <1>1, <1>11 DEF Kill
  <2>3. QED
    BY <2>1, <2>2 DEF Logged
<1>12. QED
  BY <1>2, <1>3, <1>4, <1>5, <1>6, <1>7, <1>8, <1>9, <1>10, <1>11, LogKept DEF Next, PassStep

LEMMA CountedAfterPick ==
    ASSUME TypeOK, Covered(Live), PickChunk, Boundary(Live) > Live.lc
    PROVE  PassCounted'
<1> DEFINE q == Live.msgs
           lc == Live.lc
           b == Boundary(Live)
<1>1. Live \in Sessions /\ q \in Seq(Nat) /\ lc \in Nat /\ lc <= Len(q) /\ Len(q) \in Nat
      /\ pass \in Passes
  BY LiveType DEF Sessions, Covered, TypeOK
<1>2. b \in Nat /\ b <= Len(q) /\ lc < b
  BY <1>1, SizesAssumption DEF Boundary
<1>3. {q[i] : i \in 1..lc} \subseteq Logged
  BY <1>1, HiddenPart DEF Covered
<1>4. pass' = [pass EXCEPT !.stage = "await", !.end = b,
                           !.head = SubSeq(q, 1, b),
                           !.chunk = Elements(SubSeq(q, lc + 1, b))]
      /\ pass.kind = "tokens" /\ Logged \subseteq Logged'
  BY LogKept DEF PickChunk
<1> HIDE DEF q, lc, b
<1>5. /\ pass'.kind = "tokens" /\ pass'.end = b
      /\ pass'.head = SubSeq(q, 1, b) /\ pass'.chunk = Elements(SubSeq(q, lc + 1, b))
  BY <1>1, <1>4 DEF Passes
<1>6. Len(SubSeq(q, 1, b)) = b
  BY <1>1, <1>2
<1>7. Elements(SubSeq(q, 1, b)) = {q[i] : i \in 1..b}
  BY <1>1, <1>2, SubSeqElements
<1>8. Elements(SubSeq(q, lc + 1, b)) = {q[i] : i \in (lc + 1)..b}
  <2>1. lc + 1 \in Nat \ {0}
    BY <1>1
  <2>2. QED
    BY <1>1, <1>2, <2>1, SubSeqElements
<1>9. 1..b \subseteq (1..lc) \cup ((lc + 1)..b)
  BY <1>1, <1>2
<1>10. Elements(SubSeq(q, 1, b)) \subseteq Logged \cup Elements(SubSeq(q, lc + 1, b))
  BY <1>3, <1>7, <1>8, <1>9
<1>11. QED
  BY <1>4, <1>5, <1>6, <1>10 DEF PassCounted

LEMMA CountedAfterStart ==
    ASSUME TypeOK, StartCompaction,
           \A c \in Sources \ {NoSession} : Covered(c)
    PROVE  PassCounted'
<1> DEFINE s == Reloaded
           q == s.msgs
           n == Dropped(s)
           k == Len(q) - Suffix
<1>1. s \in Sessions /\ Covered(s)
  BY LiveType, LiveIsASource DEF TypeOK, SessionsOrNone
<1>2. q \in Seq(Nat) /\ s.lc \in Nat /\ s.lc <= Len(q) /\ Len(q) \in Nat
  BY <1>1 DEF Sessions, Covered
<1>3. /\ pass'.kind = "idle" /\ pass'.copy = s /\ Logged \subseteq Logged'
      /\ pass'.stage = IF n = 0 THEN "save" ELSE "await"
      /\ pass'.chunk = Elements(SubSeq(Visible(s), 1, n))
  BY LogKept DEF StartCompaction, NoPass
<1> HIDE DEF s
<1> SUFFICES ASSUME n # 0
             PROVE  Elements(SubSeq(q, 1, k)) \subseteq Logged \cup Elements(SubSeq(Visible(s), 1, n))
  BY <1>3 DEF PassCounted
<1>4. Visible(s) = SubSeq(q, s.lc + 1, Len(q)) /\ {q[i] : i \in 1..s.lc} \subseteq Logged
  BY <1>1, <1>2, HiddenPart DEF Covered
<1>5. /\ Visible(s) \in Seq(Nat) /\ Len(Visible(s)) = Len(q) - s.lc
      /\ \A i \in 1..(Len(q) - s.lc) : Visible(s)[i] = q[s.lc + i]
  <2> DEFINE lc == s.lc
             v == SubSeq(q, lc + 1, Len(q))
  <2> HIDE DEF q, lc
  <2>1. q \in Seq(Nat) /\ lc \in Nat /\ lc <= Len(q) /\ Len(q) \in Nat
    BY <1>2 DEF lc, q
  <2>2. /\ v \in Seq(Nat) /\ Len(v) = Len(q) - lc
        /\ \A i \in 1..(Len(q) - lc) : v[i] = q[lc + i]
    BY <2>1
  <2>3. QED
    BY <1>4, <2>2 DEF lc, q
<1>6. n = Len(Visible(s)) - Suffix /\ n \in Nat /\ n <= Len(Visible(s))
  BY <1>5, SizesAssumption DEF Dropped
<1>7. Elements(SubSeq(Visible(s), 1, n)) = {Visible(s)[i] : i \in 1..n}
  BY <1>5, <1>6, SubSeqElements
<1>8. k = s.lc + n /\ k \in Nat /\ k <= Len(q)
  BY <1>2, <1>5, <1>6, SizesAssumption
<1>9. Elements(SubSeq(q, 1, k)) = {q[i] : i \in 1..k}
  BY <1>2, <1>8, SubSeqElements
<1> HIDE DEF q, n, k
<1>10. ASSUME NEW i \in 1..k, i > s.lc PROVE q[i] \in {Visible(s)[j] : j \in 1..n}
  <2>1. i \in Nat /\ i <= s.lc + n /\ i <= Len(q) /\ n \in Nat
    BY <1>2, <1>6, <1>8
  <2>2. i - s.lc \in 1..n /\ i - s.lc \in 1..(Len(q) - s.lc) /\ s.lc + (i - s.lc) = i
    BY <1>2, <1>10, <2>1
  <2>3. Visible(s)[i - s.lc] = q[i]
    BY <1>5, <2>2
  <2>4. QED
    BY <2>2, <2>3
<1>11. ASSUME NEW i \in 1..k, ~(i > s.lc) PROVE q[i] \in Logged
  <2>1. i \in 1..s.lc
    BY <1>2, <1>8, <1>11
  <2>2. QED
    BY <1>4, <2>1
<1>12. QED
  BY <1>7, <1>9, <1>10, <1>11

LEMMA PassCountedStep ==
    ASSUME TypeOK, Holding, Filed, [Next]_vars, ~misfiled'
    PROVE  PassCounted'
<1>1. /\ ~misfiled /\ Logged \subseteq Logged'
      /\ \/ pass' = pass \/ pass'.stage # "await"
         \/ PickChunk /\ Boundary(Live) > Live.lc
         \/ StartCompaction
  BY PassMoves
<1>2. PassCounted /\ \A c \in Sources \ {NoSession} : Covered(c)
  BY <1>1, CoveredSources DEF Filed
<1>3. CASE pass' = pass
  BY <1>1, <1>2, <1>3 DEF PassCounted
<1>4. CASE pass'.stage # "await"
  BY <1>4 DEF PassCounted
<1>5. CASE PickChunk /\ Boundary(Live) > Live.lc
  <2>1. Covered(Live)
    BY <1>2, LiveIsASource
  <2>2. QED
    BY <1>5, <2>1, CountedAfterPick
<1>6. CASE StartCompaction
  BY <1>2, <1>6, CountedAfterStart
<1>7. QED
  BY <1>1, <1>3, <1>4, <1>5, <1>6

(* A cursor is moved over what is covered, or was counted. *)
LEMMA HidingIsCovered ==
    ASSUME TypeOK, Holding, Filed, HideStep, ~misfiled'
    PROVE  \A c \in AllCopies' : c.lc <= Len(c.msgs) /\ Elements(Hidden(c)) \subseteq Logged'
<1>1. ASSUME NEW logged \in BOOLEAN, CompactIdle(logged)
      PROVE  \A c \in AllCopies' : c.lc <= Len(c.msgs) /\ Elements(Hidden(c)) \subseteq Logged'
  <2> DEFINE s == pass.copy
             n == Len(s.msgs) - Suffix
             h == [s EXCEPT !.lc = n]
  <2>1. /\ turn' = turn /\ cache' = cache /\ pass.kind = "idle" /\ pass.stage = "await"
        /\ UNCHANGED <<files, misfiled>> /\ history \subseteq history'
        /\ unlogged' = unlogged \cup (pass.chunk \ history')
        /\ pass' = [pass EXCEPT !.stage = "save", !.copy.lc = Len(pass.copy.msgs) - Suffix]
    BY <1>1, AppendsHistoryType DEF CompactIdle, ghosts
  <2>2. pass \in Passes /\ s \in Sessions
    BY <2>1 DEF Holding, TypeOK, Passes, SessionsOrNone
  <2>3. n \in Nat /\ n <= Len(s.msgs)
    BY <2>1, <2>2, SizesAssumption DEF Holding, Sessions
  <2>4. pass'.copy = h
    BY <2>1, <2>2 DEF Passes
  <2>5. Held' \subseteq Sources \cup {h}
    BY <2>1, <2>4 DEF Held, TaskCopies, Sources
  <2>6. h \in Sessions /\ h.lc = n /\ h.msgs = s.msgs
    BY <2>2, <2>3 DEF Sessions
  <2>7. PassCounted /\ \A c \in Sources \ {NoSession} : Covered(c)
    BY <2>1, CoveredSources DEF Filed
  <2> HIDE DEF h
  <2>8. Hidden(h) = SubSeq(s.msgs, 1, n) /\ h.lc <= Len(h.msgs)
    BY <2>3, <2>6, HiddenPart
  <2>9. Elements(Hidden(h)) \subseteq Logged'
    <3>1. Elements(Hidden(h)) \subseteq Logged \cup pass.chunk
      BY <2>1, <2>7, <2>8 DEF PassCounted
    <3>2. Logged \cup pass.chunk \subseteq Logged'
      BY <2>1 DEF Logged
    <3>3. QED
      BY <3>1, <3>2
  <2>10. AllCopies' \subseteq (Sources \ {NoSession}) \cup {h}
    BY <2>1, <2>5, HeldParts DEF AllCopies, files
  <2>11. QED
    <3>1. Logged \subseteq Logged'
      BY <2>1 DEF Logged
    <3>2. QED
      BY <2>7, <2>8, <2>9, <2>10, <3>1 DEF Covered
<1>2. ASSUME NEW logged \in BOOLEAN, Summarise(TRUE, logged)
      PROVE  \A c \in AllCopies' : c.lc <= Len(c.msgs) /\ Elements(Hidden(c)) \subseteq Logged'
  <2> DEFINE h == [Live EXCEPT !.lc = pass.end]
  <2>1. /\ turn' = turn /\ cache' = h /\ pass.kind = "tokens" /\ pass.stage = "await"
        /\ UNCHANGED files /\ history \subseteq history'
        /\ unlogged' = unlogged \cup (pass.chunk \ history')
        /\ pass' = [pass EXCEPT !.stage = "save", !.copy = h]
        /\ misfiled' = (misfiled \/ Hidden(h) # pass.head)
    BY <1>2, AppendsHistoryType DEF Summarise
  <2>2. pass \in Passes /\ Live \in Sessions /\ pass.end \in Nat
    BY LiveType DEF TypeOK, Passes
  <2>3. pass'.copy = h
    BY <2>1, <2>2 DEF Passes
  <2>4. Held' \subseteq Sources \cup {h}
    BY <2>1, <2>3 DEF Held, TaskCopies, Sources
  <2>5. h \in Sessions /\ h.lc = pass.end /\ h.msgs = Live.msgs
    BY <2>2 DEF Sessions
  <2> HIDE DEF h
  <2>6. PassCounted /\ \A c \in Sources \ {NoSession} : Covered(c)
    BY <2>1, CoveredSources DEF Filed
  <2>7. Hidden(h) = pass.head
    BY <2>1
  <2>8. Elements(Hidden(h)) \subseteq Logged'
    <3>1. Elements(Hidden(h)) \subseteq Logged \cup pass.chunk
      BY <2>1, <2>6, <2>7 DEF PassCounted
    <3>2. Logged \cup pass.chunk \subseteq Logged'
      BY <2>1 DEF Logged
    <3>3. QED
      BY <3>1, <3>2
  <2>9. h.lc <= Len(h.msgs)
    <3>1. Len(Hidden(h)) = pass.end
      BY <2>1, <2>6, <2>7 DEF PassCounted
    <3>2. h.msgs \in Seq(Nat) /\ Len(h.msgs) \in Nat
      BY <2>5 DEF Sessions
    <3>3. HiddenLen(h) \in Nat /\ HiddenLen(h) <= Len(h.msgs)
      BY <2>2, <2>5, <3>2 DEF HiddenLen
    <3>4. Len(Hidden(h)) = HiddenLen(h)
      BY <3>2, <3>3 DEF Hidden
    <3>5. QED
      BY <2>5, <3>1, <3>3, <3>4
  <2>10. AllCopies' \subseteq (Sources \ {NoSession}) \cup {h}
    BY <2>1, <2>4, HeldParts DEF AllCopies, files
  <2>11. QED
    <3>1. Logged \subseteq Logged'
      BY <2>1 DEF Logged
    <3>2. QED
      BY <2>6, <2>8, <2>9, <2>10, <3>1 DEF Covered
<1>3. QED
  BY <1>1, <1>2 DEF HideStep

LEMMA FiledStep ==
    ASSUME TypeOK, Holding, Filed, [Next]_vars
    PROVE  Filed'
<1> SUFFICES ASSUME ~misfiled'
             PROVE  /\ Elements(archive') \subseteq Logged'
                    /\ \A c \in AllCopies' : c.lc <= Len(c.msgs) /\ Elements(Hidden(c)) \subseteq Logged'
  BY PassCountedStep DEF Filed, Covered
<1>1. ~misfiled /\ Logged \subseteq Logged' /\ archive \in Seq(Nat)
  BY PassMoves DEF TypeOK
<1>2. /\ Elements(archive) \subseteq Logged
      /\ \A c \in Sources \ {NoSession} : c \in Sessions /\ Covered(c)
  BY <1>1, CoveredSources, SourcesType DEF Filed, SessionsOrNone
<1>3. CASE CopyStep
  BY <1>1, <1>2, <1>3, CopiesAfterCopy DEF Covered, CopyStep, files
<1>4. CASE HideStep
  <2>1. UNCHANGED files
    BY <1>4 DEF HideStep
  <2>2. QED
    BY <1>1, <1>2, <1>4, <2>1, HidingIsCovered DEF files
<1>5. CASE SaveStep
  <2>1. PICK d \in Sources \ {NoSession}, s \in Sessions, ok \in BOOLEAN,
             by \in Lanes \cup {"pass", "command", "rename", "title"} :
             Saved(s, d) /\ \E before \in {cache, s} : Saves(s, before, ok, by)
    BY <1>5 DEF SaveStep
  <2>2. PICK before \in {cache, s} : Saves(s, before, ok, by)
    BY <2>1
  <2>3. Covered(s) /\ Covered(Trimmed(s)) /\ Hidden(s) \in Seq(Nat)
    BY <1>2, <2>1, SavedIsCovered, SplitSession
  <2>4. Elements(archive') \subseteq Logged
    <3>1. Elements(archive') \subseteq Elements(archive) \cup Elements(Hidden(s))
      BY <2>2, ArchiveAfterSave
    <3>2. QED
      BY <1>2, <2>3, <3>1 DEF Covered
  <2>5. AllCopies' \subseteq (Sources \ {NoSession}) \cup {s, Trimmed(s)}
    BY <1>5, <2>2, CopiesAfterSave DEF SaveStep
  <2>6. \A c \in AllCopies' : Covered(c)
    BY <1>2, <2>3, <2>5
  <2>7. QED
    BY <1>1, <2>4, <2>6 DEF Covered
<1>6. CASE ResetStep
  <2>1. PICK s \in Sources \ {NoSession}, ok \in BOOLEAN :
             \E after \in {cache, NoSession, Cleared(s)} : Resets(s, after, ok)
    BY <1>6 DEF ResetStep
  <2>2. PICK after \in {cache, NoSession, Cleared(s)} : Resets(s, after, ok)
    BY <2>1
  <2>3. UNCHANGED <<turn, pass>>
    BY <1>6 DEF ResetStep
  <2>4. Elements(archive') \subseteq Elements(archive)
    BY <2>2 DEF Resets, Elements
  <2>5. Covered(Cleared(s))
    <3>1. s \in Sessions /\ 0 \in Nat
      BY <1>2
    <3>2. Cleared(s) \in Sessions /\ Cleared(s).lc = 0
      BY <3>1, SessionForms DEF Cleared, Sessions
    <3>3. QED
      BY <3>2, NothingHidden
  <2>6. AllCopies' \subseteq (Sources \ {NoSession}) \cup {Cleared(s)}
    BY <2>2, <2>3, CopiesAfterReset
  <2>7. \A c \in AllCopies' : Covered(c)
    BY <1>2, <2>5, <2>6
  <2>8. QED
    BY <1>1, <1>2, <2>4, <2>7 DEF Covered
<1>7. ASSUME NEW ok \in BOOLEAN, DeleteSession(ok)
      PROVE  /\ Elements(archive') \subseteq Logged'
             /\ \A c \in AllCopies' : c.lc <= Len(c.msgs) /\ Elements(Hidden(c)) \subseteq Logged'
  <2>1. Elements(archive') \subseteq Elements(archive)
    BY <1>7, CopiesAfterDelete DEF Elements
  <2>2. \A c \in AllCopies' : Covered(c)
    BY <1>1, <1>7, CopiesAfterDelete DEF Filed
  <2>3. QED
    BY <1>1, <1>2, <2>1, <2>2 DEF Covered
<1>8. CASE Kill
  <2>1. ASSUME NEW s \in AllCopies PROVE Elements(Hidden(s)) \subseteq Logged
    BY <1>1, <2>1 DEF Filed, Covered
  <2>2. Elements(archive') \subseteq Logged
    BY <1>2, <1>8, <2>1, ArchiveAfterKill
  <2>3. AllCopies' \subseteq AllCopies
    BY <1>8, CopiesAfterKill DEF AllCopies
  <2>4. \A c \in AllCopies' : Covered(c)
    BY <1>1, <2>3 DEF Filed
  <2>5. QED
    BY <1>1, <2>2, <2>4 DEF Covered
<1>9. QED
  BY <1>3, <1>4, <1>5, <1>6, <1>7, <1>8, StepShapes

(* Whatever was archived or hidden from the model is covered by history.jsonl, in
   a summary or in full, unless the pass that hid it could not append its entry
   there, or some cut was applied to a session whose messages had moved since the
   cut was chosen. *)
THEOREM HistoryCovers == Spec => []HiddenIsCovered
<1>1. Init => Filed
  <2> SUFFICES ASSUME Init PROVE Filed
    OBVIOUS
  <2>1. AllCopies = {} /\ archive = <<>> /\ pass.stage = "pick"
    BY NoCopiesAtFirst DEF Init, NoPass
  <2>2. QED
    BY <2>1 DEF Filed, PassCounted, Elements
<1>2. TypeOK /\ Holding /\ Filed /\ [Next]_vars => Filed'
  BY FiledStep
<1>3. Filed => HiddenIsCovered
  BY DEF Filed, HiddenIsCovered, AllCopies, Held, Covered, Logged
<1>4. QED
  BY <1>1, <1>2, <1>3, TypeCorrect, PTL DEF Spec
================================================================================
