--------------------------- MODULE SessionStore_proofs ---------------------------
(***************************************************************************)
(* Proofs about SessionStore, for any lanes, sizes and bounds.             *)
(***************************************************************************)
EXTENDS SessionStore, TLAPS

(* A lane holds a copy from the start of the run to the save, a pass when it
   has something to save; the turn whose pass it is waits for it; what idle
   compaction leaves visible is there. *)
Holding ==
    /\ \A l \in Lanes : turn[l].copy # NoSession <=> turn[l].phase \in {"running", "finishing"}
    /\ pass.stage = "save" \/ pass.kind = "idle" => pass.copy # NoSession
    /\ pass.kind = "tokens" /\ pass.by \in Lanes => turn[pass.by].phase = "consolidating"
    /\ pass.kind = "idle" /\ pass.stage = "await" => Len(pass.copy.msgs) >= Suffix

LEMMA AppendElements ==
    ASSUME NEW q \in Seq(Nat), NEW e \in Nat
    PROVE  /\ Append(q, e) \in Seq(Nat)
           /\ Elements(Append(q, e)) = Elements(q) \cup {e}
<1>1. /\ Append(q, e) \in Seq(Nat) /\ Len(Append(q, e)) = Len(q) + 1
      /\ \A i \in 1..Len(q) : Append(q, e)[i] = q[i]
      /\ Append(q, e)[Len(q) + 1] = e
  OBVIOUS
<1>2. /\ DOMAIN q = 1..Len(q) /\ Len(q) \in Nat
      /\ DOMAIN Append(q, e) = 1..(Len(q) + 1)
  BY <1>1
<1>3. QED
  BY <1>1, <1>2 DEF Elements

LEMMA ConcatElements ==
    ASSUME NEW a \in Seq(Nat), NEW b \in Seq(Nat)
    PROVE  /\ a \o b \in Seq(Nat)
           /\ Elements(a \o b) = Elements(a) \cup Elements(b)
<1>1. /\ a \o b \in Seq(Nat) /\ Len(a \o b) = Len(a) + Len(b)
      /\ \A i \in 1..Len(a) : (a \o b)[i] = a[i]
      /\ \A i \in 1..Len(b) : (a \o b)[Len(a) + i] = b[i]
  OBVIOUS
<1>2. /\ DOMAIN a = 1..Len(a) /\ DOMAIN b = 1..Len(b)
      /\ Len(a) \in Nat /\ Len(b) \in Nat
      /\ DOMAIN (a \o b) = 1..(Len(a) + Len(b))
  BY <1>1
<1>3. Elements(a \o b) \subseteq Elements(a) \cup Elements(b)
  <2> SUFFICES ASSUME NEW i \in 1..(Len(a) + Len(b))
               PROVE (a \o b)[i] \in Elements(a) \cup Elements(b)
    BY <1>2 DEF Elements
  <2>1. CASE i <= Len(a)
    BY <2>1, <1>1, <1>2 DEF Elements
  <2>2. CASE i > Len(a)
    <3>1. i - Len(a) \in 1..Len(b) /\ i = Len(a) + (i - Len(a))
      BY <2>2, <1>2
    <3>2. (a \o b)[i] = b[i - Len(a)]
      BY <3>1, <1>1
    <3>3. QED
      BY <3>1, <3>2, <1>2 DEF Elements
  <2>3. QED
    BY <2>1, <2>2, <1>2
<1>4. Elements(a) \subseteq Elements(a \o b)
  BY <1>1, <1>2 DEF Elements
<1>5. Elements(b) \subseteq Elements(a \o b)
  <2> SUFFICES ASSUME NEW i \in 1..Len(b) PROVE b[i] \in Elements(a \o b)
    BY <1>2 DEF Elements
  <2>1. Len(a) + i \in 1..(Len(a) + Len(b))
    BY <1>2
  <2>2. QED
    BY <2>1, <1>1, <1>2 DEF Elements
<1>6. QED
  BY <1>1, <1>3, <1>4, <1>5

LEMMA SubSeqElements ==
    ASSUME NEW q \in Seq(Nat), NEW m \in Nat \ {0}, NEW n \in Nat, n <= Len(q)
    PROVE  /\ SubSeq(q, m, n) \in Seq(Nat)
           /\ Elements(SubSeq(q, m, n)) = {q[i] : i \in m..n}
<1>1. /\ SubSeq(q, m, n) \in Seq(Nat)
      /\ Len(SubSeq(q, m, n)) = IF m <= n THEN n - m + 1 ELSE 0
      /\ \A i \in 1..(n - m + 1) : SubSeq(q, m, n)[i] = q[m + i - 1]
  OBVIOUS
<1>2. DOMAIN SubSeq(q, m, n) = 1..(n - m + 1)
  BY <1>1
<1>3. Elements(SubSeq(q, m, n)) \subseteq {q[i] : i \in m..n}
  <2> SUFFICES ASSUME NEW i \in 1..(n - m + 1) PROVE SubSeq(q, m, n)[i] \in {q[k] : k \in m..n}
    BY <1>2 DEF Elements
  <2>1. m + i - 1 \in m..n
    OBVIOUS
  <2>2. QED
    BY <2>1, <1>1
<1>4. {q[i] : i \in m..n} \subseteq Elements(SubSeq(q, m, n))
  <2> SUFFICES ASSUME NEW i \in m..n PROVE q[i] \in Elements(SubSeq(q, m, n))
    OBVIOUS
  <2>1. i - m + 1 \in 1..(n - m + 1) /\ m + (i - m + 1) - 1 = i
    OBVIOUS
  <2>2. SubSeq(q, m, n)[i - m + 1] = q[i]
    BY <2>1, <1>1
  <2>3. QED
    BY <2>1, <2>2, <1>2 DEF Elements
<1>5. QED
  BY <1>1, <1>3, <1>4

LEMMA NumbersOf == ASSUME NEW q \in Seq(Nat) PROVE Elements(q) \subseteq Nat
BY DEF Elements

(* A session splits into what is hidden and what is visible. *)
LEMMA SplitSession ==
    ASSUME NEW s \in Sessions
    PROVE  /\ Hidden(s) \in Seq(Nat) /\ Visible(s) \in Seq(Nat)
           /\ Elements(s.msgs) = Elements(Hidden(s)) \cup Elements(Visible(s))
           /\ Trimmed(s) \in Sessions /\ Trimmed(s).msgs = Visible(s)
           /\ Len(Visible(s)) \in Nat
<1> DEFINE h == HiddenLen(s)
           q == s.msgs
<1>1. q \in Seq(Nat) /\ s.lc \in Nat /\ Len(q) \in Nat
  BY DEF Sessions
<1>2. h \in Nat /\ h <= Len(q)
  BY <1>1 DEF HiddenLen
<1> HIDE DEF h, q
<1>3. /\ SubSeq(q, 1, h) \in Seq(Nat)
      /\ Elements(SubSeq(q, 1, h)) = {q[i] : i \in 1..h}
  BY <1>1, <1>2, SubSeqElements
<1>4. /\ SubSeq(q, h + 1, Len(q)) \in Seq(Nat)
      /\ Elements(SubSeq(q, h + 1, Len(q))) = {q[i] : i \in (h + 1)..Len(q)}
  BY <1>1, <1>2, SubSeqElements
<1>5. DOMAIN q = (1..h) \cup ((h + 1)..Len(q))
  <2>1. DOMAIN q = 1..Len(q)
    BY <1>1
  <2>2. 1..Len(q) = (1..h) \cup ((h + 1)..Len(q))
    BY <1>1, <1>2
  <2>3. QED
    BY <2>1, <2>2
<1>6. Elements(q) = {q[i] : i \in 1..h} \cup {q[i] : i \in (h + 1)..Len(q)}
  BY <1>5 DEF Elements
<1>7. Hidden(s) = SubSeq(q, 1, h) /\ Visible(s) = SubSeq(q, h + 1, Len(q))
  BY DEF Hidden, Visible, h, q
<1>8. Trimmed(s) \in Sessions /\ Trimmed(s).msgs = Visible(s)
  BY <1>4, <1>7 DEF Trimmed, Sessions
<1>9. Hidden(s) \in Seq(Nat) /\ Visible(s) \in Seq(Nat) /\ Len(Visible(s)) \in Nat
  BY <1>3, <1>4, <1>7
<1>10. Elements(s.msgs) = Elements(Hidden(s)) \cup Elements(Visible(s))
  BY <1>3, <1>4, <1>6, <1>7 DEF q
<1>11. QED
  BY <1>8, <1>9, <1>10

(* Adding an exchange, clearing, hiding and naming keep a session a session. *)
LEMMA SessionForms ==
    ASSUME NEW s \in Sessions, NEW e \in Nat
    PROVE  /\ With(s, e) \in Sessions /\ With(s, e) # NoSession
           /\ ContentsOf(With(s, e)) = ContentsOf(s) \cup {e}
           /\ Cleared(s) \in Sessions /\ ContentsOf(Cleared(s)) = {}
           /\ [s EXCEPT !.lc = e] \in Sessions
           /\ ContentsOf([s EXCEPT !.lc = e]) = ContentsOf(s)
           /\ \A t \in Titles : /\ [s EXCEPT !.title = t] \in Sessions
                                /\ ContentsOf([s EXCEPT !.title = t]) = ContentsOf(s)
           /\ ContentsOf(s) = Elements(s.msgs) /\ s # NoSession
<1>1. s.msgs \in Seq(Nat)
  BY DEF Sessions
<1>2. ContentsOf(s) = Elements(s.msgs) /\ s # NoSession
  BY NoSessionAssumption DEF ContentsOf
<1>3. With(s, e) \in Sessions /\ With(s, e).msgs = Append(s.msgs, e)
  BY <1>1, AppendElements DEF With, Sessions
<1>4. With(s, e) # NoSession /\ ContentsOf(With(s, e)) = ContentsOf(s) \cup {e}
  BY <1>1, <1>2, <1>3, AppendElements, NoSessionAssumption DEF ContentsOf
<1>5. Cleared(s) \in Sessions /\ Cleared(s).msgs = <<>>
  <2>1. <<>> \in Seq(Nat)
    OBVIOUS
  <2>2. QED
    BY <2>1 DEF Cleared, Sessions
<1>6. ContentsOf(Cleared(s)) = {}
  BY <1>5 DEF ContentsOf, Elements
<1>7. [s EXCEPT !.lc = e] \in Sessions /\ [s EXCEPT !.lc = e].msgs = s.msgs
  BY DEF Sessions
<1>8. ContentsOf([s EXCEPT !.lc = e]) = ContentsOf(s)
  BY <1>2, <1>7, NoSessionAssumption DEF ContentsOf
<1>9. ASSUME NEW t \in Titles
      PROVE /\ [s EXCEPT !.title = t] \in Sessions
            /\ ContentsOf([s EXCEPT !.title = t]) = ContentsOf(s)
  <2>1. [s EXCEPT !.title = t] \in Sessions /\ [s EXCEPT !.title = t].msgs = s.msgs
    BY DEF Sessions
  <2>2. QED
    BY <1>2, <2>1, NoSessionAssumption DEF ContentsOf
<1>10. QED
  BY <1>2, <1>3, <1>4, <1>5, <1>6, <1>7, <1>8, <1>9

LEMMA LiveType ==
    ASSUME TypeOK
    PROVE  /\ Fresh \in Sessions /\ ContentsOf(Fresh) = {}
           /\ Live \in Sessions /\ Existing \in SessionsOrNone /\ Reloaded \in Sessions
           /\ Live \in {cache, file, Fresh} /\ Reloaded \in {file, Fresh}
           /\ cache # NoSession => Live = cache
           /\ cache = NoSession => Live = Reloaded
           /\ deleted => Reloaded = Fresh
           /\ ~deleted => ContentsOf(Reloaded) = ContentsOf(file)
           /\ ContentsOf(NoSession) = {}
<1>1. Fresh \in Sessions /\ Fresh.msgs = <<>>
  BY DEF Fresh, Sessions, Titles
<1>2. ContentsOf(Fresh) = {} /\ ContentsOf(NoSession) = {}
  BY <1>1 DEF ContentsOf, Elements
<1>3. Reloaded \in Sessions /\ Reloaded \in {file, Fresh}
  BY <1>1 DEF TypeOK, Reloaded, SessionsOrNone
<1>4. Existing \in SessionsOrNone /\ Live \in Sessions
  BY <1>3 DEF TypeOK, Existing, Live, SessionsOrNone
<1>5. /\ Live \in {cache, file, Fresh}
      /\ cache # NoSession => Live = cache
      /\ cache = NoSession => Live = Reloaded
  BY <1>3 DEF Live
<1>6. /\ deleted => Reloaded = Fresh
      /\ ~deleted => ContentsOf(Reloaded) = ContentsOf(file)
  BY <1>2 DEF Reloaded
<1>7. QED
  BY <1>1, <1>2, <1>3, <1>4, <1>5, <1>6

ArchiveType == archive \in Seq(Nat) /\ tail \in Tails /\ swallowed \subseteq Nat

(* What is read of an appended prefix is part of it, all of it behind a whole
   line. *)
LEMMA ReadableType ==
    ASSUME TypeOK, NEW q \in Seq(Nat), NEW n \in 0..Len(q)
    PROVE  /\ Readable(SubSeq(q, 1, n)) \in Seq(Nat)
           /\ Elements(Readable(SubSeq(q, 1, n))) \subseteq Elements(q)
           /\ tail = "whole" => Readable(SubSeq(q, 1, Len(q))) = q
<1> DEFINE r == SubSeq(q, 1, n)
<1>1. n \in Nat /\ n <= Len(q) /\ Len(q) \in Nat /\ DOMAIN q = 1..Len(q)
  OBVIOUS
<1>2. r \in Seq(Nat) /\ Elements(r) = {q[i] : i \in 1..n}
  BY <1>1, SubSeqElements
<1>3. Elements(r) \subseteq Elements(q)
  <2>1. \A i \in 1..n : i \in DOMAIN q
    BY <1>1
  <2>2. QED
    BY <1>2, <2>1 DEF Elements
<1>4. SubSeq(q, 1, Len(q)) = q
  BY <1>1
<1> HIDE DEF r
<1>5. CASE tail = "whole"
  BY <1>2, <1>3, <1>4, <1>5 DEF Readable, r
<1>6. CASE tail = "line"
  <2>1. Len(r) \in Nat /\ DOMAIN r = 1..Len(r) /\ Len(r) <= Len(r) /\ 2 \in Nat \ {0}
    BY <1>2
  <2>2. /\ SubSeq(r, 2, Len(r)) \in Seq(Nat)
        /\ Elements(SubSeq(r, 2, Len(r))) = {r[i] : i \in 2..Len(r)}
    BY <1>2, <2>1, SubSeqElements
  <2>3. \A i \in 2..Len(r) : i \in DOMAIN r
    BY <2>1
  <2>4. Elements(SubSeq(r, 2, Len(r))) \subseteq Elements(r)
    BY <2>2, <2>3 DEF Elements
  <2>5. Readable(r) = SubSeq(r, 2, Len(r))
    BY <1>6 DEF Readable
  <2>6. QED
    BY <1>3, <1>6, <2>2, <2>4, <2>5 DEF r
<1>7. CASE tail = "character"
  <2>1. Readable(r) = <<>>
    BY <1>7 DEF Readable
  <2>2. <<>> \in Seq(Nat) /\ Elements(<<>>) = {}
    BY DEF Elements
  <2>3. QED
    BY <1>7, <2>1, <2>2 DEF r
<1>8. QED
  BY <1>5, <1>6, <1>7 DEF TypeOK, Tails

(* What an append does to the archive. *)
LEMMA AppendsKeeps ==
    ASSUME TypeOK, NEW q \in Seq(Nat), NEW whole \in BOOLEAN, AppendsArchive(q, whole)
    PROVE  /\ ArchiveType' /\ swallowed \subseteq swallowed'
           /\ Elements(archive) \subseteq Elements(archive')
           /\ Elements(archive') \subseteq Elements(archive) \cup Elements(q)
           /\ whole => Elements(q) \subseteq Elements(archive') \cup swallowed'
           /\ ~whole => swallowed' = swallowed
           /\ whole /\ tail = "whole" => archive' = archive \o q /\ tail' = "whole"
<1>1. PICK n \in IF whole THEN {Len(q)} ELSE 0..Len(q) :
          /\ archive' = archive \o Readable(SubSeq(q, 1, n))
          /\ tail' \in IF tail = "character" THEN {tail}
                       ELSE {IF n = 0 THEN tail ELSE "whole"}
                                \cup (IF n < Len(q) THEN {"line", "character"} ELSE {})
          /\ swallowed' = IF whole THEN swallowed \cup (Elements(q) \ Elements(archive'))
                          ELSE swallowed
  BY DEF AppendsArchive
<1>2. n \in 0..Len(q) /\ (whole => n = Len(q)) /\ Len(q) \in Nat
  BY <1>1
<1> DEFINE r == Readable(SubSeq(q, 1, n))
<1>3. /\ r \in Seq(Nat) /\ Elements(r) \subseteq Elements(q)
      /\ whole /\ tail = "whole" => r = q
  BY <1>2, ReadableType
<1> HIDE DEF r
<1>4. archive' = archive \o r
  BY <1>1 DEF r
<1>5. archive \o r \in Seq(Nat) /\ Elements(archive \o r) = Elements(archive) \cup Elements(r)
  <2>1. archive \in Seq(Nat)
    BY DEF TypeOK
  <2>2. QED
    BY <1>3, <2>1, ConcatElements
<1>6. Elements(q) \subseteq Nat /\ swallowed \subseteq Nat /\ tail \in Tails
  BY NumbersOf DEF TypeOK
<1>7. tail' \in Tails
  BY <1>1, <1>6 DEF Tails
<1>8. /\ swallowed' \subseteq Nat /\ swallowed \subseteq swallowed'
      /\ whole => Elements(q) \subseteq Elements(archive') \cup swallowed'
      /\ ~whole => swallowed' = swallowed
  BY <1>1, <1>6
<1>9. /\ Elements(archive) \subseteq Elements(archive')
      /\ Elements(archive') \subseteq Elements(archive) \cup Elements(q)
      /\ archive' \in Seq(Nat)
  BY <1>3, <1>4, <1>5
<1>10. whole /\ tail = "whole" => archive' = archive \o q /\ tail' = "whole"
  <2> SUFFICES ASSUME whole, tail = "whole" PROVE archive' = archive \o q /\ tail' = "whole"
    OBVIOUS
  <2>1. n = Len(q)
    BY <1>2
  <2>2. tail' = "whole"
    BY <1>1, <1>2, <2>1
  <2>3. QED
    BY <1>3, <1>4, <2>2
<1>11. QED
  BY <1>7, <1>8, <1>9, <1>10 DEF ArchiveType

(* What a save does to the types and to what is on disk and in the cache. *)
LEMMA SavesKeeps ==
    ASSUME TypeOK, NEW s \in Sessions, NEW before \in SessionsOrNone,
           NEW ok \in BOOLEAN, NEW by, Saves(s, before, ok, by)
    PROVE  /\ file' \in SessionsOrNone /\ cache' \in SessionsOrNone /\ ArchiveType'
           /\ overlapped' \in BOOLEAN /\ swallowed \subseteq swallowed'
           /\ deleted => UNCHANGED files /\ cache' = before
           /\ ~ok => UNCHANGED <<file, swallowed>> /\ cache' = before
           /\ Elements(archive) \subseteq Elements(archive')
           /\ Elements(archive') \subseteq Elements(archive) \cup ContentsOf(s)
           /\ ContentsOf(file') \subseteq ContentsOf(file) \cup ContentsOf(s)
           /\ ContentsOf(cache') \subseteq ContentsOf(before) \cup ContentsOf(s)
           /\ ok /\ ~deleted =>
                  /\ ContentsOf(s) \subseteq Elements(archive') \cup swallowed' \cup ContentsOf(file')
                  /\ file' = Trimmed(s) /\ cache' = file'
<1>1. /\ Hidden(s) \in Seq(Nat) /\ Trimmed(s) \in Sessions
      /\ ContentsOf(Trimmed(s)) = Elements(Visible(s))
      /\ ContentsOf(s) = Elements(Hidden(s)) \cup Elements(Visible(s))
      /\ file \in SessionsOrNone
  BY SplitSession, NoSessionAssumption DEF ContentsOf, TypeOK
<1>2. overlapped' \in BOOLEAN
  <2>1. CASE deleted
    BY <2>1 DEF Saves, TypeOK
  <2>2. CASE ~deleted
    BY <2>2 DEF Saves
  <2>3. QED
    BY <2>1, <2>2
<1>3. CASE deleted
  <2>1. UNCHANGED files /\ cache' = before
    BY <1>3 DEF Saves
  <2>2. QED
    BY <1>2, <1>3, <2>1 DEF TypeOK, ArchiveType, files
<1>4. CASE ~deleted
  <2>1. /\ AppendsArchive(Hidden(s), ok)
        /\ file' = IF ok THEN Trimmed(s) ELSE file
        /\ cache' = IF ok THEN Trimmed(s) ELSE before
    BY <1>4 DEF Saves
  <2>2. /\ ArchiveType' /\ swallowed \subseteq swallowed'
        /\ Elements(archive) \subseteq Elements(archive')
        /\ Elements(archive') \subseteq Elements(archive) \cup Elements(Hidden(s))
        /\ ok => Elements(Hidden(s)) \subseteq Elements(archive') \cup swallowed'
        /\ ~ok => swallowed' = swallowed
    BY <1>1, <2>1, AppendsKeeps
  <2>3. CASE ok
    BY <1>1, <1>2, <1>4, <2>1, <2>2, <2>3 DEF SessionsOrNone
  <2>4. CASE ~ok
    BY <1>1, <1>2, <1>4, <2>1, <2>2, <2>4
  <2>5. QED
    BY <2>3, <2>4
<1>5. QED
  BY <1>3, <1>4

LEMMA TaskConstants ==
    /\ NoSession \in SessionsOrNone /\ NoTurn \in Turns /\ NoPass \in Passes
    /\ \A by \in Lanes \cup {"background"} : TokenPass(by) \in Passes
<1>1. NoSession \in SessionsOrNone /\ <<>> \in Seq(Nat)
  BY DEF SessionsOrNone
<1>2. NoTurn \in Turns
  BY <1>1 DEF NoTurn, Turns, Phases
<1>3. NoPass \in Passes
  BY <1>1 DEF NoPass, Passes
<1>4. \A by \in Lanes \cup {"background"} : TokenPass(by) \in Passes
  BY <1>3 DEF TokenPass, Passes
<1>5. QED
  BY <1>1, <1>2, <1>3, <1>4

LEMMA PhaseType ==
    ASSUME TypeOK, NEW l \in Lanes, NEW p \in Phases
    PROVE  [turn EXCEPT ![l].phase = p] \in [Lanes -> Turns]
BY DEF TypeOK, Turns

LEMMA CopyType ==
    ASSUME TypeOK, NEW l \in Lanes, NEW t \in Turns
    PROVE  [turn EXCEPT ![l] = t] \in [Lanes -> Turns]
BY DEF TypeOK

LEMMA PassEndsType ==
    ASSUME TypeOK, PassEnds
    PROVE  pass' \in Passes /\ turn' \in [Lanes -> Turns] /\ archiving' \in BOOLEAN
<1>1. NoPass \in Passes
  BY TaskConstants
<1>2. turn' \in [Lanes -> Turns]
  BY DEF TypeOK, PassEnds, Turns, Phases
<1>3. archiving' \in BOOLEAN
  BY DEF TypeOK, PassEnds
<1>4. QED
  BY <1>1, <1>2, <1>3 DEF PassEnds

LEMMA AbortType == ASSUME TypeOK, AbortTurns PROVE turn' \in [Lanes -> Turns] /\ pass' \in Passes
<1>1. NoPass \in Passes /\ NoTurn \in Turns
  BY TaskConstants
<1>2. turn \in [Lanes -> Turns] /\ pass \in Passes
  BY DEF TypeOK
<1>3. QED
  BY <1>1, <1>2 DEF AbortTurns

LEMMA InitType == Init => TypeOK
<1> SUFFICES ASSUME Init PROVE TypeOK
  OBVIOUS
<1>1. NoSession \in SessionsOrNone /\ NoTurn \in Turns /\ NoPass \in Passes
  BY TaskConstants
<1>2. <<>> \in Seq(Nat)
  OBVIOUS
<1>4. file \in SessionsOrNone /\ cache \in SessionsOrNone /\ archive \in Seq(Nat)
  BY <1>1, <1>2 DEF Init
<1>5. turn \in [Lanes -> Turns] /\ pass \in Passes
  BY <1>1 DEF Init
<1>6. deleted \in BOOLEAN /\ archiving \in BOOLEAN /\ titling \in BOOLEAN
  BY DEF Init
<1>7. misfiled \in BOOLEAN /\ overlapped \in BOOLEAN /\ named \in BOOLEAN
  BY DEF Init
<1>8. /\ background \in Nat /\ made \in Nat /\ events \in Nat
      /\ socket \in {"idle", "clear", "delete"}
      /\ history \subseteq Nat /\ unlogged \subseteq Nat /\ safe \subseteq Nat
      /\ wiped \subseteq Nat /\ forgotten \subseteq Nat /\ swallowed \subseteq Nat
  BY DEF Init
<1>9. /\ tail \in Tails /\ tornLog \in BOOLEAN
      /\ leftover \in [file : SessionsOrNone, archive : Seq(Nat)]
  BY <1>1, <1>2 DEF Init, Tails, NothingLeft
<1>10. QED
  BY <1>4, <1>5, <1>6, <1>7, <1>8, <1>9 DEF TypeOK

LEMMA SpendType == ASSUME TypeOK, NEW n \in {1, 2}, Spend(n) PROVE events' \in Nat
BY DEF TypeOK, Spend

LEMMA OutcomeType == ASSUME TypeOK, NEW ok \in BOOLEAN, Outcome(ok) PROVE events' \in Nat
BY DEF TypeOK, Spend, Outcome

LEMMA OnDiskType == TypeOK => OnDisk \subseteq Nat
<1> SUFFICES ASSUME TypeOK PROVE OnDisk \subseteq Nat
  OBVIOUS
<1>1. Elements(archive) \subseteq Nat
  BY NumbersOf DEF TypeOK
<1>2. ContentsOf(file) \subseteq Nat
  BY NumbersOf DEF TypeOK, SessionsOrNone, Sessions, ContentsOf
<1>3. QED
  BY <1>1, <1>2 DEF OnDisk

(* The parts of a transcript a pass counts and hides. *)
LEMMA PartsType ==
    ASSUME NEW s \in Sessions
    PROVE  /\ Boundary(s) > s.lc =>
                  /\ Boundary(s) \in Nat
                  /\ SubSeq(s.msgs, 1, Boundary(s)) \in Seq(Nat)
                  /\ Elements(SubSeq(s.msgs, s.lc + 1, Boundary(s))) \subseteq Nat
           /\ Dropped(s) \in Nat
           /\ Elements(SubSeq(Visible(s), 1, Dropped(s))) \subseteq Nat
<1>1. s.msgs \in Seq(Nat) /\ s.lc \in Nat /\ Len(s.msgs) \in Nat
  BY DEF Sessions
<1>2. ASSUME Boundary(s) > s.lc
      PROVE /\ Boundary(s) \in Nat
            /\ SubSeq(s.msgs, 1, Boundary(s)) \in Seq(Nat)
            /\ Elements(SubSeq(s.msgs, s.lc + 1, Boundary(s))) \subseteq Nat
  <2>1. Boundary(s) \in Nat /\ Boundary(s) <= Len(s.msgs)
    BY <1>1, <1>2, SizesAssumption DEF Boundary
  <2>2. SubSeq(s.msgs, 1, Boundary(s)) \in Seq(Nat)
    BY <1>1, <2>1, SubSeqElements
  <2>3. SubSeq(s.msgs, s.lc + 1, Boundary(s)) \in Seq(Nat)
    BY <1>1, <2>1, SubSeqElements
  <2>4. QED
    BY <2>1, <2>2, <2>3, NumbersOf
<1>3. Visible(s) \in Seq(Nat) /\ Len(Visible(s)) \in Nat
  BY SplitSession
<1>4. Dropped(s) \in Nat /\ Dropped(s) <= Len(Visible(s))
  BY <1>3, SizesAssumption DEF Dropped
<1>5. SubSeq(Visible(s), 1, Dropped(s)) \in Seq(Nat)
  BY <1>3, <1>4, SubSeqElements
<1>6. QED
  BY <1>2, <1>4, <1>5, NumbersOf

LEMMA ResetsType ==
    ASSUME TypeOK, NEW s \in Sessions, NEW after \in SessionsOrNone, NEW ok \in BOOLEAN,
           Resets(s, after, ok)
    PROVE  /\ file' \in SessionsOrNone /\ ArchiveType' /\ cache' \in SessionsOrNone
           /\ safe' \subseteq Nat /\ wiped' \subseteq Nat /\ overlapped' \in BOOLEAN
<1>1. Cleared(s) \in SessionsOrNone
  BY SessionForms DEF SessionsOrNone
<1>2. file' \in SessionsOrNone /\ cache' \in SessionsOrNone
  BY <1>1 DEF Resets, TypeOK
<1>3. ArchiveType'
  <2>1. <<>> \in Seq(Nat) /\ "whole" \in Tails
    BY DEF Tails
  <2>2. /\ (archive' = <<>> /\ tail' = "whole") \/ UNCHANGED <<archive, tail>>
        /\ swallowed' = swallowed
    BY DEF Resets
  <2>3. QED
    BY <2>1, <2>2 DEF ArchiveType, TypeOK
<1>4. safe' \subseteq Nat /\ wiped' \subseteq Nat
  BY OnDiskType DEF Resets, TypeOK
<1>5. overlapped' \in BOOLEAN
  BY DEF Resets
<1>6. QED
  BY <1>2, <1>3, <1>4, <1>5

LEMMA SavesNewType ==
    ASSUME TypeOK, NEW s \in Sessions, NEW before \in SessionsOrNone, NEW ok \in BOOLEAN,
           NEW by, SavesNew(s, before, ok, by)
    PROVE  /\ file' \in SessionsOrNone /\ ArchiveType' /\ cache' \in SessionsOrNone
           /\ safe' \subseteq Nat /\ made' \in Nat /\ overlapped' \in BOOLEAN
<1>1. made + 1 \in Nat
  BY DEF TypeOK
<1>2. With(s, made + 1) \in Sessions
  BY <1>1, SessionForms
<1>3. Saves(With(s, made + 1), before, ok, by)
  BY DEF SavesNew
<1>4. safe' \subseteq Nat /\ made' \in Nat
  BY <1>1 DEF SavesNew, TypeOK
<1>5. QED
  BY <1>2, <1>3, <1>4, SavesKeeps

LEMMA AppendsHistoryType ==
    ASSUME TypeOK, NEW whole \in BOOLEAN, AppendsHistory(whole)
    PROVE  /\ history' \subseteq Nat /\ tornLog' \in BOOLEAN /\ history \subseteq history'
           /\ \A c \in SUBSET Nat : unlogged \cup (c \ history') \subseteq Nat
<1>1. history \subseteq Nat /\ unlogged \subseteq Nat /\ pass.chunk \subseteq Nat
      /\ tornLog \in BOOLEAN
  BY DEF TypeOK, Passes
<1>2. /\ history' = IF whole /\ ~tornLog THEN history \cup pass.chunk ELSE history
      /\ tornLog' \in IF whole THEN {FALSE} ELSE {tornLog, TRUE}
  BY DEF AppendsHistory
<1>3. tornLog' \in BOOLEAN
  BY <1>1, <1>2
<1>4. history' \subseteq Nat /\ history \subseteq history'
  BY <1>1, <1>2
<1>5. QED
  BY <1>1, <1>3, <1>4

LEMMA TypeTurns ==
    ASSUME TypeOK, Holding, NEW l \in Lanes, Begin(l) \/ TurnStep(l)
    PROVE  TypeOK'
<1>1. /\ Live \in SessionsOrNone /\ Live # NoSession
      /\ "begun" \in Phases /\ "consolidating" \in Phases /\ "ready" \in Phases
      /\ "running" \in Phases /\ "finishing" \in Phases
  BY LiveType, NoSessionAssumption DEF SessionsOrNone, Phases
<1>2. CASE Begin(l)
  <2>1. turn' \in [Lanes -> Turns] /\ cache' \in SessionsOrNone
    BY <1>1, <1>2, PhaseType DEF Begin
  <2>2. QED
    BY <1>2, <2>1 DEF Begin, TypeOK, files, log, ghosts
<1>3. CASE StartConsolidation(l)
  <2>1. /\ cache' = Live
        /\ \/ turn' = [turn EXCEPT ![l].phase = "consolidating"] /\ pass' = TokenPass(l)
           \/ turn' = [turn EXCEPT ![l].phase = "ready"] /\ pass' = pass
    BY <1>3 DEF StartConsolidation
  <2>2. turn' \in [Lanes -> Turns]
    <3>1. /\ [turn EXCEPT ![l].phase = "consolidating"] \in [Lanes -> Turns]
          /\ [turn EXCEPT ![l].phase = "ready"] \in [Lanes -> Turns]
      BY <1>1, PhaseType
    <3>2. QED
      BY <2>1, <3>1
  <2>3. TokenPass(l) \in Passes /\ pass \in Passes
    BY TaskConstants DEF TypeOK
  <2>4. pass' \in Passes /\ cache' \in SessionsOrNone
    BY <1>1, <2>1, <2>3
  <2>5. QED
    BY <1>3, <2>2, <2>4 DEF StartConsolidation, TypeOK, files, log, ghosts
<1>4. CASE TakeCopy(l)
  <2>1. [phase |-> "running", copy |-> Live] \in Turns
    BY <1>1 DEF Turns
  <2>2. turn' \in [Lanes -> Turns] /\ cache' \in SessionsOrNone
    <3>1. turn' = [turn EXCEPT ![l] = [phase |-> "running", copy |-> Live]] /\ cache' = Live
      BY <1>4 DEF TakeCopy
    <3>2. [turn EXCEPT ![l] = [phase |-> "running", copy |-> Live]] \in [Lanes -> Turns]
      BY <2>1, CopyType
    <3>3. QED
      BY <1>1, <3>1, <3>2
  <2>3. QED
    BY <1>4, <2>2 DEF TakeCopy, TypeOK, files, log, ghosts
<1>5. CASE RunEnds(l)
  <2>1. turn' \in [Lanes -> Turns]
    BY <1>1, <1>5, PhaseType DEF RunEnds
  <2>2. QED
    BY <1>5, <2>1 DEF RunEnds, TypeOK, files, log, ghosts
<1>6. ASSUME NEW ok \in BOOLEAN, PersistFinishedTurn(l, ok) PROVE TypeOK'
  <2>1. turn[l].copy \in Sessions
    BY <1>6 DEF PersistFinishedTurn, Holding, TypeOK, Turns, SessionsOrNone
  <2>2. cache \in SessionsOrNone /\ SavesNew(turn[l].copy, cache, ok, l)
    BY <1>6 DEF PersistFinishedTurn, TypeOK
  <2>3. /\ file' \in SessionsOrNone /\ ArchiveType' /\ cache' \in SessionsOrNone
        /\ safe' \subseteq Nat /\ made' \in Nat /\ overlapped' \in BOOLEAN
    BY <1>6, <2>1, <2>2, SavesNewType
  <2>4. turn' \in [Lanes -> Turns] /\ events' \in Nat
    <3>1. turn' = [turn EXCEPT ![l] = NoTurn] /\ Outcome(ok)
      BY <1>6 DEF PersistFinishedTurn
    <3>2. [turn EXCEPT ![l] = NoTurn] \in [Lanes -> Turns]
      BY TaskConstants, CopyType
    <3>3. QED
      BY <1>6, <3>1, <3>2, OutcomeType
  <2>5. background' \in Nat
    BY <1>6 DEF PersistFinishedTurn, TypeOK
  <2>6. UNCHANGED <<deleted, pass, archiving, titling, socket, log, wiped, forgotten, leftover,
                    misfiled, named>>
    BY <1>6 DEF PersistFinishedTurn
  <2>7. QED
    BY <2>3, <2>4, <2>5, <2>6 DEF TypeOK, ArchiveType, log
<1>7. QED
  BY <1>2, <1>3, <1>4, <1>5, <1>6 DEF TurnStep

LEMMA TypePasses == ASSUME TypeOK, Holding, PassStep PROVE TypeOK'
<1>1. Live \in Sessions /\ Live \in SessionsOrNone /\ Fresh \in Sessions
  BY LiveType DEF SessionsOrNone
<1>2. CASE StartBackground
  <2>1. pass' \in Passes /\ cache' \in SessionsOrNone
    <3>1. NoPass \in Passes /\ TokenPass("background") \in Passes
      BY TaskConstants
    <3>2. QED
      BY <1>1, <1>2, <3>1 DEF StartBackground
  <2>2. background' \in Nat
    BY <1>2 DEF StartBackground, TypeOK
  <2>3. QED
    BY <1>2, <2>1, <2>2 DEF StartBackground, TypeOK, files, log, ghosts
<1>3. CASE PickChunk
  <2>1. cache' \in SessionsOrNone
    BY <1>1, <1>3 DEF PickChunk
  <2>2. pass' \in Passes /\ turn' \in [Lanes -> Turns] /\ archiving' \in BOOLEAN
    <3>1. CASE Boundary(Live) > Live.lc
      <4>1. /\ Boundary(Live) \in Nat /\ SubSeq(Live.msgs, 1, Boundary(Live)) \in Seq(Nat)
            /\ Elements(SubSeq(Live.msgs, Live.lc + 1, Boundary(Live))) \subseteq Nat
        BY <1>1, <3>1, PartsType
      <4>2. QED
        BY <1>3, <3>1, <4>1 DEF PickChunk, TypeOK, Passes
    <3>2. CASE ~(Boundary(Live) > Live.lc)
      BY <1>3, <3>2, PassEndsType DEF PickChunk
    <3>3. QED
      BY <3>1, <3>2
  <2>3. UNCHANGED <<files, deleted, background, titling, socket, log, made, ghosts, events>>
    BY <1>3 DEF PickChunk
  <2>4. QED
    BY <2>1, <2>2, <2>3 DEF TypeOK, files, log, ghosts
<1>4. CASE StartCompaction
  <2> DEFINE s == Reloaded
  <2>1. s \in Sessions
    BY LiveType
  <2>2. Elements(SubSeq(Visible(s), 1, Dropped(s))) \subseteq Nat
    BY <2>1, PartsType
  <2>3. NoPass \in Passes /\ s \in SessionsOrNone
    BY <2>1, TaskConstants DEF SessionsOrNone
  <2>4. /\ cache' = s
        /\ pass' = [NoPass EXCEPT !.kind = "idle", !.copy = s,
                       !.stage = IF Dropped(s) = 0 THEN "save" ELSE "await",
                       !.chunk = Elements(SubSeq(Visible(s), 1, Dropped(s)))]
    BY <1>4 DEF StartCompaction
  <2> HIDE DEF s
  <2>5. pass' \in Passes /\ cache' \in SessionsOrNone
    BY <2>2, <2>3, <2>4 DEF Passes
  <2>6. QED
    BY <1>4, <2>5 DEF StartCompaction, TypeOK, files, log, ghosts
<1>5. ASSUME NEW logged \in BOOLEAN, CompactIdle(logged) PROVE TypeOK'
  <2>1. pass.copy \in Sessions /\ Len(pass.copy.msgs) - Suffix \in Nat
    BY <1>5, SizesAssumption DEF CompactIdle, Holding, TypeOK, Passes, SessionsOrNone, Sessions
  <2>2. [pass.copy EXCEPT !.lc = Len(pass.copy.msgs) - Suffix] \in SessionsOrNone
    BY <2>1 DEF Sessions, SessionsOrNone
  <2>3. pass' \in Passes
    BY <1>5, <2>2 DEF CompactIdle, TypeOK, Passes
  <2>4. /\ AppendsHistory(logged) /\ Outcome(logged)
        /\ unlogged' = unlogged \cup (pass.chunk \ history')
    BY <1>5 DEF CompactIdle
  <2>5. /\ history' \subseteq Nat /\ tornLog' \in BOOLEAN /\ unlogged' \subseteq Nat
        /\ events' \in Nat
    BY <1>5, <2>4, AppendsHistoryType, OutcomeType DEF TypeOK, Passes
  <2>6. UNCHANGED <<files, cache, deleted, turn, background, archiving, titling, socket,
                    made, ghosts>>
    BY <1>5 DEF CompactIdle
  <2>7. QED
    BY <2>3, <2>5, <2>6 DEF TypeOK, files, ghosts
<1>6. ASSUME NEW ok \in BOOLEAN, NEW logged \in BOOLEAN, Summarise(ok, logged) PROVE TypeOK'
  <2>1. AppendsHistory(logged) /\ Outcome(logged)
    BY <1>6 DEF Summarise
  <2>2. /\ history' \subseteq Nat /\ tornLog' \in BOOLEAN /\ events' \in Nat
        /\ unlogged \cup (pass.chunk \ history') \subseteq Nat
    BY <1>6, <2>1, AppendsHistoryType, OutcomeType DEF TypeOK, Passes
  <2>3. /\ cache' \in SessionsOrNone /\ pass' \in Passes /\ unlogged' \subseteq Nat
        /\ turn' \in [Lanes -> Turns] /\ archiving' \in BOOLEAN /\ misfiled' \in BOOLEAN
    <3>1. CASE ok
      <4>1. pass.end \in Nat
        BY DEF TypeOK, Passes
      <4>2. [Live EXCEPT !.lc = pass.end] \in SessionsOrNone
        BY <1>1, <4>1, SessionForms DEF SessionsOrNone
      <4>3. pass' \in Passes /\ cache' \in SessionsOrNone
        BY <1>6, <3>1, <4>2 DEF Summarise, TypeOK, Passes
      <4>4. misfiled' \in BOOLEAN /\ unlogged' \subseteq Nat
        BY <1>6, <2>2, <3>1 DEF Summarise
      <4>5. turn' \in [Lanes -> Turns] /\ archiving' \in BOOLEAN
        BY <1>6, <3>1 DEF Summarise, TypeOK
      <4>6. QED
        BY <4>3, <4>4, <4>5
    <3>2. CASE ~ok
      <4>1. PassEnds /\ UNCHANGED <<cache, unlogged, misfiled>>
        BY <1>6, <3>2 DEF Summarise
      <4>2. cache' \in SessionsOrNone /\ misfiled' \in BOOLEAN /\ unlogged' \subseteq Nat
        BY <4>1 DEF TypeOK
      <4>3. QED
        BY <4>1, <4>2, PassEndsType
    <3>3. QED
      BY <3>1, <3>2
  <2>4. UNCHANGED <<files, deleted, background, titling, socket, made, safe, wiped,
                    forgotten, leftover, overlapped, named>>
    BY <1>6 DEF Summarise
  <2>5. QED
    BY <2>2, <2>3, <2>4 DEF TypeOK, files
<1>7. ASSUME NEW ok \in BOOLEAN, SavePass(ok) PROVE TypeOK'
  <2>1. pass.copy \in Sessions /\ cache \in SessionsOrNone
    BY <1>7 DEF SavePass, Holding, TypeOK, Passes, SessionsOrNone
  <2>2. Saves(pass.copy, cache, ok, "pass") /\ Outcome(ok)
    BY <1>7 DEF SavePass
  <2>3. /\ file' \in SessionsOrNone /\ ArchiveType' /\ cache' \in SessionsOrNone
        /\ overlapped' \in BOOLEAN
    BY <1>7, <2>1, <2>2, SavesKeeps
  <2>4. pass' \in Passes /\ turn' \in [Lanes -> Turns] /\ archiving' \in BOOLEAN
    <3>1. CASE pass' = TokenPass(pass.by) /\ UNCHANGED <<turn, archiving>>
      <4>1. pass.by \in Lanes \cup {"background"}
        BY DEF TypeOK, Passes
      <4>2. TokenPass(pass.by) \in Passes
        BY <4>1, TaskConstants
      <4>3. turn' \in [Lanes -> Turns] /\ archiving' \in BOOLEAN
        BY <3>1 DEF TypeOK
      <4>4. QED
        BY <3>1, <4>2, <4>3
    <3>2. CASE PassEnds
      BY <3>2, PassEndsType
    <3>3. QED
      BY <1>7, <3>1, <3>2 DEF SavePass
  <2>5. events' \in Nat
    BY <1>7, <2>2, OutcomeType
  <2>6. UNCHANGED <<deleted, background, titling, socket, log, made, safe, wiped,
                    forgotten, leftover, misfiled, named>>
    BY <1>7 DEF SavePass
  <2>7. QED
    BY <2>3, <2>4, <2>5, <2>6 DEF TypeOK, ArchiveType, log
<1>8. QED
  BY <1>2, <1>3, <1>4, <1>5, <1>6, <1>7 DEF PassStep

(* The operations on the session that come in between. *)
LEMMA TypeOperations ==
    ASSUME TypeOK, NEW ok \in BOOLEAN,
           PersistCommandTurn(ok) \/ Rename(ok) \/ StoreTitle(ok)
    PROVE  TypeOK'
<1>1. /\ Live \in Sessions /\ Live \in SessionsOrNone /\ cache \in SessionsOrNone
      /\ made + 1 \in Nat
  BY LiveType DEF SessionsOrNone, TypeOK
<1>2. CASE PersistCommandTurn(ok)
  <2>1. With(Live, made + 1) \in SessionsOrNone
    BY <1>1, SessionForms DEF SessionsOrNone
  <2>2. /\ SavesNew(Live, With(Live, made + 1), ok, "command")
        /\ \E n \in {1, 2} : Spend(n)
    BY <1>2 DEF PersistCommandTurn
  <2>3. /\ file' \in SessionsOrNone /\ ArchiveType' /\ cache' \in SessionsOrNone
        /\ safe' \subseteq Nat /\ made' \in Nat /\ overlapped' \in BOOLEAN
    BY <1>1, <2>1, <2>2, SavesNewType
  <2>4. events' \in Nat
    BY <2>2, SpendType
  <2>5. UNCHANGED <<deleted, turn, pass, background, archiving, titling, socket, log,
                    wiped, forgotten, leftover, misfiled, named>>
    BY <1>2 DEF PersistCommandTurn
  <2>6. QED
    BY <2>3, <2>4, <2>5 DEF TypeOK, ArchiveType, log
<1>3. CASE Rename(ok)
  <2>1. [Existing EXCEPT !.title = "renamed"] \in Sessions
    BY <1>3, LiveType, SessionForms DEF Rename, SessionsOrNone, Titles
  <2>2. /\ Saves([Existing EXCEPT !.title = "renamed"], cache, ok, "rename")
        /\ \E n \in {1, 2} : Spend(n)
    BY <1>3 DEF Rename
  <2>3. /\ file' \in SessionsOrNone /\ ArchiveType' /\ cache' \in SessionsOrNone
        /\ overlapped' \in BOOLEAN
    BY <1>1, <2>1, <2>2, SavesKeeps
  <2>4. events' \in Nat
    BY <2>2, SpendType
  <2>5. named' \in BOOLEAN
    BY <1>3 DEF Rename
  <2>6. UNCHANGED <<deleted, turn, pass, background, archiving, titling, socket, log,
                    made, safe, wiped, forgotten, leftover, misfiled>>
    BY <1>3 DEF Rename
  <2>7. QED
    BY <2>3, <2>4, <2>5, <2>6 DEF TypeOK, ArchiveType, log
<1>4. CASE StoreTitle(ok)
  <2> DEFINE s == [Live EXCEPT !.title = TitleFor(Live)]
  <2>1. TitleFor(Live) \in Titles
    BY <1>1 DEF TitleFor, Titles, Sessions
  <2>2. s \in Sessions /\ s \in SessionsOrNone
    BY <1>1, <2>1, SessionForms DEF SessionsOrNone
  <2>3. /\ titling' = FALSE
        /\ \/ cache' = Live /\ UNCHANGED <<files, overlapped, events>>
           \/ Saves(s, s, ok, "title") /\ Outcome(ok)
    BY <1>4 DEF StoreTitle
  <2> HIDE DEF s
  <2>4. /\ file' \in SessionsOrNone /\ ArchiveType' /\ cache' \in SessionsOrNone
        /\ overlapped' \in BOOLEAN /\ events' \in Nat
    <3>1. CASE cache' = Live /\ UNCHANGED <<files, overlapped, events>>
      BY <1>1, <3>1 DEF TypeOK, ArchiveType, files
    <3>2. CASE Saves(s, s, ok, "title") /\ Outcome(ok)
      BY <2>2, <3>2, SavesKeeps, OutcomeType
    <3>3. QED
      BY <2>3, <3>1, <3>2
  <2>5. UNCHANGED <<deleted, turn, pass, background, archiving, socket, log,
                    made, safe, wiped, forgotten, leftover, misfiled, named>>
    BY <1>4 DEF StoreTitle
  <2>6. titling' \in BOOLEAN
    BY <2>3
  <2>7. QED
    BY <2>4, <2>5, <2>6 DEF TypeOK, ArchiveType, log
<1>5. QED
  BY <1>2, <1>3, <1>4

LEMMA TypeResets ==
    ASSUME TypeOK, NEW ok \in BOOLEAN,
           ClearResets(ok) \/ \E l \in Lanes : CmdNew(l, ok)
    PROVE  TypeOK'
<1>1. /\ Live \in Sessions /\ Existing \in SessionsOrNone /\ cache \in SessionsOrNone
      /\ NoSession \in SessionsOrNone
  BY LiveType, TaskConstants DEF TypeOK
<1>2. ASSUME NEW l \in Lanes, CmdNew(l, ok) PROVE TypeOK'
  <2>1. Resets(Live, NoSession, ok) /\ \E n \in {1, 2} : Spend(n)
    BY <1>2 DEF CmdNew
  <2>2. /\ file' \in SessionsOrNone /\ ArchiveType' /\ cache' \in SessionsOrNone
        /\ safe' \subseteq Nat /\ wiped' \subseteq Nat /\ overlapped' \in BOOLEAN
    BY <1>1, <2>1, ResetsType
  <2>3. events' \in Nat
    BY <2>1, SpendType
  <2>4. UNCHANGED <<deleted, turn, pass, background, archiving, titling, socket, log,
                    made, forgotten, leftover, misfiled, named>>
    BY <1>2 DEF CmdNew
  <2>5. QED
    BY <2>2, <2>3, <2>4 DEF TypeOK, ArchiveType, log
<1>3. CASE ClearResets(ok)
  <2>1. /\ file' \in SessionsOrNone /\ ArchiveType' /\ cache' \in SessionsOrNone
        /\ safe' \subseteq Nat /\ wiped' \subseteq Nat /\ overlapped' \in BOOLEAN
        /\ events' \in Nat
    <3>1. CASE Existing = NoSession
      BY <1>3, <3>1 DEF ClearResets, TypeOK, ArchiveType, files
    <3>2. CASE Existing # NoSession
      <4> DEFINE after == IF ok /\ ~deleted THEN Cleared(Existing) ELSE cache
      <4>1. Existing \in Sessions
        BY <1>1, <3>2 DEF SessionsOrNone
      <4>2. after \in SessionsOrNone
        BY <1>1, <4>1, SessionForms DEF SessionsOrNone
      <4>3. Resets(Existing, after, ok) /\ Outcome(ok)
        BY <1>3, <3>2 DEF ClearResets
      <4> HIDE DEF after
      <4>4. QED
        BY <4>1, <4>2, <4>3, ResetsType, OutcomeType
    <3>3. QED
      BY <3>1, <3>2
  <2>2. socket' \in {"idle", "clear", "delete"}
    BY <1>3 DEF ClearResets
  <2>3. UNCHANGED <<deleted, turn, pass, background, archiving, titling, log, made,
                    forgotten, leftover, misfiled, named>>
    BY <1>3 DEF ClearResets
  <2>4. QED
    BY <2>1, <2>2, <2>3 DEF TypeOK, ArchiveType, log
<1>4. QED
  BY <1>2, <1>3

(* What is saved when the process is killed is a copy of a task. *)
LEMMA BeingSavedType ==
    ASSUME TypeOK, Holding, NEW s \in BeingSaved
    PROVE  s \in Sessions /\ s # NoSession
BY NoSessionAssumption DEF BeingSaved, Holding, TypeOK, Turns, Passes, SessionsOrNone

LEMMA TypeKill == ASSUME TypeOK, Holding, Kill PROVE TypeOK'
<1>1. /\ NoSession \in SessionsOrNone /\ NoTurn \in Turns /\ NoPass \in Passes
      /\ <<>> \in Seq(Nat) /\ "whole" \in Tails
  BY TaskConstants DEF Tails
<1>2. /\ ArchiveType' /\ file' \in SessionsOrNone
      /\ safe' \subseteq Nat /\ named' \in BOOLEAN
  <2>1. CASE UNCHANGED <<files, safe, named>>
    BY <2>1 DEF files, TypeOK, ArchiveType
  <2>2. CASE /\ \E s \in BeingSaved : AppendsArchive(Hidden(s), FALSE)
             /\ UNCHANGED <<file, safe, named>>
    <3>1. PICK s \in BeingSaved : AppendsArchive(Hidden(s), FALSE)
      BY <2>2
    <3>2. s \in Sessions
      BY BeingSavedType
    <3>3. Hidden(s) \in Seq(Nat) /\ FALSE \in BOOLEAN
      BY <3>2, SplitSession
    <3>4. ArchiveType'
      BY <3>1, <3>3, AppendsKeeps
    <3>5. QED
      BY <2>2, <3>4 DEF TypeOK
  <2>3. CASE /\ file' = NoSession /\ UNCHANGED <<archive, tail, swallowed>>
             /\ safe' = safe \cap Elements(archive) /\ named' = FALSE
    BY <1>1, <2>3 DEF TypeOK, ArchiveType
  <2>4. CASE /\ archive' = <<>> /\ tail' = "whole" /\ safe' = safe \ Elements(archive)
             /\ UNCHANGED <<file, swallowed, named>>
    BY <1>1, <2>4 DEF TypeOK, ArchiveType
  <2>5. QED
    BY <2>1, <2>2, <2>3, <2>4 DEF Kill, KilledAnywhere
<1>3. cache' \in SessionsOrNone /\ turn' \in [Lanes -> Turns] /\ pass' \in Passes
  BY <1>1 DEF Kill
<1>4. deleted' \in BOOLEAN /\ archiving' \in BOOLEAN /\ titling' \in BOOLEAN
  BY DEF Kill
<1>5. overlapped' \in BOOLEAN
  BY DEF Kill, TypeOK
<1>6. events' \in Nat
  BY SpendType DEF Kill
<1>7. /\ background' \in Nat /\ socket' \in {"idle", "clear", "delete"}
      /\ leftover' \in [file : SessionsOrNone, archive : Seq(Nat)]
  BY <1>1 DEF Kill, NothingLeft
<1>8. UNCHANGED <<made, wiped, forgotten, misfiled>>
  BY DEF Kill
<1>9. history' \subseteq Nat /\ tornLog' \in BOOLEAN /\ unlogged' \subseteq Nat
  <2>1. KilledLogging
    BY DEF Kill
  <2>2. CASE UNCHANGED <<history, tornLog>>
    BY <2>1, <2>2 DEF KilledLogging, TypeOK
  <2>3. ASSUME NEW whole \in BOOLEAN, AppendsHistory(whole)
        PROVE history' \subseteq Nat /\ tornLog' \in BOOLEAN
    BY <2>3, AppendsHistoryType
  <2>4. unlogged' \subseteq Nat
    BY <2>1 DEF KilledLogging, TypeOK
  <2>5. QED
    BY <2>1, <2>2, <2>3, <2>4 DEF KilledLogging
<1>10. QED
  BY <1>2, <1>3, <1>4, <1>5, <1>6, <1>7, <1>8, <1>9 DEF TypeOK, ArchiveType

LEMMA TypeDelete == ASSUME TypeOK, NEW ok \in BOOLEAN, DeleteSession(ok) PROVE TypeOK'
<1>1. NoSession \in SessionsOrNone /\ <<>> \in Seq(Nat) /\ "whole" \in Tails
  BY TaskConstants DEF Tails
<1>2. file' \in SessionsOrNone /\ ArchiveType'
  <2>1. Unlinks(ok) /\ swallowed' = swallowed
    BY DEF DeleteSession
  <2>2. /\ file' = NoSession \/ file' = file
        /\ (archive' = <<>> /\ tail' = "whole") \/ UNCHANGED <<archive, tail>>
    BY <2>1 DEF Unlinks
  <2>3. QED
    BY <1>1, <2>1, <2>2 DEF TypeOK, ArchiveType
<1>3. leftover' \in [file : SessionsOrNone, archive : Seq(Nat)]
  BY <1>2 DEF DeleteSession, ArchiveType
<1>4. forgotten' \subseteq Nat
  BY OnDiskType DEF DeleteSession, TypeOK
<1>5. events' \in Nat
  BY SpendType DEF DeleteSession
<1>6. deleted' \in BOOLEAN /\ named' \in BOOLEAN /\ socket' \in {"idle", "clear", "delete"}
  BY DEF DeleteSession
<1>7. cache' \in SessionsOrNone /\ safe' \subseteq Nat
  BY <1>1 DEF DeleteSession
<1>8. UNCHANGED <<turn, pass, background, archiving, titling, log, made, wiped,
                  misfiled, overlapped>>
  BY DEF DeleteSession
<1>9. QED
  BY <1>2, <1>3, <1>4, <1>5, <1>6, <1>7, <1>8 DEF TypeOK, ArchiveType, log

LEMMA TypeOthers ==
    ASSUME TypeOK,
           MarkIdle \/ StartTitle \/ ClearAborts \/ DeleteAborts \/ Evict
    PROVE  TypeOK'
<1>1. NoSession \in SessionsOrNone
  BY TaskConstants
<1>2. CASE MarkIdle
  BY <1>2, SpendType DEF MarkIdle, TypeOK, files, log, ghosts
<1>3. CASE StartTitle
  BY <1>3, SpendType DEF StartTitle, TypeOK, files, log, ghosts
<1>4. CASE ClearAborts
  <2>1. turn' \in [Lanes -> Turns] /\ pass' \in Passes /\ events' \in Nat
    BY <1>4, AbortType, SpendType DEF ClearAborts
  <2>2. QED
    BY <1>4, <2>1 DEF ClearAborts, TypeOK, files, log, ghosts
<1>6. CASE DeleteAborts
  <2>1. turn' \in [Lanes -> Turns] /\ pass' \in Passes
    BY <1>6, AbortType DEF DeleteAborts
  <2>2. QED
    BY <1>6, <2>1 DEF DeleteAborts, TypeOK, files, log, ghosts
<1>7. CASE Evict
  BY <1>1, <1>7, SpendType DEF Evict, TypeOK, files, log, ghosts
<1>8. QED
  BY <1>2, <1>3, <1>4, <1>6, <1>7

--------------------------------------------------------------------------------
(* What a lane and a pass hold, step by step. *)

LEMMA HoldingQuiet == Holding /\ UNCHANGED <<turn, pass>> => Holding'
BY DEF Holding

LEMMA HoldingPassEnds == ASSUME TypeOK, Holding, PassEnds PROVE Holding'
<1>1. /\ pass'.kind = "none" /\ pass'.stage = "pick"
      /\ \A l \in Lanes : turn'[l] = IF pass.kind = "tokens" /\ pass.by = l
                                     THEN [turn[l] EXCEPT !.phase = "ready"] ELSE turn[l]
  BY DEF PassEnds, NoPass
<1>2. ASSUME NEW l \in Lanes
      PROVE turn'[l].copy # NoSession <=> turn'[l].phase \in {"running", "finishing"}
  <2>1. turn[l] \in Turns
    BY DEF TypeOK
  <2>2. CASE pass.kind = "tokens" /\ pass.by = l
    <3>1. turn[l].phase = "consolidating" /\ turn[l].copy = NoSession
      BY <2>2 DEF Holding
    <3>2. turn'[l].phase = "ready" /\ turn'[l].copy = turn[l].copy
      BY <1>1, <2>1, <2>2 DEF Turns
    <3>3. QED
      BY <3>1, <3>2
  <2>3. CASE ~(pass.kind = "tokens" /\ pass.by = l)
    BY <1>1, <2>3 DEF Holding
  <2>4. QED
    BY <2>2, <2>3
<1>3. QED
  BY <1>1, <1>2 DEF Holding

LEMMA HoldingAbort == ASSUME TypeOK, Holding, AbortTurns PROVE Holding'
<1> DEFINE cut == {l \in Registered :
                      turn[l].phase \in {"begun", "consolidating", "ready", "running"}}
<1>1. /\ \A l \in Lanes : turn'[l] = IF l \in cut THEN NoTurn ELSE turn[l]
      /\ pass' = IF pass.kind = "tokens" /\ pass.by \in cut THEN NoPass ELSE pass
  BY DEF AbortTurns
<1> HIDE DEF cut
<1>2. NoTurn.copy = NoSession /\ NoTurn.phase = "idle"
      /\ NoPass.kind = "none" /\ NoPass.stage = "pick"
  BY DEF NoTurn, NoPass
<1>3. \A l \in Lanes : turn'[l].copy # NoSession <=> turn'[l].phase \in {"running", "finishing"}
  BY <1>1, <1>2 DEF Holding
<1>4. CASE pass' = NoPass
  BY <1>2, <1>3, <1>4 DEF Holding
<1>5. CASE pass' = pass /\ ~(pass.kind = "tokens" /\ pass.by \in cut)
  BY <1>1, <1>3, <1>5 DEF Holding
<1>6. QED
  BY <1>1, <1>4, <1>5

LEMMA HoldingTurns ==
    ASSUME TypeOK, Holding, NEW l \in Lanes, Begin(l) \/ TurnStep(l)
    PROVE  Holding'
<1>1. Live # NoSession /\ turn[l] \in Turns /\ turn \in [Lanes -> Turns]
  BY LiveType, NoSessionAssumption DEF TypeOK
<1>2. ASSUME NEW p \in {"begun", "ready"}, turn' = [turn EXCEPT ![l].phase = p],
             turn[l].phase \in {"idle", "begun"}, pass' = pass
      PROVE Holding'
  <2>1. /\ turn'[l].phase = p /\ turn'[l].copy = turn[l].copy
        /\ \A k \in Lanes : k # l => turn'[k] = turn[k]
    BY <1>1, <1>2 DEF Turns
  <2>2. QED
    BY <1>2, <2>1 DEF Holding
<1>3. CASE Begin(l)
  BY <1>2, <1>3 DEF Begin
<1>4. CASE StartConsolidation(l)
  <2>1. CASE OverBudget(Live)
    <3>1. turn' = [turn EXCEPT ![l].phase = "consolidating"] /\ pass' = TokenPass(l)
          /\ turn[l].phase = "begun"
      BY <1>4, <2>1 DEF StartConsolidation
    <3>2. /\ turn'[l].phase = "consolidating" /\ turn'[l].copy = turn[l].copy
          /\ \A k \in Lanes : k # l => turn'[k] = turn[k]
      BY <1>1, <3>1 DEF Turns
    <3>3. pass'.kind = "tokens" /\ pass'.by = l /\ pass'.stage = "pick"
      BY <3>1 DEF TokenPass, NoPass
    <3>4. QED
      BY <3>1, <3>2, <3>3 DEF Holding
  <2>2. CASE ~OverBudget(Live)
    BY <1>2, <1>4, <2>2 DEF StartConsolidation
  <2>3. QED
    BY <2>1, <2>2
<1>5. CASE TakeCopy(l)
  <2>1. turn' = [turn EXCEPT ![l] = [phase |-> "running", copy |-> Live]] /\ pass' = pass
        /\ turn[l].phase = "ready"
    BY <1>5 DEF TakeCopy
  <2>2. /\ turn'[l].phase = "running" /\ turn'[l].copy = Live
        /\ \A k \in Lanes : k # l => turn'[k] = turn[k]
    BY <1>1, <2>1
  <2>3. QED
    BY <1>1, <2>1, <2>2 DEF Holding
<1>6. CASE RunEnds(l)
  <2>1. turn' = [turn EXCEPT ![l].phase = "finishing"] /\ pass' = pass
        /\ turn[l].phase = "running"
    BY <1>6 DEF RunEnds
  <2>2. /\ turn'[l].phase = "finishing" /\ turn'[l].copy = turn[l].copy
        /\ \A k \in Lanes : k # l => turn'[k] = turn[k]
    BY <1>1, <2>1 DEF Turns
  <2>3. QED
    BY <2>1, <2>2 DEF Holding
<1>7. ASSUME NEW ok \in BOOLEAN, PersistFinishedTurn(l, ok) PROVE Holding'
  <2>1. turn' = [turn EXCEPT ![l] = NoTurn] /\ pass' = pass
        /\ turn[l].phase = "finishing"
    BY <1>7 DEF PersistFinishedTurn
  <2>2. /\ turn'[l].phase = "idle" /\ turn'[l].copy = NoSession
        /\ \A k \in Lanes : k # l => turn'[k] = turn[k]
    BY <1>1, <2>1 DEF NoTurn
  <2>3. QED
    BY <2>1, <2>2 DEF Holding
<1>8. QED
  BY <1>3, <1>4, <1>5, <1>6, <1>7 DEF TurnStep

LEMMA HoldingPasses == ASSUME TypeOK, Holding, PassStep PROVE Holding'
<1>1. Live \in Sessions /\ Live # NoSession /\ Fresh \in Sessions /\ pass \in Passes
  BY LiveType, NoSessionAssumption DEF TypeOK
<1>2. ASSUME UNCHANGED turn,
             pass'.kind = "tokens", pass'.stage = "pick", pass'.by = "background"
      PROVE Holding'
  BY <1>2, LanesAssumption DEF Holding
<1>3. CASE StartBackground
  <2>1. turn' = turn /\ (pass' = TokenPass("background") \/ pass' = NoPass)
    BY <1>3 DEF StartBackground
  <2>2. CASE pass' = TokenPass("background")
    BY <1>2, <2>1, <2>2 DEF TokenPass, NoPass
  <2>3. CASE pass' = NoPass
    <3>1. pass'.kind = "none" /\ pass'.stage = "pick"
      BY <2>3 DEF NoPass
    <3>2. QED
      BY <2>1, <3>1 DEF Holding
  <2>4. QED
    BY <2>1, <2>2, <2>3
<1>4. CASE PickChunk
  <2>1. CASE Boundary(Live) > Live.lc
    <3>1. turn' = turn /\ pass.kind = "tokens" /\ pass'.kind = pass.kind
          /\ pass'.by = pass.by /\ pass'.stage = "await"
      BY <1>1, <1>4, <2>1 DEF PickChunk, Passes
    <3>2. QED
      BY <3>1 DEF Holding
  <2>2. CASE ~(Boundary(Live) > Live.lc)
    BY <1>4, <2>2, HoldingPassEnds DEF PickChunk
  <2>3. QED
    BY <2>1, <2>2
<1>5. CASE StartCompaction
  <2> DEFINE s == Reloaded
             n == Dropped(s)
  <2>1. s \in Sessions /\ s # NoSession
    BY LiveType, NoSessionAssumption
  <2>2. n # 0 => Len(s.msgs) >= Suffix
    <3>1. n # 0 => Len(Visible(s)) > Suffix
      BY DEF Dropped
    <3>2. s.msgs \in Seq(Nat) /\ s.lc \in Nat
      BY <2>1 DEF Sessions
    <3>3. HiddenLen(s) \in Nat /\ HiddenLen(s) <= Len(s.msgs)
      BY <3>2 DEF HiddenLen
    <3>4. Len(Visible(s)) <= Len(s.msgs)
      BY <3>2, <3>3 DEF Visible
    <3>5. Len(Visible(s)) \in Nat /\ Len(s.msgs) \in Nat
      BY <2>1, <3>2, SplitSession
    <3>6. QED
      BY <3>1, <3>4, <3>5, SizesAssumption
  <2>3. turn' = turn /\ pass' = [NoPass EXCEPT !.kind = "idle", !.copy = s,
                           !.stage = IF n = 0 THEN "save" ELSE "await",
                           !.chunk = Elements(SubSeq(Visible(s), 1, n))]
    BY <1>5 DEF StartCompaction
  <2> HIDE DEF s, n
  <2>4. pass'.kind = "idle" /\ pass'.copy = s /\ (pass'.stage = "await" => n # 0)
    BY <2>3 DEF NoPass
  <2>5. QED
    BY <2>1, <2>2, <2>3, <2>4 DEF Holding
<1>6. ASSUME NEW logged \in BOOLEAN, CompactIdle(logged) PROVE Holding'
  <2>1. /\ turn' = turn /\ pass.kind = "idle" /\ pass.copy # NoSession
        /\ pass' = [pass EXCEPT !.stage = "save", !.copy.lc = Len(pass.copy.msgs) - Suffix]
    BY <1>6 DEF CompactIdle, Holding
  <2>2. pass.copy \in Sessions
    BY <1>1, <2>1 DEF Passes, SessionsOrNone
  <2>3. Len(pass.copy.msgs) - Suffix \in Nat
    BY <1>6, <2>2, SizesAssumption DEF CompactIdle, Holding, Sessions
  <2>4. [pass.copy EXCEPT !.lc = Len(pass.copy.msgs) - Suffix] \in Sessions
    BY <2>2, <2>3, SessionForms
  <2>5. pass'.kind = "idle" /\ pass'.stage = "save"
        /\ pass'.copy = [pass.copy EXCEPT !.lc = Len(pass.copy.msgs) - Suffix]
    BY <1>1, <2>1 DEF Passes
  <2>6. pass'.copy # NoSession
    BY <2>4, <2>5, NoSessionAssumption
  <2>7. QED
    BY <2>1, <2>5, <2>6 DEF Holding
<1>7. ASSUME NEW ok \in BOOLEAN, NEW logged \in BOOLEAN, Summarise(ok, logged) PROVE Holding'
  <2>1. CASE ok
    <3>1. pass.end \in Nat
      BY <1>1 DEF Passes
    <3>2. [Live EXCEPT !.lc = pass.end] # NoSession
      BY <1>1, <3>1, SessionForms, NoSessionAssumption
    <3>3. /\ turn' = turn /\ pass.kind = "tokens" /\ pass'.kind = "tokens"
          /\ pass'.by = pass.by /\ pass'.copy = [Live EXCEPT !.lc = pass.end]
      BY <1>1, <1>7, <2>1 DEF Summarise, Passes
    <3>4. QED
      BY <3>2, <3>3 DEF Holding
  <2>2. CASE ~ok
    BY <1>7, <2>2, HoldingPassEnds DEF Summarise
  <2>3. QED
    BY <2>1, <2>2
<1>8. ASSUME NEW ok \in BOOLEAN, SavePass(ok) PROVE Holding'
  <2>1. CASE pass.kind = "tokens" /\ pass' = TokenPass(pass.by) /\ UNCHANGED turn
    <3>1. pass'.kind = "tokens" /\ pass'.by = pass.by /\ pass'.stage = "pick"
      BY <2>1 DEF TokenPass, NoPass
    <3>2. QED
      BY <2>1, <3>1 DEF Holding
  <2>2. CASE PassEnds
    BY <2>2, HoldingPassEnds
  <2>3. QED
    BY <1>8, <2>1, <2>2 DEF SavePass
<1>9. QED
  BY <1>3, <1>4, <1>5, <1>6, <1>7, <1>8 DEF PassStep

LEMMA HoldingKill == ASSUME Kill PROVE Holding'
<1>1. /\ \A l \in Lanes : turn'[l].copy = NoSession /\ turn'[l].phase = "idle"
      /\ pass'.kind = "none" /\ pass'.stage = "pick"
  BY DEF Kill, NoTurn, NoPass
<1>2. QED
  BY <1>1 DEF Holding

LEMMA HoldingInit == ASSUME Init PROVE Holding
<1>1. /\ \A l \in Lanes : turn[l].copy = NoSession /\ turn[l].phase = "idle"
      /\ pass.kind = "none" /\ pass.stage = "pick"
  BY DEF Init, NoTurn, NoPass
<1>2. QED
  BY <1>1 DEF Holding

(* One step, whichever it is: the types and what is held. *)
LEMMA StepKeeps == ASSUME TypeOK, Holding, Next PROVE TypeOK' /\ Holding'
<1>1. ASSUME NEW l \in Lanes, Begin(l) \/ TurnStep(l) PROVE TypeOK' /\ Holding'
  BY <1>1, TypeTurns, HoldingTurns
<1>2. CASE PassStep
  BY <1>2, TypePasses, HoldingPasses
<1>3. ASSUME NEW ok \in BOOLEAN, PersistCommandTurn(ok) \/ Rename(ok) \/ StoreTitle(ok)
      PROVE TypeOK' /\ Holding'
  <2>1. UNCHANGED <<turn, pass>>
    BY <1>3 DEF PersistCommandTurn, Rename, StoreTitle
  <2>2. QED
    BY <1>3, <2>1, TypeOperations, HoldingQuiet
<1>4. ASSUME NEW ok \in BOOLEAN, ClearResets(ok) \/ \E l \in Lanes : CmdNew(l, ok)
      PROVE TypeOK' /\ Holding'
  <2>1. UNCHANGED <<turn, pass>>
    BY <1>4 DEF ClearResets, CmdNew
  <2>2. QED
    BY <1>4, <2>1, TypeResets, HoldingQuiet
<1>5. CASE MarkIdle \/ StartTitle \/ Evict
  <2>1. UNCHANGED <<turn, pass>>
    BY <1>5 DEF MarkIdle, StartTitle, Evict
  <2>2. QED
    BY <1>5, <2>1, TypeOthers, HoldingQuiet
<1>6. CASE ClearAborts \/ DeleteAborts
  BY <1>6, TypeOthers, HoldingAbort DEF ClearAborts, DeleteAborts
<1>7. CASE Kill
  BY <1>7, TypeKill, HoldingKill
<1>8. ASSUME NEW ok \in BOOLEAN, DeleteSession(ok) PROVE TypeOK' /\ Holding'
  <2>1. UNCHANGED <<turn, pass>>
    BY <1>8 DEF DeleteSession
  <2>2. QED
    BY <1>8, <2>1, TypeDelete, HoldingQuiet
<1>9. QED
  BY <1>1, <1>2, <1>3, <1>4, <1>5, <1>6, <1>7, <1>8 DEF Next

(* The state of the session manager, of the tasks and of the files keeps its
   shape, and a task holds a copy exactly while it has something to save. *)
THEOREM TypeCorrect == Spec => [](TypeOK /\ Holding)
<1>1. Init => TypeOK /\ Holding
  BY InitType, HoldingInit
<1>2. TypeOK /\ Holding /\ [Next]_vars => (TypeOK /\ Holding)'
  <2> SUFFICES ASSUME TypeOK, Holding, [Next]_vars PROVE TypeOK' /\ Holding'
    OBVIOUS
  <2>1. CASE Next
    BY <2>1, StepKeeps
  <2>2. CASE UNCHANGED vars
    <3>1. UNCHANGED <<turn, pass>> /\ UNCHANGED <<files, cache, deleted, background,
              archiving, titling, socket, log, made, ghosts, events>>
      BY <2>2 DEF vars
    <3>2. TypeOK'
      BY <3>1 DEF TypeOK, files, log, ghosts
    <3>3. QED
      BY <3>1, <3>2, HoldingQuiet
  <2>3. QED
    BY <2>1, <2>2
<1>3. QED
  BY <1>1, <1>2, PTL DEF Spec

--------------------------------------------------------------------------------
(* Nothing saved is lost, nothing deleted comes back. *)

(* A copy c of the session has, with the archive, every exchange known to be
   saved, has none that was not made, and, unless the tombstone still stands,
   none of a deleted session. *)
Good(c, arch, saved, n, tomb, gone) ==
    c # NoSession => /\ saved \subseteq arch \cup ContentsOf(c)
                     /\ ContentsOf(c) \subseteq 1..n
                     /\ tomb \/ gone \cap ContentsOf(c) = {}

(* What NothingLost promises. *)
Kept == safe \ swallowed

GoodCopy(c) == Good(c, Elements(archive), Kept, made, deleted, forgotten)

Copies ==
    /\ GoodCopy(cache) /\ GoodCopy(pass.copy)
    /\ \A l \in Lanes : GoodCopy(turn[l].copy)

Disk ==
    /\ Kept \subseteq OnDisk /\ OnDisk \subseteq 1..made
    /\ forgotten \subseteq 1..made /\ forgotten \cap OnDisk = {}
    /\ deleted => /\ file \in {NoSession, leftover.file}
                  /\ archive \in {<<>>, leftover.archive}
                  /\ safe = {}

Sound == Copies /\ Disk

LEMMA NoCopyIsGood == GoodCopy(NoSession)
BY DEF GoodCopy, Good

(* What is on disk, or in the cache, may be copied. *)
LEMMA LiveIsGood ==
    ASSUME TypeOK, Sound
    PROVE  /\ GoodCopy(Live) /\ GoodCopy(file) /\ GoodCopy(Reloaded)
           /\ Existing # NoSession => GoodCopy(Existing)
<1>1. ContentsOf(Fresh) = {} /\ ContentsOf(NoSession) = {}
  BY LiveType
<1>2. GoodCopy(file)
  BY DEF Sound, Disk, OnDisk, GoodCopy, Good
<1>3. deleted \/ file = NoSession => GoodCopy(Fresh)
  BY <1>1 DEF Sound, Disk, OnDisk, GoodCopy, Good, Kept
<1>4. GoodCopy(cache)
  BY DEF Sound, Copies
<1>5. Existing = cache \/ Existing = file
  BY DEF Existing
<1>6. GoodCopy(Reloaded)
  BY <1>2, <1>3 DEF Reloaded
<1>7. QED
  BY <1>2, <1>4, <1>5, <1>6 DEF Live

(* Good goes by what the copy contains; more made, more archived is fine. *)
LEMMA GoodSame ==
    ASSUME NEW c \in Sessions, NEW d, ContentsOf(d) = ContentsOf(c), GoodCopy(c)
    PROVE  GoodCopy(d)
<1>1. c # NoSession
  BY NoSessionAssumption
<1>2. QED
  BY <1>1 DEF GoodCopy, Good

LEMMA GoodMono ==
    ASSUME TypeOK, NEW c, GoodCopy(c), Elements(archive) \subseteq Elements(archive'),
           Kept' \subseteq Kept, made' \in {made, made + 1}, UNCHANGED <<deleted, forgotten>>
    PROVE  Good(c, Elements(archive'), Kept', made', deleted', forgotten')
<1>1. 1..made \subseteq 1..made'
  BY DEF TypeOK
<1>2. QED
  BY <1>1 DEF GoodCopy, Good

(* Steps that leave the files alone. *)
LEMMA QuietStep ==
    ASSUME Sound, UNCHANGED <<files, safe, made, deleted, forgotten, leftover>>,
           GoodCopy(cache'), GoodCopy(pass'.copy),
           \A l \in Lanes : GoodCopy(turn'[l].copy)
    PROVE  Sound'
<1>0. Kept' = Kept
  BY DEF Kept, files
<1>1. Disk'
  BY <1>0 DEF Sound, Disk, OnDisk, files
<1>2. Copies'
  BY <1>0 DEF Copies, GoodCopy, files
<1>3. QED
  BY <1>1, <1>2 DEF Sound

(* A save of a good copy, with or without a new exchange. *)
LEMMA SaveIsSound ==
    ASSUME TypeOK, Sound, NEW s \in Sessions, NEW before \in SessionsOrNone,
           NEW ok \in BOOLEAN, NEW by, Saves(s, before, ok, by),
           made' \in {made, made + 1}, UNCHANGED <<deleted, forgotten, leftover>>,
           Good(s, Elements(archive), Kept, made', deleted, forgotten),
           Good(before, Elements(archive), Kept, made', deleted, forgotten),
           \/ safe' = safe
           \/ safe' = safe \cup {made'} /\ ok /\ ~deleted /\ made' \in ContentsOf(s)
    PROVE  /\ Disk' /\ Good(cache', Elements(archive'), Kept', made', deleted', forgotten')
           /\ Elements(archive) \subseteq Elements(archive')
           /\ safe' = safe => Kept' \subseteq Kept
<1>1. /\ deleted => UNCHANGED files /\ cache' = before
      /\ ~ok => UNCHANGED <<file, swallowed>> /\ cache' = before
      /\ Elements(archive) \subseteq Elements(archive')
      /\ Elements(archive') \subseteq Elements(archive) \cup ContentsOf(s)
      /\ ContentsOf(file') \subseteq ContentsOf(file) \cup ContentsOf(s)
      /\ ok /\ ~deleted =>
             /\ ContentsOf(s) \subseteq Elements(archive') \cup swallowed' \cup ContentsOf(file')
             /\ cache' = file'
  BY SavesKeeps
<1>2. s # NoSession /\ swallowed \subseteq swallowed'
  BY NoSessionAssumption, SavesKeeps
<1>3. /\ Kept \subseteq Elements(archive) \cup ContentsOf(s)
      /\ ContentsOf(s) \subseteq 1..made'
      /\ deleted \/ forgotten \cap ContentsOf(s) = {}
  BY <1>2 DEF Good
<1>4. 1..made \subseteq 1..made'
  BY DEF TypeOK
<1>5. safe' = safe => Kept' \subseteq Kept
  BY <1>2 DEF Kept
<1>6. CASE deleted
  <2>1. safe' = safe /\ UNCHANGED files /\ cache' = before
    BY <1>1, <1>6
  <2>2. Kept' = Kept
    BY <2>1 DEF Kept, files
  <2>3. Disk'
    BY <1>4, <2>1, <2>2 DEF Sound, Disk, OnDisk, files
  <2>4. Good(cache', Elements(archive'), Kept', made', deleted', forgotten')
    BY <2>1, <2>2 DEF files
  <2>5. QED
    BY <1>1, <1>5, <2>3, <2>4
<1>7. CASE ~deleted
  <2>1. OnDisk' \subseteq OnDisk \cup ContentsOf(s)
    BY <1>1 DEF OnDisk
  <2>2. OnDisk' \subseteq 1..made' /\ forgotten' \subseteq 1..made'
        /\ forgotten' \cap OnDisk' = {}
    BY <1>3, <1>4, <1>7, <2>1 DEF Sound, Disk
  <2>3. CASE ok
    <3>1. Kept' \subseteq Elements(archive) \cup ContentsOf(s)
      BY <1>2, <1>3 DEF Kept
    <3>2. Kept' \subseteq Elements(archive') \cup ContentsOf(file')
      <4>1. Kept' \cap swallowed' = {}
        BY DEF Kept
      <4>2. QED
        BY <1>1, <1>7, <2>3, <3>1, <4>1
    <3>3. Disk'
      BY <1>7, <2>2, <3>2 DEF Disk, OnDisk
    <3>4. cache' = file'
      BY <1>1, <1>7, <2>3
    <3>5. ContentsOf(cache') \subseteq OnDisk'
      BY <3>4 DEF OnDisk
    <3>6. Good(cache', Elements(archive'), Kept', made', deleted', forgotten')
      BY <2>2, <3>2, <3>4, <3>5 DEF Good
    <3>7. QED
      BY <1>1, <1>5, <3>3, <3>6
  <2>4. CASE ~ok
    <3>1. safe' = safe /\ file' = file /\ cache' = before
      BY <1>1, <2>4
    <3>2. Kept' \subseteq OnDisk'
      BY <1>1, <1>5, <3>1 DEF Sound, Disk, OnDisk
    <3>3. Disk'
      BY <1>7, <2>2, <3>2 DEF Disk
    <3>4. Good(cache', Elements(archive'), Kept', made', deleted', forgotten')
      BY <1>1, <1>5, <3>1 DEF Good
    <3>5. QED
      BY <1>1, <1>5, <3>3, <3>4
  <2>5. QED
    BY <2>3, <2>4
<1>8. QED
  BY <1>6, <1>7

(* A new exchange in a good copy: its number is in no deleted session. *)
LEMMA NewExchange ==
    ASSUME TypeOK, Sound, NEW s \in Sessions, GoodCopy(s)
    PROVE  /\ With(s, made + 1) \in Sessions
           /\ made + 1 \in ContentsOf(With(s, made + 1))
           /\ Good(With(s, made + 1), Elements(archive), Kept, made + 1, deleted, forgotten)
<1>1. made \in Nat /\ made + 1 \in Nat
  BY DEF TypeOK
<1>2. With(s, made + 1) \in Sessions
      /\ ContentsOf(With(s, made + 1)) = ContentsOf(s) \cup {made + 1} /\ s # NoSession
  BY <1>1, SessionForms
<1>3. 1..made \subseteq 1..(made + 1) /\ made + 1 \in 1..(made + 1) /\ made + 1 \notin 1..made
  BY <1>1
<1>4. made + 1 \notin forgotten
  BY <1>3 DEF Sound, Disk
<1>5. QED
  BY <1>2, <1>3, <1>4 DEF GoodCopy, Good

LEMMA GoodLater ==
    ASSUME TypeOK, NEW c, GoodCopy(c)
    PROVE  Good(c, Elements(archive), Kept, made + 1, deleted, forgotten)
<1>1. 1..made \subseteq 1..(made + 1)
  BY DEF TypeOK
<1>2. QED
  BY <1>1 DEF GoodCopy, Good

(* Who holds a copy is among the Holders. *)
LEMMA NoOtherCopy ==
    ASSUME Holding, NEW by, by # "pass", Holders \ {by} = {}
    PROVE  /\ pass.copy = NoSession
           /\ \A l \in Lanes : l # by => turn[l].copy = NoSession
BY DEF Holders, Holding

LEMMA SoundTurns ==
    ASSUME TypeOK, Holding, Sound, NEW l \in Lanes, Begin(l) \/ TurnStep(l)
    PROVE  Sound'
<1>1. /\ turn \in [Lanes -> Turns] /\ turn[l] \in Turns
      /\ GoodCopy(cache) /\ GoodCopy(pass.copy)
      /\ \A k \in Lanes : GoodCopy(turn[k].copy)
      /\ GoodCopy(Live) /\ GoodCopy(NoSession)
      /\ cache \in SessionsOrNone /\ made \in Nat
  BY LiveIsGood, NoCopyIsGood DEF TypeOK, Sound, Copies
<1>2. ASSUME NEW p, turn' = [turn EXCEPT ![l].phase = p]
      PROVE \A k \in Lanes : GoodCopy(turn'[k].copy)
  <2>1. \A k \in Lanes : turn'[k].copy = turn[k].copy
    BY <1>1, <1>2 DEF Turns
  <2>2. QED
    BY <1>1, <2>1
<1>3. CASE Begin(l)
  BY <1>1, <1>2, <1>3, QuietStep DEF Begin, ghosts
<1>4. CASE StartConsolidation(l)
  <2>1. /\ UNCHANGED <<files, safe, made, deleted, forgotten, leftover>> /\ cache' = Live
        /\ \E p : turn' = [turn EXCEPT ![l].phase = p]
        /\ pass' = TokenPass(l) \/ pass' = pass
    BY <1>4 DEF StartConsolidation, ghosts
  <2>2. GoodCopy(pass'.copy)
    <3>1. TokenPass(l).copy = NoSession
      BY DEF TokenPass, NoPass
    <3>2. QED
      BY <1>1, <2>1, <3>1
  <2>3. QED
    BY <1>1, <1>2, <2>1, <2>2, QuietStep
<1>5. CASE TakeCopy(l)
  <2>1. turn' = [turn EXCEPT ![l] = [phase |-> "running", copy |-> Live]]
        /\ UNCHANGED <<files, safe, made, deleted, forgotten, leftover, pass>> /\ cache' = Live
    BY <1>5 DEF TakeCopy, ghosts
  <2>2. \A k \in Lanes : turn'[k].copy = turn[k].copy \/ turn'[k].copy = Live
    BY <1>1, <2>1
  <2>3. QED
    BY <1>1, <2>1, <2>2, QuietStep
<1>6. CASE RunEnds(l)
  BY <1>1, <1>2, <1>6, QuietStep DEF RunEnds, ghosts
<1>7. ASSUME NEW ok \in BOOLEAN, PersistFinishedTurn(l, ok) PROVE Sound'
  <2> DEFINE s == With(turn[l].copy, made + 1)
  <2>1. turn[l].copy \in Sessions /\ GoodCopy(turn[l].copy)
    BY <1>1, <1>7 DEF PersistFinishedTurn, Holding, Turns, SessionsOrNone
  <2>2. /\ turn' = [turn EXCEPT ![l] = NoTurn] /\ pass' = pass
        /\ SavesNew(turn[l].copy, cache, ok, l) /\ UNCHANGED <<deleted, forgotten, leftover>>
    BY <1>7 DEF PersistFinishedTurn
  <2>3. /\ s \in Sessions /\ made + 1 \in ContentsOf(s)
        /\ Good(s, Elements(archive), Kept, made + 1, deleted, forgotten)
    BY <2>1, NewExchange
  <2>4. Good(cache, Elements(archive), Kept, made + 1, deleted, forgotten)
    BY <1>1, GoodLater
  <2>5. /\ Saves(s, cache, ok, l) /\ made' = made + 1
        /\ \/ safe' = safe
           \/ safe' = safe \cup {made'} /\ ok /\ ~deleted /\ Holders \ {l} = {}
    BY <2>2 DEF SavesNew
  <2> HIDE DEF s
  <2>6. /\ Disk' /\ Good(cache', Elements(archive'), Kept', made', deleted', forgotten')
        /\ Elements(archive) \subseteq Elements(archive')
        /\ safe' = safe => Kept' \subseteq Kept
    BY <1>1, <1>7, <2>2, <2>3, <2>4, <2>5, SaveIsSound
  <2>7. \A k \in Lanes : turn'[k].copy = IF k = l THEN NoSession ELSE turn[k].copy
    BY <1>1, <2>2 DEF NoTurn
  <2>8. /\ Good(pass'.copy, Elements(archive'), Kept', made', deleted', forgotten')
        /\ \A k \in Lanes : Good(turn'[k].copy, Elements(archive'), Kept', made',
                                 deleted', forgotten')
    <3>1. CASE safe' = safe
      BY <1>1, <2>2, <2>5, <2>6, <2>7, <3>1, GoodMono
    <3>2. CASE Holders \ {l} = {}
      <4>1. l # "pass"
        BY LanesAssumption
      <4>2. pass'.copy = NoSession /\ \A k \in Lanes : turn'[k].copy = NoSession
        BY <2>2, <2>7, <3>2, <4>1, NoOtherCopy
      <4>3. QED
        BY <4>2 DEF Good
    <3>3. QED
      BY <2>5, <3>1, <3>2
  <2>9. QED
    BY <2>6, <2>8 DEF Sound, Copies, GoodCopy
<1>8. QED
  BY <1>3, <1>4, <1>5, <1>6, <1>7 DEF TurnStep

LEMMA SoundPasses == ASSUME TypeOK, Holding, Sound, PassStep PROVE Sound'
<1>1. /\ turn \in [Lanes -> Turns] /\ pass \in Passes
      /\ GoodCopy(cache) /\ GoodCopy(pass.copy)
      /\ \A k \in Lanes : GoodCopy(turn[k].copy)
      /\ GoodCopy(Live) /\ GoodCopy(NoSession) /\ NoPass.copy = NoSession
      /\ cache \in SessionsOrNone /\ Live \in Sessions
  BY LiveIsGood, LiveType, NoCopyIsGood DEF TypeOK, Sound, Copies, NoPass
<1>2. ASSUME PassEnds
      PROVE GoodCopy(pass'.copy) /\ \A k \in Lanes : turn'[k].copy = turn[k].copy
  <2>1. \A k \in Lanes : turn'[k].copy = turn[k].copy
    BY <1>1, <1>2 DEF PassEnds, Turns
  <2>2. pass'.copy = NoSession
    BY <1>1, <1>2 DEF PassEnds
  <2>3. QED
    BY <1>1, <2>1, <2>2
<1>3. CASE StartBackground
  <2>1. TokenPass("background").copy = NoSession
    BY DEF TokenPass, NoPass
  <2>2. pass'.copy = NoSession /\ turn' = turn /\ cache' = Live
        /\ UNCHANGED <<files, safe, made, deleted, forgotten, leftover>>
    BY <1>1, <1>3, <2>1 DEF StartBackground, ghosts
  <2>3. QED
    BY <1>1, <2>2, QuietStep
<1>4. CASE PickChunk
  <2>1. cache' = Live /\ UNCHANGED <<files, safe, made, deleted, forgotten, leftover>>
    BY <1>4 DEF PickChunk, ghosts
  <2>2. GoodCopy(pass'.copy) /\ \A k \in Lanes : turn'[k].copy = turn[k].copy
    <3>1. CASE Boundary(Live) > Live.lc
      <4>1. turn' = turn /\ pass'.copy = pass.copy
        BY <1>1, <1>4, <3>1 DEF PickChunk, Passes
      <4>2. QED
        BY <1>1, <4>1
    <3>2. CASE ~(Boundary(Live) > Live.lc)
      BY <1>2, <1>4, <3>2 DEF PickChunk
    <3>3. QED
      BY <3>1, <3>2
  <2>3. QED
    BY <1>1, <2>1, <2>2, QuietStep
<1>5. CASE StartCompaction
  <2> DEFINE s == Reloaded
  <2>1. GoodCopy(s)
    BY LiveIsGood
  <2>2. pass'.copy = s /\ cache' = s /\ turn' = turn
        /\ UNCHANGED <<files, safe, made, deleted, forgotten, leftover>>
    BY <1>5 DEF StartCompaction, NoPass, ghosts
  <2>3. QED
    BY <1>1, <2>1, <2>2, QuietStep
<1>6. ASSUME NEW logged \in BOOLEAN, CompactIdle(logged) PROVE Sound'
  <2>1. /\ turn' = turn /\ cache' = cache /\ pass.kind = "idle"
        /\ UNCHANGED <<files, safe, made, deleted, forgotten, leftover>>
        /\ pass' = [pass EXCEPT !.stage = "save", !.copy.lc = Len(pass.copy.msgs) - Suffix]
        /\ pass.stage = "await"
    BY <1>6 DEF CompactIdle, ghosts
  <2>2. pass.copy \in Sessions
    BY <1>1, <2>1 DEF Holding, Passes, SessionsOrNone
  <2>3. Len(pass.copy.msgs) - Suffix \in Nat
    BY <2>1, <2>2, SizesAssumption DEF Holding, Sessions
  <2>4. ContentsOf([pass.copy EXCEPT !.lc = Len(pass.copy.msgs) - Suffix])
            = ContentsOf(pass.copy)
    BY <2>2, <2>3, SessionForms
  <2>5. pass'.copy = [pass.copy EXCEPT !.lc = Len(pass.copy.msgs) - Suffix]
    BY <1>1, <2>1 DEF Passes
  <2>6. GoodCopy(pass'.copy)
    BY <1>1, <2>2, <2>4, <2>5, GoodSame
  <2>7. QED
    BY <1>1, <2>1, <2>6, QuietStep
<1>7. ASSUME NEW ok \in BOOLEAN, NEW logged \in BOOLEAN, Summarise(ok, logged) PROVE Sound'
  <2>1. UNCHANGED <<files, safe, made, deleted, forgotten, leftover>>
    BY <1>7 DEF Summarise
  <2>2. CASE ok
    <3>1. pass.end \in Nat
      BY <1>1 DEF Passes
    <3>2. ContentsOf([Live EXCEPT !.lc = pass.end]) = ContentsOf(Live)
      BY <1>1, <3>1, SessionForms
    <3>3. GoodCopy([Live EXCEPT !.lc = pass.end])
      BY <1>1, <3>2, GoodSame
    <3>4. /\ turn' = turn /\ cache' = [Live EXCEPT !.lc = pass.end]
          /\ pass'.copy = [Live EXCEPT !.lc = pass.end]
      BY <1>1, <1>7, <2>2 DEF Summarise, Passes
    <3>5. QED
      BY <1>1, <2>1, <3>3, <3>4, QuietStep
  <2>3. CASE ~ok
    <3>1. PassEnds /\ cache' = cache
      BY <1>7, <2>3 DEF Summarise
    <3>2. QED
      BY <1>1, <1>2, <2>1, <3>1, QuietStep
  <2>4. QED
    BY <2>2, <2>3
<1>8. ASSUME NEW ok \in BOOLEAN, SavePass(ok) PROVE Sound'
  <2>1. /\ Saves(pass.copy, cache, ok, "pass")
        /\ UNCHANGED <<safe, made, deleted, forgotten, leftover>> /\ pass.stage = "save"
    BY <1>8 DEF SavePass
  <2>2. pass.copy \in Sessions
    BY <1>1, <2>1 DEF Holding, Passes, SessionsOrNone
  <2>3. /\ Good(pass.copy, Elements(archive), Kept, made', deleted, forgotten)
        /\ Good(cache, Elements(archive), Kept, made', deleted, forgotten)
    BY <1>1, <2>1 DEF GoodCopy
  <2>4. /\ Disk' /\ Good(cache', Elements(archive'), Kept', made', deleted', forgotten')
        /\ Elements(archive) \subseteq Elements(archive') /\ Kept' \subseteq Kept
    BY <1>1, <1>8, <2>1, <2>2, <2>3, SaveIsSound
  <2>5. /\ \A k \in Lanes : turn'[k].copy = turn[k].copy
        /\ pass'.copy = NoSession
    <3>1. CASE PassEnds
      BY <1>1, <1>2, <3>1 DEF PassEnds
    <3>2. CASE pass' = TokenPass(pass.by) /\ turn' = turn
      BY <3>2 DEF TokenPass, NoPass
    <3>3. QED
      BY <1>8, <3>1, <3>2 DEF SavePass
  <2>6. \A k \in Lanes : Good(turn'[k].copy, Elements(archive'), Kept', made',
                              deleted', forgotten')
    BY <1>1, <2>1, <2>4, <2>5, GoodMono
  <2>7. Good(pass'.copy, Elements(archive'), Kept', made', deleted', forgotten')
    BY <2>5 DEF Good
  <2>8. QED
    BY <2>4, <2>6, <2>7 DEF Sound, Copies, GoodCopy
<1>9. QED
  BY <1>3, <1>4, <1>5, <1>6, <1>7, <1>8 DEF PassStep

LEMMA SoundOperations ==
    ASSUME TypeOK, Holding, Sound, NEW ok \in BOOLEAN,
           PersistCommandTurn(ok) \/ Rename(ok) \/ StoreTitle(ok)
    PROVE  Sound'
<1>1. /\ GoodCopy(cache) /\ GoodCopy(pass.copy) /\ GoodCopy(Live)
      /\ \A k \in Lanes : GoodCopy(turn[k].copy)
      /\ cache \in SessionsOrNone /\ Live \in Sessions /\ made \in Nat
  BY LiveIsGood, LiveType DEF TypeOK, Sound, Copies
<1>2. ASSUME NEW s \in Sessions, NEW before \in SessionsOrNone, NEW by,
             Saves(s, before, ok, by), GoodCopy(s), GoodCopy(before),
             UNCHANGED <<turn, pass, safe, made, deleted, forgotten, leftover>>
      PROVE Sound'
  <2>1. /\ Good(s, Elements(archive), Kept, made', deleted, forgotten)
        /\ Good(before, Elements(archive), Kept, made', deleted, forgotten)
    BY <1>2 DEF GoodCopy
  <2>2. /\ Disk' /\ Good(cache', Elements(archive'), Kept', made', deleted', forgotten')
        /\ Elements(archive) \subseteq Elements(archive') /\ Kept' \subseteq Kept
    BY <1>2, <2>1, SaveIsSound
  <2>3. /\ Good(pass'.copy, Elements(archive'), Kept', made', deleted', forgotten')
        /\ \A k \in Lanes : Good(turn'[k].copy, Elements(archive'), Kept', made',
                                 deleted', forgotten')
    BY <1>1, <1>2, <2>2, GoodMono
  <2>4. QED
    BY <2>2, <2>3 DEF Sound, Copies, GoodCopy
<1>3. CASE PersistCommandTurn(ok)
  <2> DEFINE s == With(Live, made + 1)
  <2>1. /\ s \in Sessions /\ s \in SessionsOrNone /\ made + 1 \in ContentsOf(s)
        /\ Good(s, Elements(archive), Kept, made + 1, deleted, forgotten)
    BY <1>1, NewExchange DEF SessionsOrNone
  <2>2. /\ Saves(s, s, ok, "command") /\ made' = made + 1
        /\ UNCHANGED <<turn, pass, deleted, forgotten, leftover>>
        /\ \/ safe' = safe
           \/ safe' = safe \cup {made'} /\ ok /\ ~deleted /\ Holders \ {"command"} = {}
    BY <1>3 DEF PersistCommandTurn, SavesNew
  <2> HIDE DEF s
  <2>3. /\ Disk' /\ Good(cache', Elements(archive'), Kept', made', deleted', forgotten')
        /\ Elements(archive) \subseteq Elements(archive')
        /\ safe' = safe => Kept' \subseteq Kept
    BY <2>1, <2>2, SaveIsSound
  <2>4. /\ Good(pass'.copy, Elements(archive'), Kept', made', deleted', forgotten')
        /\ \A k \in Lanes : Good(turn'[k].copy, Elements(archive'), Kept', made',
                                 deleted', forgotten')
    <3>1. CASE safe' = safe
      BY <1>1, <2>2, <2>3, <3>1, GoodMono
    <3>2. CASE Holders \ {"command"} = {}
      <4>1. \A k \in Lanes : k # "command"
        BY LanesAssumption
      <4>2. pass.copy = NoSession /\ \A k \in Lanes : turn[k].copy = NoSession
        BY <3>2, <4>1, NoOtherCopy
      <4>3. QED
        BY <2>2, <4>2 DEF Good
    <3>3. QED
      BY <2>2, <3>1, <3>2
  <2>5. QED
    BY <2>3, <2>4 DEF Sound, Copies, GoodCopy
<1>4. CASE Rename(ok)
  <2> DEFINE s == [Existing EXCEPT !.title = "renamed"]
  <2>1. Existing \in Sessions /\ GoodCopy(Existing)
    BY <1>4, LiveType, LiveIsGood DEF Rename, SessionsOrNone
  <2>2. s \in Sessions /\ ContentsOf(s) = ContentsOf(Existing)
    <3>1. "renamed" \in Titles /\ 0 \in Nat
      BY DEF Titles
    <3>2. QED
      BY <2>1, <3>1, SessionForms
  <2>3. GoodCopy(s)
    BY <2>1, <2>2, GoodSame
  <2>4. /\ Saves(s, cache, ok, "rename")
        /\ UNCHANGED <<turn, pass, safe, made, deleted, forgotten, leftover>>
    BY <1>4 DEF Rename
  <2> HIDE DEF s
  <2>5. QED
    BY <1>1, <1>2, <2>2, <2>3, <2>4
<1>5. CASE StoreTitle(ok)
  <2> DEFINE s == [Live EXCEPT !.title = TitleFor(Live)]
  <2>1. s \in Sessions /\ ContentsOf(s) = ContentsOf(Live)
    <3>1. TitleFor(Live) \in Titles /\ 0 \in Nat
      BY <1>1 DEF TitleFor, Titles, Sessions
    <3>2. QED
      BY <1>1, <3>1, SessionForms
  <2>2. GoodCopy(s) /\ s \in SessionsOrNone
    BY <1>1, <2>1, GoodSame DEF SessionsOrNone
  <2>3. /\ UNCHANGED <<turn, pass, safe, made, deleted, forgotten, leftover>>
        /\ (cache' = Live /\ UNCHANGED files) \/ Saves(s, s, ok, "title")
    BY <1>5 DEF StoreTitle
  <2> HIDE DEF s
  <2>4. CASE cache' = Live /\ UNCHANGED files
    BY <1>1, <2>3, <2>4, QuietStep
  <2>5. CASE Saves(s, s, ok, "title")
    BY <1>2, <2>1, <2>2, <2>3, <2>5
  <2>6. QED
    BY <2>3, <2>4, <2>5
<1>6. QED
  BY <1>3, <1>4, <1>5

(* A reset leaves nothing of what was known to be saved in the archive. *)
LEMMA ResetsIsSound ==
    ASSUME TypeOK, Sound, NEW s \in Sessions, NEW after \in SessionsOrNone,
           NEW ok \in BOOLEAN, Resets(s, after, ok),
           \/ after = cache \/ after = NoSession
           \/ ok /\ after = Cleared(s),
           UNCHANGED <<turn, pass, made, deleted, forgotten, leftover>>
    PROVE  Sound'
<1>1. /\ archive' = <<>> \/ (~ok /\ archive' = archive) 
      /\ cache' = after /\ swallowed' = swallowed
      /\ file' = IF ok /\ ~deleted THEN Cleared(s) ELSE file
      /\ safe' = IF ok THEN {} ELSE safe \ Elements(archive)
  BY DEF Resets
<1>2. Elements(<<>>) = {} /\ ContentsOf(Cleared(s)) = {}
  <2>1. Elements(<<>>) = {}
    BY DEF Elements
  <2>2. 0 \in Nat
    OBVIOUS
  <2>3. ContentsOf(Cleared(s)) = {}
    BY <2>2, SessionForms
  <2>4. QED
    BY <2>1, <2>3
<1>3. /\ Kept \subseteq Elements(archive) \cup ContentsOf(file)
      /\ OnDisk \subseteq 1..made /\ forgotten \cap OnDisk = {}
      /\ forgotten \subseteq 1..made
      /\ deleted => /\ file \in {NoSession, leftover.file}
                    /\ archive \in {<<>>, leftover.archive} /\ safe = {}
  BY DEF Sound, Disk, OnDisk
<1>4. /\ Elements(archive') \subseteq Elements(archive)
      /\ Kept' \subseteq Kept \ Elements(archive)
      /\ ContentsOf(file') \subseteq ContentsOf(file)
  <2>1. Elements(archive') \subseteq Elements(archive)
    BY <1>1, <1>2
  <2>2. Kept' \subseteq Kept \ Elements(archive)
    BY <1>1 DEF Kept
  <2>3. QED
    BY <1>1, <1>2, <2>1, <2>2
<1>5. OnDisk' \subseteq OnDisk
  BY <1>4 DEF OnDisk
<1>6. Disk'
  <2>1. Kept' \subseteq ContentsOf(file')
    <3>1. CASE ok
      BY <1>1, <3>1 DEF Kept
    <3>2. CASE ~ok
      BY <1>1, <1>3, <1>4, <3>2
    <3>3. QED
      BY <3>1, <3>2
  <2>2. deleted' => /\ file' \in {NoSession, leftover'.file}
                    /\ archive' \in {<<>>, leftover'.archive} /\ safe' = {}
    <3>1. deleted => file' = file
      BY <1>1
    <3>2. safe' \subseteq safe
      BY <1>1
    <3>3. QED
      BY <1>1, <1>3, <3>1, <3>2
  <2>3. Kept' \subseteq OnDisk'
    BY <2>1 DEF OnDisk
  <2>4. QED
    BY <1>3, <1>5, <2>2, <2>3 DEF Disk
<1>7. ASSUME NEW c, GoodCopy(c)
      PROVE Good(c, Elements(archive'), Kept', made', deleted', forgotten')
  BY <1>4, <1>7 DEF GoodCopy, Good
<1>8. Good(cache', Elements(archive'), Kept', made', deleted', forgotten')
  <2>1. CASE after = cache \/ after = NoSession
    BY <1>1, <1>7, <2>1, NoCopyIsGood DEF Sound, Copies
  <2>2. CASE ok /\ after = Cleared(s)
    BY <1>1, <1>2, <2>2 DEF Good, Kept
  <2>3. QED
    BY <2>1, <2>2
<1>9. /\ Good(pass'.copy, Elements(archive'), Kept', made', deleted', forgotten')
      /\ \A k \in Lanes : Good(turn'[k].copy, Elements(archive'), Kept', made',
                               deleted', forgotten')
  BY <1>7 DEF Sound, Copies
<1>10. QED
  BY <1>6, <1>8, <1>9 DEF Sound, Copies, GoodCopy

LEMMA SoundResets ==
    ASSUME TypeOK, Sound, NEW ok \in BOOLEAN,
           ClearResets(ok) \/ \E l \in Lanes : CmdNew(l, ok)
    PROVE  Sound'
<1>1. /\ Live \in Sessions /\ cache \in SessionsOrNone /\ NoSession \in SessionsOrNone
      /\ Existing \in SessionsOrNone /\ GoodCopy(cache) /\ GoodCopy(pass.copy)
      /\ \A k \in Lanes : GoodCopy(turn[k].copy)
  BY LiveType, TaskConstants DEF TypeOK, Sound, Copies
<1>2. ASSUME NEW l \in Lanes, CmdNew(l, ok) PROVE Sound'
  <2>1. Resets(Live, NoSession, ok) /\ UNCHANGED <<turn, pass, made, deleted, forgotten, leftover>>
    BY <1>2 DEF CmdNew
  <2>2. QED
    BY <1>1, <2>1, ResetsIsSound
<1>3. CASE ClearResets(ok)
  <2>1. UNCHANGED <<turn, pass, made, deleted, forgotten, leftover>>
    BY <1>3 DEF ClearResets
  <2>2. CASE Existing = NoSession
    <3>1. UNCHANGED <<files, cache, safe>>
      BY <1>3, <2>2 DEF ClearResets
    <3>2. QED
      BY <1>1, <2>1, <3>1, QuietStep
  <2>3. CASE Existing # NoSession
    <3> DEFINE after == IF ok /\ ~deleted THEN Cleared(Existing) ELSE cache
    <3>1. Existing \in Sessions
      BY <1>1, <2>3 DEF SessionsOrNone
    <3>2. after \in SessionsOrNone
      <4>1. 0 \in Nat
        OBVIOUS
      <4>2. QED
        BY <1>1, <3>1, <4>1, SessionForms DEF SessionsOrNone
    <3>3. Resets(Existing, after, ok)
      BY <1>3, <2>3 DEF ClearResets
    <3>4. after = cache \/ (ok /\ after = Cleared(Existing))
      OBVIOUS
    <3> HIDE DEF after
    <3>5. QED
      BY <2>1, <3>1, <3>2, <3>3, <3>4, ResetsIsSound
  <2>4. QED
    BY <2>2, <2>3
<1>4. QED
  BY <1>2, <1>3

LEMMA SoundOthers ==
    ASSUME TypeOK, Sound,
           MarkIdle \/ StartTitle \/ ClearAborts \/ DeleteAborts \/ Evict
    PROVE  Sound'
<1>1. /\ GoodCopy(cache) /\ GoodCopy(pass.copy) /\ GoodCopy(NoSession)
      /\ \A k \in Lanes : GoodCopy(turn[k].copy)
  BY NoCopyIsGood DEF Sound, Copies
<1>2. CASE MarkIdle \/ StartTitle \/ Evict
  <2>1. /\ UNCHANGED <<files, safe, made, deleted, forgotten, leftover, turn, pass>>
        /\ cache' = cache \/ cache' = NoSession
    BY <1>2 DEF MarkIdle, StartTitle, Evict, ghosts
  <2>2. QED
    BY <1>1, <2>1, QuietStep
<1>3. CASE ClearAborts \/ DeleteAborts
  <2>1. UNCHANGED <<files, safe, made, deleted, forgotten, leftover, cache>> /\ AbortTurns
    BY <1>3 DEF ClearAborts, DeleteAborts, ghosts
  <2>2. NoTurn.copy = NoSession /\ NoPass.copy = NoSession
    BY DEF NoTurn, NoPass
  <2>3. /\ pass' = pass \/ pass' = NoPass
        /\ \A k \in Lanes : turn'[k] = turn[k] \/ turn'[k] = NoTurn
    BY <2>1 DEF AbortTurns
  <2>4. GoodCopy(pass'.copy) /\ \A k \in Lanes : GoodCopy(turn'[k].copy)
    BY <1>1, <2>2, <2>3
  <2>5. QED
    BY <1>1, <2>1, <2>4, QuietStep
<1>4. QED
  BY <1>2, <1>3

LEMMA SoundDelete == ASSUME TypeOK, Sound, NEW ok \in BOOLEAN, DeleteSession(ok) PROVE Sound'
<1>1. /\ deleted' = TRUE /\ cache' = NoSession /\ safe' = {} /\ Unlinks(ok)
      /\ leftover' = [file |-> file', archive |-> archive']
      /\ forgotten' = forgotten \cup (OnDisk \ OnDisk')
      /\ UNCHANGED <<turn, pass, made>>
  BY DEF DeleteSession
<1>2. Kept' = {}
  BY <1>1 DEF Kept
<1>3. OnDisk' \subseteq OnDisk
  <2>1. /\ file' = NoSession \/ file' = file
        /\ archive' = <<>> \/ archive' = archive
    BY <1>1 DEF Unlinks
  <2>2. ContentsOf(NoSession) = {} /\ Elements(<<>>) = {}
    BY DEF ContentsOf, Elements
  <2>3. ContentsOf(file') \subseteq ContentsOf(file) /\ Elements(archive') \subseteq Elements(archive)
    BY <2>1, <2>2
  <2>4. QED
    BY <2>3 DEF OnDisk
<1>4. leftover'.file = file' /\ leftover'.archive = archive'
  BY <1>1
<1>5. /\ OnDisk \subseteq 1..made /\ forgotten \subseteq 1..made /\ forgotten \cap OnDisk = {}
  BY DEF Sound, Disk
<1>6. /\ OnDisk' \subseteq 1..made' /\ forgotten' \subseteq 1..made' /\ forgotten' \cap OnDisk' = {}
  BY <1>1, <1>3, <1>5
<1>7. Disk'
  BY <1>1, <1>2, <1>4, <1>6 DEF Disk
<1>8. ASSUME NEW c, GoodCopy(c)
      PROVE Good(c, Elements(archive'), Kept', made', deleted', forgotten')
  BY <1>1, <1>2, <1>8 DEF GoodCopy, Good
<1>9. GoodCopy(NoSession)
  BY NoCopyIsGood
<1>10. Copies'
  BY <1>1, <1>8, <1>9 DEF Sound, Copies, GoodCopy
<1>11. QED
  BY <1>7, <1>10 DEF Sound

LEMMA SoundKill == ASSUME TypeOK, Holding, Sound, Kill PROVE Sound'
<1>1. /\ KilledAnywhere /\ cache' = NoSession /\ deleted' = FALSE
      /\ UNCHANGED <<made, forgotten>>
      /\ pass'.copy = NoSession /\ \A l \in Lanes : turn'[l].copy = NoSession
  BY DEF Kill, NoTurn, NoPass
<1>2. Copies'
  BY <1>1 DEF Copies, GoodCopy, Good
<1>3. /\ Kept \subseteq Elements(archive) \cup ContentsOf(file)
      /\ Elements(archive) \subseteq 1..made /\ ContentsOf(file) \subseteq 1..made
      /\ forgotten \subseteq 1..made
      /\ forgotten \cap Elements(archive) = {} /\ forgotten \cap ContentsOf(file) = {}
      /\ ContentsOf(NoSession) = {} /\ Elements(<<>>) = {}
  BY DEF Sound, Disk, OnDisk, ContentsOf, Elements
<1>4. /\ Kept' \subseteq Elements(archive') \cup ContentsOf(file')
      /\ Elements(archive') \subseteq 1..made /\ ContentsOf(file') \subseteq 1..made
      /\ forgotten \cap Elements(archive') = {} /\ forgotten \cap ContentsOf(file') = {}
  <2>1. CASE UNCHANGED <<files, safe, named>>
    <3>1. Kept' = Kept
      BY <2>1 DEF Kept, files
    <3>2. QED
      BY <1>3, <2>1, <3>1 DEF files
  <2>2. CASE /\ ~deleted
             /\ \E s \in BeingSaved : AppendsArchive(Hidden(s), FALSE)
             /\ UNCHANGED <<file, safe, named>>
    <3>1. PICK s \in BeingSaved : AppendsArchive(Hidden(s), FALSE)
      BY <2>2
    <3>2. s \in Sessions /\ s # NoSession
      BY BeingSavedType
    <3>3. GoodCopy(s)
      BY DEF BeingSaved, Sound, Copies
    <3>4. /\ Hidden(s) \in Seq(Nat) /\ FALSE \in BOOLEAN
          /\ Elements(Hidden(s)) \subseteq ContentsOf(s)
      BY <3>2, SplitSession DEF ContentsOf
    <3>5. /\ Elements(archive) \subseteq Elements(archive')
          /\ Elements(archive') \subseteq Elements(archive) \cup Elements(Hidden(s))
          /\ swallowed' = swallowed
      BY <3>1, <3>4, AppendsKeeps
    <3>6. Kept' = Kept
      BY <2>2, <3>5 DEF Kept
    <3>7. ContentsOf(s) \subseteq 1..made /\ forgotten \cap ContentsOf(s) = {}
      BY <2>2, <3>2, <3>3 DEF GoodCopy, Good
    <3>8. QED
      BY <1>3, <2>2, <3>4, <3>5, <3>6, <3>7
  <2>3. CASE /\ file' = NoSession /\ UNCHANGED <<archive, tail, swallowed>>
             /\ safe' = safe \cap Elements(archive)
    <3>1. Kept' \subseteq Kept \cap Elements(archive)
      BY <2>3 DEF Kept
    <3>2. QED
      BY <1>3, <2>3, <3>1
  <2>4. CASE /\ archive' = <<>> /\ safe' = safe \ Elements(archive)
             /\ UNCHANGED <<file, swallowed, named>>
    <3>1. Kept' \subseteq Kept \ Elements(archive)
      BY <2>4 DEF Kept
    <3>2. QED
      BY <1>3, <2>4, <3>1
  <2>5. QED
    BY <1>1, <2>1, <2>2, <2>3, <2>4 DEF KilledAnywhere
<1>5. Disk'
  BY <1>1, <1>3, <1>4 DEF Disk, OnDisk
<1>6. QED
  BY <1>2, <1>5 DEF Sound

LEMMA SoundInit == ASSUME Init PROVE Sound
<1>1. /\ cache = NoSession /\ file = NoSession /\ archive = <<>>
      /\ safe = {} /\ forgotten = {} /\ deleted = FALSE
      /\ pass.copy = NoSession /\ \A l \in Lanes : turn[l].copy = NoSession
  BY DEF Init, NoTurn, NoPass
<1>2. OnDisk = {}
  BY <1>1 DEF OnDisk, Elements, ContentsOf
<1>3. QED
  BY <1>1, <1>2 DEF Sound, Copies, Disk, GoodCopy, Good, Kept

LEMMA SoundStep == ASSUME TypeOK, Holding, Sound, Next PROVE Sound'
<1>1. ASSUME NEW l \in Lanes, Begin(l) \/ TurnStep(l) PROVE Sound'
  BY <1>1, SoundTurns
<1>2. CASE PassStep
  BY <1>2, SoundPasses
<1>3. ASSUME NEW ok \in BOOLEAN, PersistCommandTurn(ok) \/ Rename(ok) \/ StoreTitle(ok)
      PROVE Sound'
  BY <1>3, SoundOperations
<1>4. ASSUME NEW ok \in BOOLEAN, ClearResets(ok) \/ \E l \in Lanes : CmdNew(l, ok)
      PROVE Sound'
  BY <1>4, SoundResets
<1>5. CASE MarkIdle \/ StartTitle \/ ClearAborts \/ DeleteAborts \/ Evict
  BY <1>5, SoundOthers
<1>6. CASE Kill
  BY <1>6, SoundKill
<1>7. ASSUME NEW ok \in BOOLEAN, DeleteSession(ok) PROVE Sound'
  BY <1>7, SoundDelete
<1>8. QED
  BY <1>1, <1>2, <1>3, <1>4, <1>5, <1>6, <1>7 DEF Next

LEMMA AlwaysSound == Spec => []Sound
<1>1. Init => Sound
  BY SoundInit
<1>2. TypeOK /\ Holding /\ Sound /\ [Next]_vars => Sound'
  <2> SUFFICES ASSUME TypeOK, Holding, Sound, [Next]_vars PROVE Sound'
    OBVIOUS
  <2>1. CASE Next
    BY <2>1, SoundStep
  <2>2. CASE UNCHANGED vars
    <3>1. UNCHANGED <<files, safe, made, deleted, forgotten, leftover, cache, pass, turn>>
      BY <2>2 DEF vars, ghosts, files
    <3>2. /\ GoodCopy(cache') /\ GoodCopy(pass'.copy)
          /\ \A l \in Lanes : GoodCopy(turn'[l].copy)
      BY <3>1 DEF Sound, Copies
    <3>3. QED
      BY <3>1, <3>2, QuietStep
  <2>3. QED
    BY <2>1, <2>2
<1>3. QED
  BY <1>1, <1>2, TypeCorrect, PTL DEF Spec

(* An exchange that was saved while no other task held a copy of the session stays
   in the file or the archive until the session is cleared or deleted: whatever
   turns, passes, commands, failing saves and kills come after it, unless it was
   moved to an archive that a failed or killed append had left torn. *)
THEOREM SavedIsKept == Spec => []NothingLost
<1>1. Sound => NothingLost
  BY DEF Sound, Disk, NothingLost, Kept
<1>2. QED
  BY <1>1, AlwaysSound, PTL

(* While its tombstone stands, a deleted session has nothing on disk but what a
   failing unlink left there, and nothing that was removed comes back after the
   restart that forgets the tombstone. *)
THEOREM DeletionHolds == Spec => []DeletedStaysDeleted
<1>1. Sound => DeletedStaysDeleted
  BY DEF Sound, Disk, DeletedStaysDeleted
<1>2. QED
  BY <1>1, AlwaysSound, PTL
================================================================================
