--------------------------- MODULE RunJournal_proofs ---------------------------
(***************************************************************************)
(* What the file journal promises for every number of requests and every   *)
(* length of the file: its types, that no acknowledged record is lost, and *)
(* that records come back in order, with strictly increasing sequence      *)
(* numbers, until something renumbers them.                                *)
(***************************************************************************)
EXTENDS RunJournal, FiniteSetTheorems, TLAPS

LEMMA LineTypes ==
    /\ \A p, s, i \in Nat, r \in Owners : Line(p, s, i, r) \in Lines
    /\ \A p \in Nat : TornLine(p) \in Lines
BY DEF Line, TornLine, Lines, Owners

LEMMA InitFacts ==
    ASSUME Init
    PROVE  /\ lines = {} /\ acked = {} /\ ackedSync = {}
           /\ top = 1 /\ synced = 0 /\ next = 0 /\ nextId = 1
           /\ clean \in BOOLEAN /\ renumbered = {}
BY Zenon DEF Init

LEMMA SeqToUseType == TypeOK => SeqToUse \subseteq Nat
<1> SUFFICES ASSUME TypeOK, NEW s \in SeqToUse PROVE s \in Nat
  OBVIOUS
<1>1. CASE next # 0
  BY <1>1 DEF TypeOK, SeqToUse
<1>2. CASE next = 0 /\ Intact(lines) = {}
  BY <1>2 DEF SeqToUse
<1>3. CASE next = 0 /\ Intact(lines) # {}
  <2>1. PICK l \in Intact(lines) : s = l.seq + 1
    BY <1>3 DEF SeqToUse
  <2>2. l.seq \in Nat
    BY DEF TypeOK, Intact, Lines
  <2> QED BY <2>1, <2>2
<1> QED BY <1>1, <1>2, <1>3 DEF TypeOK

LEMMA RefoldedType ==
    ASSUME TypeOK, NEW kept \in SUBSET {l.req : l \in Inbox}, NEW last \in LastOtherSeq
    PROVE  /\ Refolded(kept, last) \subseteq Lines
           /\ Cardinality(kept) \in Nat
           /\ \A l \in Refolded(kept, last) : l \in Others \/ l.pos <= top + Cardinality(kept)
<1>1. kept \subseteq Reqs /\ last \in Nat /\ IsFiniteSet(kept)
  <2>1. kept \subseteq Reqs
    BY DEF TypeOK, Inbox, Intact, Lines, Owners
  <2>2. last \in Nat
    BY DEF TypeOK, LastOtherSeq, Others, Intact, Lines
  <2> QED BY <2>1, <2>2, ReqsAssumption, FS_Subset
<1>2. Cardinality(kept) \in Nat
  BY <1>1, FS_CardinalityType
<1>3. \A r : Rank(r, kept) \in Nat /\ Rank(r, kept) <= Cardinality(kept)
  <2> TAKE r
  <2> DEFINE before == {q \in kept : AppearsBefore(q, r)}
  <2>1. before \subseteq kept
    OBVIOUS
  <2>2. IsFiniteSet(before) /\ Cardinality(before) <= Cardinality(kept)
    BY <1>1, <2>1, FS_Subset
  <2>3. Cardinality(before) \in Nat
    BY <2>2, FS_CardinalityType
  <2> QED BY <2>2, <2>3 DEF Rank
<1>4. Latest \subseteq Lines /\ Others \subseteq Lines
  BY DEF Latest, Inbox, Others, Intact, TypeOK
<1>5. \A l \in Refolded(kept, last) :
         l \in Others \/ \E m \in Latest :
            l = Line(top + Rank(m.req, kept), last + 1 + Rank(m.req, kept), m.id, m.req)
  BY DEF Refolded
<1>6. \A m \in Latest : Line(top + Rank(m.req, kept), last + 1 + Rank(m.req, kept), m.id, m.req)
                           \in Lines
  <2> TAKE m \in Latest
  <2>1. m.id \in Nat /\ m.req \in Owners
    BY <1>4 DEF Lines
  <2>2. top + Rank(m.req, kept) \in Nat /\ last + 1 + Rank(m.req, kept) \in Nat
    BY <1>1, <1>3 DEF TypeOK
  <2> QED BY <2>1, <2>2, LineTypes
<1>7. \A m \in Latest :
         Line(top + Rank(m.req, kept), last + 1 + Rank(m.req, kept), m.id, m.req).pos
            <= top + Cardinality(kept)
  BY <1>2, <1>3 DEF TypeOK, Line
<1> QED BY <1>2, <1>4, <1>5, <1>6, <1>7

(* Every variable keeps its type: the counters stay natural numbers and
   every line of the file is a record or a torn line. *)
THEOREM TypeCorrect == Spec => []TypeOK
<1>1. Init => TypeOK
  BY InitFacts DEF TypeOK
<1>2. TypeOK /\ [Next]_vars => TypeOK'
  <2> SUFFICES ASSUME TypeOK, [Next]_vars PROVE TypeOK'
    OBVIOUS
  <2>1. \A f : f \subseteq Lines /\ Replace(f) =>
           lines' \subseteq Lines /\ clean' \in BOOLEAN /\ acked' \subseteq Nat /\ ackedSync' \subseteq Nat
    BY DEF Replace, TypeOK
  <2>2. RaisesCounter => next' \in Nat
    BY DEF RaisesCounter, TypeOK, Intact, Lines, IsLast
  <2>a. \A r \in Owners, s \in SeqToUse :
           WithLine(Line(top, s, nextId, r)) \subseteq Lines /\ s + 1 \in Nat
    BY SeqToUseType, LineTypes DEF WithLine, TypeOK
  <2>b. WithLine(TornLine(top)) \subseteq Lines
    BY LineTypes DEF WithLine, TypeOK
  <2>3. ASSUME NEW r \in Owners, NEW sync \in BOOLEAN, AppendOk(r, sync) PROVE TypeOK'
    <3>1. lines' \subseteq Lines /\ next' \in Nat
      BY <2>3, <2>a DEF AppendOk
    <3>2. synced' \in Nat /\ ackedSync' \subseteq Nat
      BY <2>3 DEF AppendOk, TypeOK
    <3> QED BY <2>3, <3>1, <3>2 DEF AppendOk, NewCall, TypeOK
  <2>c. ASSUME NEW r \in Owners, NothingWritten \/ TornWritten \/ RecordWritten(r)
        PROVE  lines' \subseteq Lines /\ clean' \in BOOLEAN /\ top' \in Nat
    <3>1. CASE NothingWritten
      BY <3>1 DEF NothingWritten, TypeOK
    <3>2. CASE TornWritten
      <4>1. lines' \subseteq Lines
        BY <3>2, <2>b DEF TornWritten
      <4>2. top' \in Nat
        BY <3>2 DEF TornWritten, TypeOK
      <4>3. clean' \in BOOLEAN
        BY <3>2 DEF TornWritten
      <4> QED BY <4>1, <4>2, <4>3
    <3>3. CASE RecordWritten(r)
      BY <3>3, <2>a DEF RecordWritten, TypeOK
    <3> QED BY <2>c, <3>1, <3>2, <3>3
  <2>4. ASSUME NEW r \in Owners, AppendFails(r) PROVE TypeOK'
    <3>1. renumbered' \subseteq Causes
      BY <2>4 DEF AppendFails, TypeOK, Causes
    <3>2. /\ NothingWritten \/ TornWritten \/ RecordWritten(r)
          /\ nextId' = nextId + 1
          /\ UNCHANGED <<synced, next, acked, ackedSync>>
      BY <2>4, Zenon DEF AppendFails, NewCall
    <3> QED BY <3>1, <3>2, <2>c DEF TypeOK
  <2>5. ASSUME NEW r \in Owners, AppendKilled(r) PROVE TypeOK'
    BY <2>5, <2>c DEF AppendKilled, NewCall, TypeOK
  <2>6. CASE Compact
    BY <2>6, <2>1, <2>2 DEF Compact, Intact, TypeOK
  <2>7. CASE RewriteChangesNothing
    BY <2>7, <2>2 DEF RewriteChangesNothing, TypeOK
  <2>8. CASE CompactLedger
    <3> PICK kept \in SUBSET {l.req : l \in Inbox}, last \in LastOtherSeq :
           /\ Replace(Refolded(kept, last))
           /\ top' = top + Cardinality(kept)
           /\ synced' = top + Cardinality(kept)
      BY <2>8 DEF CompactLedger
    <3>1. Refolded(kept, last) \subseteq Lines /\ Cardinality(kept) \in Nat
      BY RefoldedType
    <3>2. renumbered' \subseteq Causes
      BY <2>8 DEF CompactLedger, TypeOK, Causes
    <3> QED BY <2>8, <2>1, <2>2, <3>1, <3>2 DEF CompactLedger, TypeOK
  <2>9. CASE Delete
    BY <2>9, <2>1 DEF Delete, TypeOK
  <2>10. CASE Kill
    BY <2>10 DEF Kill, TypeOK
  <2>11. CASE PowerLoss
    <3> PICK cut \in synced..top :
           /\ lines' \in {{k \in lines : k.pos <= cut}} \cup
                {{k \in lines : k.pos <= cut} \cup {TornLine(l.pos)} :
                    l \in {m \in lines \ {k \in lines : k.pos <= cut} :
                        \A n \in lines \ {k \in lines : k.pos <= cut} : m.pos <= n.pos}}
           /\ acked' = acked \cap (ackedSync \cup Ids({k \in lines : k.pos <= cut}))
      BY <2>11 DEF PowerLoss
    <3>1. lines' \subseteq lines \cup {TornLine(l.pos) : l \in lines}
      OBVIOUS
    <3>2. \A l \in lines : TornLine(l.pos) \in Lines
      BY LineTypes DEF TypeOK, Lines
    <3> QED BY <2>11, <3>1, <3>2 DEF PowerLoss, TypeOK
  <2>12. CASE UNCHANGED vars
    BY <2>12 DEF vars, TypeOK
  <2> QED BY <2>3, <2>4, <2>5, <2>6, <2>7, <2>8, <2>9, <2>10, <2>11, <2>12 DEF Next
<1> QED BY <1>1, <1>2, PTL DEF Spec
--------------------------------------------------------------------------------
(* AckedIsScanned is not inductive alone: a power loss cuts the file at
   `synced`, so the synced records must lie at or below it, and an append
   places its record above every line there is. *)

IdsUpTo(f, p) == {l.id : l \in {m \in Intact(f) : m.pos <= p}}

AckedInv ==
    /\ TypeOK
    /\ \A l \in lines : l.pos <= top
    /\ acked \subseteq Ids(lines)
    /\ ackedSync \subseteq IdsUpTo(lines, synced)

LEMMA IdsGrow ==
    ASSUME NEW f, NEW g, f \subseteq g, NEW p
    PROVE  Ids(f) \subseteq Ids(g) /\ IdsUpTo(f, p) \subseteq IdsUpTo(g, p)
BY DEF Ids, IdsUpTo, Intact

LEMMA UpToIsId == \A f, p : IdsUpTo(f, p) \subseteq Ids(f)
BY DEF Ids, IdsUpTo, Intact

LEMMA UpToGrows ==
    ASSUME NEW f \in SUBSET Lines, NEW p \in Nat, NEW q \in Nat, p <= q
    PROVE  IdsUpTo(f, p) \subseteq IdsUpTo(f, q)
BY DEF IdsUpTo, Intact, Lines

LEMMA SeqPositive == TypeOK => \A s \in SeqToUse : s # 0
<1> SUFFICES ASSUME TypeOK, NEW s \in SeqToUse PROVE s # 0
  OBVIOUS
<1>1. CASE next # 0
  BY <1>1 DEF SeqToUse
<1>2. CASE next = 0 /\ Intact(lines) = {}
  BY <1>2 DEF SeqToUse
<1>3. CASE next = 0 /\ Intact(lines) # {}
  <2>1. PICK l \in Intact(lines) : s = l.seq + 1
    BY <1>3 DEF SeqToUse
  <2>2. l.seq \in Nat
    BY DEF TypeOK, Intact, Lines
  <2> QED BY <2>1, <2>2
<1> QED BY <1>1, <1>2, <1>3

LEMMA AppendedIsIntact ==
    ASSUME TypeOK, NEW s \in SeqToUse, NEW r \in Owners, NEW p \in Nat, top <= p
    PROVE  nextId \in IdsUpTo(WithLine(Line(top, s, nextId, r)), p)
<1> DEFINE l == Line(top, s, nextId, r)
<1>1. l \in WithLine(l) /\ l.seq # 0 /\ l.pos <= p /\ l.id = nextId
  BY SeqPositive, SeqToUseType DEF WithLine, Line
<1> QED BY <1>1 DEF IdsUpTo, Intact

LEMMA RewrittenKeepsAcked ==
    ASSUME NEW f, NEW p, Replace(f), \A l \in f : l.pos <= p
    PROVE  acked' \subseteq Ids(lines') /\ ackedSync' \subseteq IdsUpTo(lines', p)
BY DEF Replace, Ids, IdsUpTo, Intact

(* No acknowledged record is lost: whatever interleaving of appends, failed
   and killed appends, rewrites, restarts and power losses the journal goes
   through, a scan still returns it. *)
THEOREM AckedNeverLost == Spec => []AckedIsScanned
<1>1. Init => AckedInv
  BY InitFacts DEF AckedInv, TypeOK, Ids, IdsUpTo, Intact
<1>2. AckedInv /\ TypeOK' /\ [Next]_vars => AckedInv'
  <2> SUFFICES ASSUME AckedInv, TypeOK', [Next]_vars
               PROVE  /\ \A l \in lines' : l.pos <= top'
                      /\ acked' \subseteq Ids(lines')
                      /\ ackedSync' \subseteq IdsUpTo(lines', synced')
    BY DEF AckedInv
  <2>top. top \in Nat /\ synced \in Nat /\ lines \in SUBSET Lines /\ TypeOK
    BY DEF AckedInv, TypeOK
  <2>pos. \A l \in Lines : l.pos \in Nat
    BY DEF Lines
  <2>1. ASSUME NEW r \in Owners, NEW sync \in BOOLEAN, AppendOk(r, sync) PROVE AckedInv'
    <3> PICK s \in SeqToUse : lines' = WithLine(Line(top, s, nextId, r))
      BY <2>1 DEF AppendOk
    <3>1. lines \subseteq lines' /\ \A l \in lines' : l \in lines \/ l.pos = top
      BY DEF WithLine, Line
    <3>2. \A l \in lines' : l.pos <= top'
      BY <2>1, <3>1, <2>top, <2>pos DEF AppendOk, AckedInv
    <3>3. nextId \in IdsUpTo(lines', top)
      BY <2>top, AppendedIsIntact
    <3>4. acked' \subseteq Ids(lines')
      BY <2>1, <3>1, <3>3, IdsGrow, UpToIsId DEF AppendOk, AckedInv
    <3>5. ackedSync' \subseteq IdsUpTo(lines', synced')
      <4>1. CASE sync
        <5>1. IdsUpTo(lines, synced) \subseteq IdsUpTo(lines, top)
          BY <2>top, <2>pos DEF IdsUpTo, Intact, AckedInv
        <5>2. IdsUpTo(lines, top) \subseteq IdsUpTo(lines', top)
          BY <3>1, IdsGrow
        <5> QED BY <2>1, <4>1, <3>3, <5>1, <5>2 DEF AppendOk, AckedInv
      <4>2. CASE ~sync
        BY <2>1, <4>2, <3>1, IdsGrow DEF AppendOk, AckedInv
      <4> QED BY <4>1, <4>2
    <3> QED BY <3>2, <3>4, <3>5 DEF AckedInv
  <2>2. ASSUME NEW r \in Owners, NothingWritten \/ TornWritten \/ RecordWritten(r),
               UNCHANGED <<synced, acked, ackedSync>>
        PROVE  AckedInv'
    <3>1. lines \subseteq lines' /\ \A l \in lines' : l \in lines \/ l.pos = top
      <4>1. CASE NothingWritten
        BY <4>1 DEF NothingWritten
      <4>2. CASE TornWritten
        BY <4>2 DEF TornWritten, WithLine, TornLine
      <4>3. CASE RecordWritten(r)
        BY <4>3 DEF RecordWritten, WithLine, Line
      <4> QED BY <2>2, <4>1, <4>2, <4>3
    <3>2. top' \in {top, top + 1}
      BY <2>2 DEF NothingWritten, TornWritten, RecordWritten
    <3>3. \A l \in lines' : l.pos <= top'
      BY <3>1, <3>2, <2>top, <2>pos DEF AckedInv
    <3>4. Ids(lines) \subseteq Ids(lines') /\ IdsUpTo(lines, synced) \subseteq IdsUpTo(lines', synced)
      BY <3>1, IdsGrow
    <3> QED BY <2>2, <3>3, <3>4 DEF AckedInv
  <2>3. ASSUME NEW r \in Owners, AppendFails(r) PROVE AckedInv'
    BY <2>2, <2>3 DEF AppendFails
  <2>4. ASSUME NEW r \in Owners, AppendKilled(r) PROVE AckedInv'
    BY <2>2, <2>4 DEF AppendKilled
  <2>5. CASE Compact
    <3> PICK kept \in SUBSET Intact(lines) : Replace(kept)
      BY <2>5 DEF Compact
    <3>1. \A l \in kept : l.pos <= top
      BY DEF Intact, AckedInv
    <3> QED BY <2>5, <3>1, RewrittenKeepsAcked DEF Compact, Replace, AckedInv
  <2>6. CASE CompactLedger
    <3> PICK kept \in SUBSET {l.req : l \in Inbox}, last \in LastOtherSeq :
           /\ Replace(Refolded(kept, last))
           /\ top' = top + Cardinality(kept)
           /\ synced' = top + Cardinality(kept)
      BY <2>6 DEF CompactLedger
    <3>1. \A l \in Refolded(kept, last) : l.pos <= top + Cardinality(kept)
      <4> TAKE l \in Refolded(kept, last)
      <4>1. l \in Others \/ l.pos <= top + Cardinality(kept)
        BY <2>top, RefoldedType
      <4>2. l \in Others => l.pos <= top /\ l.pos \in Nat
        BY <2>top, <2>pos DEF Others, Intact, AckedInv
      <4>3. Cardinality(kept) \in Nat
        BY <2>top, RefoldedType
      <4> QED BY <4>1, <4>2, <4>3, <2>top
    <3> QED BY <3>1, RewrittenKeepsAcked DEF Replace, AckedInv
  <2>7. CASE Delete
    BY <2>7, RewrittenKeepsAcked DEF Delete, Replace, AckedInv
  <2>8. CASE PowerLoss
    <3> PICK cut \in synced..top :
           /\ {l \in lines : l.pos <= cut} \subseteq lines'
           /\ lines' \subseteq {l \in lines : l.pos <= cut} \cup {TornLine(l.pos) : l \in lines}
           /\ acked' = acked \cap (ackedSync \cup Ids({l \in lines : l.pos <= cut}))
      BY <2>8 DEF PowerLoss
    <3> DEFINE survived == {l \in lines : l.pos <= cut}
    <3>1. IdsUpTo(lines, synced) \subseteq IdsUpTo(survived, synced)
      BY <2>top, <2>pos DEF IdsUpTo, Intact
    <3>2. /\ IdsUpTo(survived, synced) \subseteq IdsUpTo(lines', synced)
          /\ Ids(survived) \subseteq Ids(lines')
      BY IdsGrow
    <3>3. \A l \in lines' : l.pos <= top
      BY DEF TornLine, AckedInv
    <3> QED BY <2>8, <3>1, <3>2, <3>3, UpToIsId DEF PowerLoss, AckedInv
  <2>9. CASE RewriteChangesNothing \/ Kill \/ UNCHANGED vars
    BY <2>9 DEF RewriteChangesNothing, Kill, vars, AckedInv
  <2> QED BY <2>1, <2>3, <2>4, <2>5, <2>6, <2>7, <2>8, <2>9 DEF Next, AckedInv
<1>3. AckedInv => AckedIsScanned
  BY UpToIsId DEF AckedInv, AckedIsScanned
<1> QED BY <1>1, <1>2, <1>3, TypeCorrect, PTL DEF Spec
--------------------------------------------------------------------------------
(* SeqIncreasing needs to know that positions and identities only grow, and
   that the in-memory counter, once read, is above every number in the file. *)

SeqInv ==
    /\ TypeOK
    /\ \A l \in lines : l.pos < top
    /\ \A l, m \in lines : l.pos = m.pos => l = m
    /\ \A l \in Intact(lines) : l.id < nextId
    /\ next # 0 => \A l \in Intact(lines) : l.seq < next
    /\ InOrder(lines)

LEMMA SeqToUseIsAbove ==
    ASSUME SeqInv, NEW s \in SeqToUse
    PROVE  \A l \in Intact(lines) : l.seq < s
<1>0. \A l \in Intact(lines) : l.pos \in Nat /\ l.seq \in Nat
  BY DEF SeqInv, TypeOK, Intact, Lines
<1>1. CASE next # 0
  BY <1>1 DEF SeqToUse, SeqInv
<1>2. CASE next = 0 /\ Intact(lines) = {}
  BY <1>2
<1>3. CASE next = 0 /\ Intact(lines) # {}
  <2>1. PICK m \in Intact(lines) : s = m.seq + 1 /\ IsLast(m, Intact(lines))
    BY <1>3 DEF SeqToUse
  <2> TAKE l \in Intact(lines)
  <2>2. l.pos <= m.pos
    BY <2>1 DEF IsLast
  <2>3. CASE l.pos = m.pos
    BY <2>3, <2>1, <1>0 DEF SeqInv, Intact
  <2>4. CASE l.pos # m.pos
    <3>1. l.pos < m.pos
      BY <2>2, <2>4, <1>0
    <3> QED BY <3>1, <2>1, <1>0 DEF SeqInv, InOrder
  <2> QED BY <2>3, <2>4
<1> QED BY <1>1, <1>2, <1>3

(* Adding one line after all the others keeps positions unique and, when it
   is a record with a number above all of them, keeps the scan in order. *)
LEMMA AppendKeepsOrder ==
    ASSUME SeqInv, NEW n \in Lines, n.pos = top,
           n.seq = 0 \/ (n.id = nextId /\ \A l \in Intact(lines) : l.seq < n.seq)
    PROVE  /\ \A l \in WithLine(n) : l.pos < top + 1
           /\ \A l, m \in WithLine(n) : l.pos = m.pos => l = m
           /\ \A l \in Intact(WithLine(n)) : l.id < nextId + 1
           /\ \A l, m \in Intact(WithLine(n)) : l.pos < m.pos => l.id < m.id /\ l.seq < m.seq
           /\ \A l \in Intact(WithLine(n)) : l \in Intact(lines) \/ l = n
<1>0. /\ top \in Nat /\ nextId \in Nat
      /\ \A l \in WithLine(n) : l.pos \in Nat /\ l.id \in Nat /\ l.seq \in Nat
  BY DEF SeqInv, TypeOK, WithLine, Lines
<1>1. \A l \in WithLine(n) : l \in lines \/ l = n
  BY DEF WithLine
<1>2. \A l \in Intact(WithLine(n)) :
         l \in WithLine(n) /\ l.seq # 0 /\ (l \in Intact(lines) \/ l = n)
  BY <1>1 DEF Intact
<1>3. \A l \in lines : l.pos < top
  BY DEF SeqInv
<1>4. \A l \in WithLine(n) : l.pos < top + 1
  BY <1>0, <1>1, <1>3
<1>5. ASSUME NEW l \in WithLine(n), NEW m \in WithLine(n), l.pos = m.pos PROVE l = m
  BY <1>0, <1>1, <1>3, <1>5 DEF SeqInv
<1>6. \A l \in Intact(WithLine(n)) : l.id < nextId + 1
  BY <1>0, <1>2 DEF SeqInv
<1>7. ASSUME NEW l \in Intact(WithLine(n)), NEW m \in Intact(WithLine(n)), l.pos < m.pos
      PROVE  l.id < m.id /\ l.seq < m.seq
  <2>1. CASE m \in Intact(lines)
    <3>1. l # n
      BY <2>1, <1>7, <1>0, <1>2, <1>3 DEF Intact
    <3>2. l \in Intact(lines)
      BY <3>1, <1>2
    <3> QED BY <2>1, <3>2, <1>7 DEF SeqInv, InOrder
  <2>2. CASE m = n
    <3>1. l \in Intact(lines)
      BY <2>2, <1>0, <1>2, <1>7
    <3> QED BY <2>2, <3>1, <1>2 DEF SeqInv
  <2> QED BY <1>2, <2>1, <2>2
<1> QED BY <1>2, <1>4, <1>5, <1>6, <1>7

(* Removing lines, and replacing lost ones by a torn one, keeps the order. *)
LEMMA CutKeepsOrder ==
    ASSUME SeqInv, NEW f, Intact(f) \subseteq Intact(lines)
    PROVE  /\ \A l \in Intact(f) : l.id < nextId
           /\ \A l, m \in Intact(f) : l.pos < m.pos => l.id < m.id /\ l.seq < m.seq
BY DEF SeqInv, InOrder

(* As long as only RunJournal::compact rewrites the journal and no failed
   append has left its record, it is read back in the order of the appends
   with strictly increasing sequence numbers, also across restarts. *)
THEOREM SeqAlwaysIncreases == Spec => []SeqIncreasing
<1>1. Init => SeqInv
  BY InitFacts DEF SeqInv, TypeOK, InOrder, Intact
<1>2. (renumbered = {} => SeqInv) /\ TypeOK' /\ [Next]_vars => (renumbered = {} => SeqInv)'
  <2> SUFFICES ASSUME SeqInv, TypeOK', [Next]_vars, renumbered = {}, renumbered' = {}
               PROVE  SeqInv'
    <3>1. renumbered # {} /\ [Next]_vars => renumbered' # {}
      BY DEF Next, vars, AppendOk, AppendFails, AppendKilled, Compact, RewriteChangesNothing,
             CompactLedger, Delete, Kill, PowerLoss
    <3> QED BY <3>1
  <2>ty. /\ top \in Nat /\ nextId \in Nat /\ next \in Nat /\ TypeOK
         /\ \A l \in lines : l.pos \in Nat /\ l.seq \in Nat /\ l.id \in Nat
    BY DEF SeqInv, TypeOK, Lines
  <2>a. ASSUME NEW r \in Owners, NEW s \in SeqToUse,
               lines' = WithLine(Line(top, s, nextId, r)), top' = top + 1, nextId' = nextId + 1,
               next' = s + 1 \/ next' = 0
        PROVE  SeqInv'
    <3> DEFINE n == Line(top, s, nextId, r)
    <3>1. s \in Nat /\ n \in Lines /\ n.pos = top /\ n.id = nextId /\ n.seq = s
      BY <2>ty, SeqToUseType, LineTypes DEF Line
    <3>2. \A l \in Intact(lines) : l.seq < s
      BY SeqToUseIsAbove
    <3> HIDE DEF n
    <3>3. /\ \A l \in lines' : l.pos < top'
          /\ \A l, m \in lines' : l.pos = m.pos => l = m
          /\ \A l \in Intact(lines') : l.id < nextId'
          /\ \A l, m \in Intact(lines') : l.pos < m.pos => l.id < m.id /\ l.seq < m.seq
          /\ \A l \in Intact(lines') : l \in Intact(lines) \/ l = n
      <4>1. lines' = WithLine(n)
        BY <2>a DEF n
      <4> QED BY <2>a, <3>1, <3>2, <4>1, AppendKeepsOrder
    <3>4. next' # 0 => \A l \in Intact(lines') : l.seq < next'
      BY <2>a, <2>ty, <3>1, <3>2, <3>3 DEF Intact
    <3> QED BY <3>3, <3>4 DEF SeqInv, InOrder
  <2>b. ASSUME TornWritten, nextId' = nextId + 1, next' = next \/ next' = 0 PROVE SeqInv'
    <3> DEFINE n == TornLine(top)
    <3>1. n \in Lines /\ n.pos = top /\ n.seq = 0
      BY <2>ty, LineTypes DEF TornLine
    <3>2. lines' = WithLine(n) /\ top' = top + 1
      BY <2>b DEF TornWritten
    <3> HIDE DEF n
    <3>3. /\ \A l \in lines' : l.pos < top'
          /\ \A l, m \in lines' : l.pos = m.pos => l = m
          /\ \A l \in Intact(lines') : l.id < nextId'
          /\ \A l, m \in Intact(lines') : l.pos < m.pos => l.id < m.id /\ l.seq < m.seq
          /\ \A l \in Intact(lines') : l \in Intact(lines) \/ l = n
      BY <2>b, <3>1, <3>2, AppendKeepsOrder
    <3>4. next' # 0 => \A l \in Intact(lines') : l.seq < next'
      BY <2>b, <3>1, <3>3 DEF Intact, SeqInv
    <3> QED BY <3>3, <3>4 DEF SeqInv, InOrder
  <2>c. ASSUME NothingWritten, nextId' = nextId + 1, next' = next \/ next' = 0 PROVE SeqInv'
    <3>1. \A l \in Intact(lines) : l.id < nextId'
      BY <2>c, <2>ty DEF SeqInv, Intact
    <3> QED BY <2>c, <3>1 DEF NothingWritten, SeqInv, InOrder
  <2>d. ASSUME NEW f, Replace(f), f \subseteq Intact(lines), top' = top, nextId' = nextId,
               next' # 0 => \A l \in Intact(lines) : l.seq < next'
        PROVE  SeqInv'
    <3>1. lines' = f /\ f \subseteq lines /\ Intact(f) \subseteq Intact(lines)
      BY <2>d DEF Replace, Intact
    <3>2. \A l \in lines' : l.pos < top'
      BY <2>d, <3>1 DEF SeqInv
    <3>3. \A l, m \in lines' : l.pos = m.pos => l = m
      BY <3>1 DEF SeqInv
    <3> QED BY <2>d, <3>1, <3>2, <3>3, CutKeepsOrder DEF SeqInv, InOrder
  <2>e. RaisesCounter => \A l \in Intact(lines) : l.seq < next'
    <3> SUFFICES ASSUME RaisesCounter, NEW l \in Intact(lines) PROVE l.seq < next'
      OBVIOUS
    <3>1. PICK m \in Intact(lines) :
             /\ IsLast(m, Intact(lines))
             /\ next' = (IF next > m.seq + 1 THEN next ELSE m.seq + 1)
      BY DEF RaisesCounter
    <3>2. l.pos <= m.pos /\ l \in lines /\ m \in lines
      BY <3>1 DEF IsLast, Intact
    <3>3. l = m \/ l.seq < m.seq
      BY <2>ty, <3>2 DEF SeqInv, InOrder
    <3> QED BY <2>ty, <3>1, <3>2, <3>3
  <2>1. ASSUME NEW r \in Owners, NEW sync \in BOOLEAN, AppendOk(r, sync) PROVE SeqInv'
    BY <2>1, <2>a DEF AppendOk, NewCall
  <2>2. ASSUME NEW r \in Owners, AppendFails(r) PROVE SeqInv'
    <3>1. CASE next = 0 /\ RecordWritten(r)
      BY <2>2, <3>1, <2>a DEF AppendFails, NewCall, RecordWritten
    <3> QED BY <2>2, <3>1, <2>b, <2>c DEF AppendFails, NewCall
  <2>3. ASSUME NEW r \in Owners, AppendKilled(r) PROVE SeqInv'
    <3>1. CASE RecordWritten(r)
      BY <2>3, <3>1, <2>a DEF AppendKilled, NewCall, RecordWritten
    <3> QED BY <2>3, <3>1, <2>b, <2>c DEF AppendKilled, NewCall
  <2>4. CASE Compact
    BY <2>4, <2>d, <2>e DEF Compact
  <2>5. CASE RewriteChangesNothing
    BY <2>5, <2>e DEF RewriteChangesNothing, SeqInv, InOrder
  <2>6. CASE CompactLedger
    BY <2>6 DEF CompactLedger
  <2>7. CASE Delete
    BY <2>7, <2>d DEF Delete, SeqInv
  <2>8. CASE Kill
    BY <2>8 DEF Kill, SeqInv, InOrder
  <2>9. CASE PowerLoss
    <3> PICK cut \in synced..top :
           LET survived == {l \in lines : l.pos <= cut}
               lost == lines \ survived
           IN  lines' \in {survived} \cup
                  {survived \cup {TornLine(l.pos)} :
                       l \in {m \in lost : \A n \in lost : m.pos <= n.pos}}
      BY <2>9 DEF PowerLoss
    <3> DEFINE survived == {l \in lines : l.pos <= cut}
    <3>1. CASE lines' = survived
      BY <2>9, <3>1, CutKeepsOrder DEF PowerLoss, SeqInv, InOrder, Intact
    <3>2. CASE \E l \in lines \ survived : lines' = survived \cup {TornLine(l.pos)}
      <4> PICK k \in lines \ survived : lines' = survived \cup {TornLine(k.pos)}
        BY <3>2
      <4>1. Intact(lines') \subseteq Intact(lines)
        BY DEF Intact, TornLine
      <4>2. \A l \in lines' : l \in survived \/ (l = TornLine(k.pos) /\ l.pos = k.pos)
        BY DEF TornLine
      <4>3. \A l \in survived : l.pos # k.pos
        BY <2>ty
      <4>4. \A l \in lines' : l.pos < top
        BY <4>2 DEF SeqInv
      <4>5. \A l, m \in lines' : l.pos = m.pos => l = m
        BY <4>2, <4>3 DEF SeqInv
      <4> QED BY <2>9, <4>1, <4>4, <4>5, CutKeepsOrder DEF PowerLoss, SeqInv, InOrder
    <3> QED BY <3>1, <3>2
  <2>10. CASE UNCHANGED vars
    BY <2>10 DEF vars, SeqInv, InOrder, TypeOK
  <2> QED BY <2>1, <2>2, <2>3, <2>4, <2>5, <2>6, <2>7, <2>8, <2>9, <2>10 DEF Next
<1>3. (renumbered = {} => SeqInv) => SeqIncreasing
  BY DEF SeqInv, SeqIncreasing
<1> QED BY <1>1, <1>2, <1>3, TypeCorrect, PTL DEF Spec
=============================================================================
