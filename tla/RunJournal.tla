------------------------------ MODULE RunJournal ------------------------------
(***************************************************************************)
(* The file-backed run journal of one session (session/journal_file.rs):   *)
(* an append-only file of one-line records, the in-memory sequence counter *)
(* of the process that has it open, and the operations of the              *)
(* `JournalStore` trait.  The session's mutex serialises the operations,   *)
(* so each is one action; an I/O error, a kill or a power loss may cut an  *)
(* append anywhere.                                                        *)
(*                                                                         *)
(* The file is a set of lines ordered by `pos`.  A record is known by `id` *)
(* (the order of the append calls) and by its owner `req`: a request of    *)
(* the inbox ledger, or NoReq for a turn record.                           *)
(***************************************************************************)
EXTENDS Integers, FiniteSets

CONSTANTS
    Reqs,              \* requests the inbox ledger remembers
    NoReq,             \* owner of a turn record
    MaxAppends         \* bound on the number of append calls

ASSUME ReqsAssumption == IsFiniteSet(Reqs) /\ NoReq \notin Reqs
ASSUME BoundAssumption == MaxAppends \in Nat

VARIABLES
    lines,      \* the file
    clean,      \* whether the file is empty or ends with a newline
    top,        \* position of the next line
    synced,     \* lines up to this position are on stable storage
    next,       \* the in-memory counter: next sequence number, 0 when unread
    nextId,     \* identity of the next append call
    acked,      \* appends that returned Ok and that no rewrite dropped
    ackedSync,  \* those of them that were Durability::Synced
    (* history *)
    renumbered  \* what may have used a sequence number twice so far

vars == <<lines, clean, top, synced, next, nextId, acked, ackedSync, renumbered>>

Causes == {"append", "ledger"}
Owners == Reqs \cup {NoReq}

Line(p, s, i, r) == [pos |-> p, seq |-> s, id |-> i, req |-> r]
TornLine(p) == [pos |-> p, seq |-> 0, id |-> 0, req |-> NoReq]
Lines == [pos : Nat, seq : Nat, id : Nat, req : Owners]

TypeOK ==
    /\ lines \subseteq Lines
    /\ clean \in BOOLEAN
    /\ top \in Nat
    /\ synced \in Nat
    /\ next \in Nat
    /\ nextId \in Nat
    /\ acked \subseteq Nat
    /\ ackedSync \subseteq Nat
    /\ renumbered \subseteq Causes

(* Sequence numbers start at 1; 0 marks a line that does not parse, which
   scan_path skips. *)
Intact(f) == {l \in f : l.seq # 0}
Ids(f) == {l.id : l \in Intact(f)}

IsLast(l, f) == l \in f /\ \A m \in f : m.pos <= l.pos

(* Mutant of SeqToUse: a restarted process counts the records. *)
SeqFromCount == IF next # 0 THEN {next} ELSE {Cardinality(Intact(lines)) + 1}

(* The sequence number append uses: the counter, or one past the last
   intact record when the counter was not read from disk yet. *)
SeqToUse ==
    IF next # 0 THEN {next}
    ELSE IF Intact(lines) = {} THEN {1}
    ELSE {l.seq + 1 : l \in {m \in Intact(lines) : IsLast(m, Intact(lines))}}

(* Mutant of WithLine: the record runs into a torn tail. *)
WithLineUnterminated(l) == lines \cup {IF clean THEN l ELSE TornLine(l.pos)}

(* A torn tail is terminated before the write, so the new bytes are a line
   of their own whatever the file ended with. *)
WithLine(l) == lines \cup {l}

Init ==
    /\ lines = {}
    /\ clean = TRUE
    /\ top = 1
    /\ synced = 0
    /\ next = 0
    /\ nextId = 1
    /\ acked = {}
    /\ ackedSync = {}
    /\ renumbered = {}

--------------------------------------------------------------------------------
(* append *)

NewCall == nextId <= MaxAppends /\ nextId' = nextId + 1

AppendOk(r, sync) ==
    /\ NewCall
    /\ \E s \in SeqToUse :
          /\ lines' = WithLine(Line(top, s, nextId, r))
          /\ next' = s + 1
    /\ clean' = TRUE
    /\ top' = top + 1
    /\ acked' = acked \cup {nextId}
    /\ IF sync
       THEN synced' = top /\ ackedSync' = ackedSync \cup {nextId}
       ELSE UNCHANGED <<synced, ackedSync>>
    /\ UNCHANGED renumbered

(* What a cut append leaves: nothing (the tail may have been terminated), a
   torn line, or the whole record with or without its newline. *)
NothingWritten == clean' \in {clean, TRUE} /\ UNCHANGED <<lines, top>>

TornWritten ==
    /\ lines' = WithLine(TornLine(top))
    /\ clean' = FALSE
    /\ top' = top + 1

RecordWritten(r) ==
    /\ \E s \in SeqToUse : lines' = WithLine(Line(top, s, nextId, r))
    /\ clean' \in BOOLEAN
    /\ top' = top + 1

(* Mutant of AppendFails: the counter is rolled back. *)
AppendFailsAndUncounts(r) ==
    /\ NewCall
    /\ NothingWritten \/ TornWritten
    /\ next' = next - 1
    /\ UNCHANGED <<synced, acked, ackedSync, renumbered>>

(* create_dir_all, open, write_all, flush or sync_data failed: the caller
   gets the error and the counter stays. *)
AppendFails(r) ==
    /\ NewCall
    /\ \/ /\ NothingWritten \/ TornWritten \/ (next = 0 /\ RecordWritten(r))
          /\ UNCHANGED renumbered
       \/ /\ next # 0 /\ RecordWritten(r)
          /\ renumbered' = renumbered \cup {"append"}
    /\ UNCHANGED <<synced, next, acked, ackedSync>>

(* The process is killed inside append: nobody is told anything. *)
AppendKilled(r) ==
    /\ NewCall
    /\ NothingWritten \/ TornWritten \/ RecordWritten(r)
    /\ next' = 0
    /\ UNCHANGED <<synced, acked, ackedSync, renumbered>>

--------------------------------------------------------------------------------
(* rewrite and delete *)

(* rewrite raises the counter past the last record before it transforms. *)
RaisesCounter ==
    \/ Intact(lines) = {} /\ next' = (IF next = 0 THEN 1 ELSE next)
    \/ \E l \in Intact(lines) :
          /\ IsLast(l, Intact(lines))
          /\ next' = (IF next > l.seq + 1 THEN next ELSE l.seq + 1)

(* write_atomic: the new content is on disk before the rename. *)
Replace(f) ==
    /\ lines' = f
    /\ clean' = TRUE
    /\ acked' = acked \cap Ids(f)
    /\ ackedSync' = ackedSync \cap Ids(f)

(* RunJournal::compact with any `keep`: the kept records keep their numbers
   and their order, torn lines disappear. *)
Compact ==
    /\ \E kept \in SUBSET Intact(lines) : kept # lines /\ Replace(kept)
    /\ RaisesCounter
    /\ synced' = top
    /\ UNCHANGED <<top, nextId, renumbered>>

(* rewrite found nothing to change, or its write failed. *)
RewriteChangesNothing ==
    /\ RaisesCounter
    /\ UNCHANGED <<lines, clean, top, synced, nextId, acked, ackedSync, renumbered>>

(* InboxLedger::compact: one record per retained request, written after the
   other records in order of first appearance and numbered from the last of
   them. *)
Inbox == {l \in Intact(lines) : l.req # NoReq}
Others == Intact(lines) \ Inbox
OfReq(r) == {l \in Inbox : l.req = r}
Latest == {l \in Inbox : IsLast(l, OfReq(l.req))}
AppearsBefore(q, r) == \E k \in OfReq(q) : \A l \in OfReq(r) : k.pos < l.pos
Rank(r, kept) == Cardinality({q \in kept : AppearsBefore(q, r)})
LastOtherSeq ==
    IF Others = {} THEN {0}
    ELSE {l.seq : l \in {k \in Others : \A m \in Others : m.seq <= k.seq}}

Refolded(kept, last) ==
    Others \cup
    {Line(top + Rank(l.req, kept), last + 1 + Rank(l.req, kept), l.id, l.req)
        : l \in {m \in Latest : m.req \in kept}}

(* The rewrite would give the same records in the same order. *)
SameFile(f) ==
    /\ {[l EXCEPT !.pos = 0] : l \in f} = {[l EXCEPT !.pos = 0] : l \in lines}
    /\ \A l \in Inbox, m \in Others : m.pos < l.pos

CompactLedger ==
    /\ \E kept \in SUBSET {l.req : l \in Inbox}, last \in LastOtherSeq :
          /\ ~SameFile(Refolded(kept, last))
          /\ Replace(Refolded(kept, last))
          /\ top' = top + Cardinality(kept)
          /\ synced' = top + Cardinality(kept)
    /\ RaisesCounter
    /\ renumbered' = renumbered \cup {"ledger"}
    /\ UNCHANGED nextId

(* delete removes the file and leaves the counter alone. *)
Delete ==
    /\ lines # {}
    /\ Replace({})
    /\ UNCHANGED <<top, synced, next, nextId, renumbered>>

--------------------------------------------------------------------------------
(* The environment *)

(* The process is killed between two operations. *)
Kill ==
    /\ next # 0
    /\ next' = 0
    /\ UNCHANGED <<lines, clean, top, synced, nextId, acked, ackedSync, renumbered>>

(* The machine loses power: what was not synced is cut anywhere, and the
   first line that is lost may survive as a torn one. *)
PowerLoss ==
    /\ \E cut \in synced..top :
          LET survived == {l \in lines : l.pos <= cut}
              lost == lines \ survived
          IN /\ lost # {}
             /\ lines' \in {survived} \cup
                   {survived \cup {TornLine(l.pos)} :
                        l \in {m \in lost : \A n \in lost : m.pos <= n.pos}}
             /\ acked' = acked \cap (ackedSync \cup Ids(survived))
    /\ clean' \in BOOLEAN
    /\ next' = 0
    /\ UNCHANGED <<top, synced, nextId, ackedSync, renumbered>>

Next ==
    \/ \E r \in Owners, sync \in BOOLEAN : AppendOk(r, sync)
    \/ \E r \in Owners : AppendFails(r)
    \/ \E r \in Owners : AppendKilled(r)
    \/ Compact
    \/ RewriteChangesNothing
    \/ CompactLedger
    \/ Delete
    \/ Kill
    \/ PowerLoss

Spec == Init /\ [][Next]_vars

--------------------------------------------------------------------------------
(* Properties *)

(* Every append that returned Ok and that no rewrite dropped is still read
   by a scan, whatever torn lines, failed appends, kills and restarts came
   before or after it; of a power loss that holds for the synced ones. *)
AckedIsScanned == acked \cup ackedSync \subseteq Ids(lines)

(* Unless the ledger was compacted, or a failed append left a record that
   the counter does not know of, a scan returns records in the order of the append calls, with strictly
   increasing sequence numbers, across compactions, kills and restarts. *)
InOrder(f) == \A l, m \in Intact(f) : l.pos < m.pos => l.id < m.id /\ l.seq < m.seq
SeqIncreasing == renumbered = {} => InOrder(lines)

(* "Sequence numbers are never reused" by a rewrite (docs/DURABILITY.md:33):
   two records of one file differ in their number, unless a failed append
   left one of them. *)
SeqNotReused ==
    "append" \notin renumbered => \A l, m \in Intact(lines) : l.seq = m.seq => l = m
=============================================================================
