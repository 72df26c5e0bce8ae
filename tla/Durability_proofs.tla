--------------------------- MODULE Durability_proofs ---------------------------
(***************************************************************************)
(* Theorems about the session of Durability.  The kinds of records, what   *)
(* each variable holds (Typed) and what a step may do to the journal come  *)
(* first; the invariants that say which turns are open and which answers   *)
(* the transcript holds rest on them.                                      *)
(***************************************************************************)
EXTENDS Durability, RecoveryPlan_proofs

--------------------------------------------------------------------------------
(* What the variables hold, once n turns were started *)

MsgsTo(n) == {User(r) : r \in Reqs} \cup {Command(r) : r \in Reqs}
                 \cup {Answer(t) : t \in 1..n} \cup {SystemPrompt}

InboxStates == {"queued", "processing", "done"}
Outcomes(n) == {NoOutcome} \cup 0..n
InboxRecs(n) ==
    [kind : {"inbox"}, req : Reqs, state : InboxStates, outcome : Outcomes(n),
     message : BOOLEAN, live : BOOLEAN]
StartRecs(n) ==
    [kind : {"turn_start"}, turn : 1..n, req : Prompts, attempt : Nat,
     user : Seq(MsgsTo(n)), live : BOOLEAN]
StepRecs(n) ==
    [kind : {"step_checkpoint"}, turn : 1..n, payload : Seq(MsgsTo(n)), live : BOOLEAN]
EndRecs(n) ==
    [kind : {"turn_end"}, turn : 1..n,
     outcome : {"completed", "failed", "cancelled", "abandoned"}, live : BOOLEAN]
RestoredRecs(n) == [kind : {"turn_restored"}, turn : 1..n, live : BOOLEAN]
Recs(n) == InboxRecs(n) \cup StartRecs(n) \cup StepRecs(n) \cup EndRecs(n) \cup RestoredRecs(n)

Entries(n) ==
    [req : Reqs, state : InboxStates, outcome : Outcomes(n),
     message : BOOLEAN, live : BOOLEAN]
Steps(n) == [action : {"close", "redrive", "keep"}, entry : Entries(n)]

Lanes(n) ==
    [pc : LanePcs, req : Reqs \cup {NoReq}, resumed : BOOLEAN, attempt : Nat,
     session : Seq(MsgsTo(n)), turn : 0..n, outcome : {"completed", "failed"},
     aborted : BOOLEAN]
Startups(n) ==
    [pc : StartupPcs, turn : 0..n, req : Reqs \cup {NoReq}, attempt : Nat,
     todo : Seq(Steps(n))]

ReplyRecs == [req : Reqs, turn : Nat, redelivered : BOOLEAN]

InTurn == {"pre_model", "model", "end", "prune", "compact", "persist"}

StoresTyped(n) ==
    /\ journal \in Seq(Recs(n))
    /\ disk \in Seq(MsgsTo(n)) /\ cache \in Seq(MsgsTo(n))
QueuesTyped == bus \in Seq(Reqs) /\ waiting \in Seq(Dispatched)
LaneTyped(n) ==
    /\ lane \in Lanes(n)
    /\ lane.pc # "idle" => lane.req \in Dispatched
    /\ lane.resumed => lane.req \in Prompts
    /\ lane.pc = "resume" => lane.resumed
    /\ lane.pc \in InTurn => lane.turn \in 1..n /\ lane.req \in Prompts
StartupTyped(n) ==
    /\ startup \in Startups(n)
    /\ startup.pc \in {"resume", "resuming"} => startup.req \in Prompts
CountsTyped ==
    /\ turns \in Seq([req : Prompts, attempt : Nat])
    /\ replies \in Seq(ReplyRecs)
    /\ delivered \in [Reqs -> 0..MaxDeliveries] /\ crashes \in 0..MaxCrashes
    /\ admitted \in [Reqs -> Nat] /\ streak \in [Reqs -> Nat]
    /\ stopped \subseteq Dispatched

N == Len(turns)
Typed ==
    /\ StoresTyped(N)
    /\ QueuesTyped
    /\ LaneTyped(N)
    /\ StartupTyped(N)
    /\ CountsTyped

--------------------------------------------------------------------------------
(* Sequences *)

LEMMA SeqElements ==
    ASSUME NEW A, NEW s \in Seq(A)
    PROVE  /\ Len(s) \in Nat /\ DOMAIN s = 1..Len(s)
           /\ \A i \in DOMAIN s : s[i] \in A
BY LenProperties, ElementOfSeq

(* Taking one element out of a sequence. *)
LEMMA RemoveTyped ==
    ASSUME NEW A, NEW s \in Seq(A), NEW n \in DOMAIN s
    PROVE  RemoveAt(s, n) \in Seq(A)
<1>1. Len(s) \in Nat /\ n \in 1..Len(s)
  BY SeqElements
<1>2. SubSeq(s, 1, n - 1) \in Seq(A)
  BY <1>1, SubSeqProperties
<1>3. SubSeq(s, n + 1, Len(s)) \in Seq(A)
  BY <1>1, SubSeqProperties
<1>4. QED
  BY <1>2, <1>3, ConcatProperties DEF RemoveAt

LEMMA TailTyped ==
    ASSUME NEW A, NEW s \in Seq(A), s # <<>>
    PROVE  Tail(s) \in Seq(A) /\ Head(s) \in A
BY HeadTailProperties

LEMMA ToSetIs ==
    ASSUME NEW A, NEW s \in Seq(A)
    PROVE  ToSet(s) \subseteq A /\ \A i \in DOMAIN s : s[i] \in ToSet(s)
BY SeqElements DEF ToSet

--------------------------------------------------------------------------------
(* Messages *)

LEMMA AnswerIs ==
    ASSUME NEW n \in Nat, NEW m \in MsgsTo(n), m[1] = "answer"
    PROVE  m[2] \in 1..n /\ m = Answer(m[2])
BY DEF MsgsTo, User, Command, Answer, SystemPrompt

LEMMA HistoryTyped ==
    ASSUME NEW A, NEW s \in Seq(A)
    PROVE  ChatHistory(s) \in Seq(A)
<1>1. {i \in DOMAIN s : s[i][1] # "command"} \subseteq DOMAIN s
  OBVIOUS
<1>2. QED
  BY <1>1, PartFacts DEF ChatHistory

LEMMA UsersFacts ==
    ASSUME NEW A, NEW s \in Seq(A), UsersOf(s) # {}
    PROVE  /\ Last1(UsersOf(s)) \in UsersOf(s) /\ Last1(UsersOf(s)) \in DOMAIN s
           /\ s[Last1(UsersOf(s))][1] = "user"
           /\ \A k \in UsersOf(s) : k <= Last1(UsersOf(s))
<1>1. UsersOf(s) \in SUBSET DOMAIN s
  BY DEF UsersOf
<1>2. UsersOf(s) \in SUBSET Int /\ IsFiniteSet(UsersOf(s))
  BY <1>1, DomainFinite
<1>3. Last1(UsersOf(s)) \in UsersOf(s) /\ \A k \in UsersOf(s) : k <= Last1(UsersOf(s))
  BY <1>2, LastFacts
<1>4. QED
  BY <1>3 DEF UsersOf

LEMMA TurnLocalTyped ==
    ASSUME NEW A, NEW s \in Seq(A), SystemPrompt \in A
    PROVE  TurnLocal(s) \in Seq(A)
<1>1. CASE UsersOf(s) = {}
  <2>1. <<SystemPrompt>> \in Seq(A)
    OBVIOUS
  <2>2. <<SystemPrompt>> \o s \in Seq(A)
    BY <2>1, ConcatProperties
  <2>3. QED
    BY <1>1, <2>2 DEF TurnLocal
<1>2. CASE UsersOf(s) # {}
  <2>1. Last1(UsersOf(s)) \in 1..Len(s) /\ Len(s) \in Nat
    BY <1>2, UsersFacts, SeqElements
  <2>2. SubSeq(s, Last1(UsersOf(s)), Len(s)) \in Seq(A)
    BY <2>1, SubSeqProperties
  <2>3. QED
    BY <1>2, <2>2 DEF TurnLocal
<1>3. QED
  BY <1>1, <1>2

LEMMA UserMessageTyped ==
    ASSUME NEW A, NEW s \in Seq(A)
    PROVE  UserMessage(s) \in Seq(A)
<1>1. CASE UsersOf(s) = {}
  BY <1>1 DEF UserMessage
<1>2. CASE UsersOf(s) # {}
  <2>1. s[Last1(UsersOf(s))] \in A
    BY <1>2, UsersFacts, SeqElements
  <2>2. QED
    BY <1>2, <2>1 DEF UserMessage
<1>3. QED
  BY <1>1, <1>2

LEMMA FinalAnswerTyped ==
    ASSUME NEW n \in Nat, NEW s \in Seq(MsgsTo(n)), HasFinalAnswer(s)
    PROVE  FinalAnswer(s) \in 1..n
<1> DEFINE h == ChatHistory(s)
<1>1. h \in Seq(MsgsTo(n)) /\ h # <<>> /\ h[Len(h)][1] = "answer"
  BY HistoryTyped DEF HasFinalAnswer
<1> HIDE DEF h
<1>2. h[Len(h)] \in MsgsTo(n)
  <2>1. Len(h) \in Nat /\ Len(h) # 0
    BY <1>1, LenProperties, EmptySeq
  <2>2. QED
    BY <1>1, <2>1, SeqElements
<1>3. h[Len(h)][2] \in 1..n
  BY <1>1, <1>2, AnswerIs
<1>4. QED
  BY <1>3 DEF FinalAnswer, h

--------------------------------------------------------------------------------
(* Records *)

LEMMA RecsGrow ==
    ASSUME NEW n \in Nat, NEW m \in Nat, n <= m
    PROVE  /\ MsgsTo(n) \subseteq MsgsTo(m) /\ Seq(MsgsTo(n)) \subseteq Seq(MsgsTo(m))
           /\ Recs(n) \subseteq Recs(m) /\ Entries(n) \subseteq Entries(m)
           /\ Steps(n) \subseteq Steps(m) /\ Seq(Steps(n)) \subseteq Seq(Steps(m))
           /\ Lanes(n) \subseteq Lanes(m) /\ Startups(n) \subseteq Startups(m)
<1>0. 1..n \subseteq 1..m /\ 0..n \subseteq 0..m /\ Outcomes(n) \subseteq Outcomes(m)
  BY DEF Outcomes
<1>1. MsgsTo(n) \subseteq MsgsTo(m)
  BY <1>0 DEF MsgsTo
<1>2. Seq(MsgsTo(n)) \subseteq Seq(MsgsTo(m))
  BY <1>1, SeqMonotone
<1>3. /\ InboxRecs(n) \subseteq InboxRecs(m) /\ StartRecs(n) \subseteq StartRecs(m)
      /\ StepRecs(n) \subseteq StepRecs(m) /\ EndRecs(n) \subseteq EndRecs(m)
      /\ RestoredRecs(n) \subseteq RestoredRecs(m)
  <2>1. InboxRecs(n) \subseteq InboxRecs(m)
    BY <1>0 DEF InboxRecs
  <2>2. StartRecs(n) \subseteq StartRecs(m)
    BY <1>0, <1>2 DEF StartRecs
  <2>3. StepRecs(n) \subseteq StepRecs(m)
    BY <1>0, <1>2 DEF StepRecs
  <2>4. EndRecs(n) \subseteq EndRecs(m) /\ RestoredRecs(n) \subseteq RestoredRecs(m)
    BY <1>0 DEF EndRecs, RestoredRecs
  <2>5. QED
    BY <2>1, <2>2, <2>3, <2>4
<1>4. Recs(n) \subseteq Recs(m)
  BY <1>3 DEF Recs
<1>5. Entries(n) \subseteq Entries(m)
  BY <1>0 DEF Entries
<1>6. Steps(n) \subseteq Steps(m)
  BY <1>5 DEF Steps
<1>7. Seq(Steps(n)) \subseteq Seq(Steps(m))
  BY <1>6, SeqMonotone
<1>8. Lanes(n) \subseteq Lanes(m)
  BY <1>0, <1>2 DEF Lanes
<1>9. Startups(n) \subseteq Startups(m)
  BY <1>0, <1>7 DEF Startups
<1>10. QED
  BY <1>1, <1>2, <1>4, <1>5, <1>6, <1>7, <1>8, <1>9

(* The kind of a record says which other fields it has. *)
LEMMA RecKinds ==
    ASSUME NEW n, NEW rec \in Recs(n)
    PROVE  /\ rec.kind = "inbox" <=> rec \in InboxRecs(n)
           /\ rec.kind = "turn_start" <=> rec \in StartRecs(n)
           /\ rec.kind = "step_checkpoint" <=> rec \in StepRecs(n)
           /\ rec.kind = "turn_end" <=> rec \in EndRecs(n)
           /\ rec.kind = "turn_restored" <=> rec \in RestoredRecs(n)
           /\ rec.kind # "inbox" => rec.turn \in 1..n
           /\ rec.live \in BOOLEAN
BY DEF Recs, InboxRecs, StartRecs, StepRecs, EndRecs, RestoredRecs

LEMMA NewRecs ==
    ASSUME NEW n \in Nat
    PROVE  /\ \A r \in Reqs, s \in InboxStates, o \in Outcomes(n), m \in BOOLEAN :
                 Inbox(r, s, o, m) \in InboxRecs(n)
           /\ \A t \in 1..n, r \in Prompts, a \in Nat, u \in Seq(MsgsTo(n)) :
                 TurnStart(t, r, a, u) \in StartRecs(n)
           /\ \A t \in 1..n, p \in Seq(MsgsTo(n)) : StepCheckpoint(t, p) \in StepRecs(n)
           /\ \A t \in 1..n, o \in {"completed", "failed", "cancelled", "abandoned"} :
                 TurnEnd(t, o) \in EndRecs(n)
           /\ \A t \in 1..n : TurnRestored(t) \in RestoredRecs(n)
<1>1. \A r \in Reqs, s \in InboxStates, o \in Outcomes(n), m \in BOOLEAN :
         Inbox(r, s, o, m) \in InboxRecs(n)
  BY DEF Inbox, InboxRecs
<1>2. \A t \in 1..n, r \in Prompts, a \in Nat, u \in Seq(MsgsTo(n)) :
         TurnStart(t, r, a, u) \in StartRecs(n)
  BY DEF TurnStart, StartRecs
<1>3. \A t \in 1..n, p \in Seq(MsgsTo(n)) : StepCheckpoint(t, p) \in StepRecs(n)
  BY DEF StepCheckpoint, StepRecs
<1>4. \A t \in 1..n, o \in {"completed", "failed", "cancelled", "abandoned"} :
         TurnEnd(t, o) \in EndRecs(n)
  BY DEF TurnEnd, EndRecs
<1>5. \A t \in 1..n : TurnRestored(t) \in RestoredRecs(n)
  BY DEF TurnRestored, RestoredRecs
<1>6. QED
  BY <1>1, <1>2, <1>3, <1>4, <1>5

(* The record that a lane or the startup task appends: the journal stays one. *)
LEMMA WriteTyped ==
    ASSUME NEW n \in Nat, NEW j \in Seq(Recs(n)), NEW rec \in Recs(n)
    PROVE  Append(j, rec) \in Seq(Recs(n))
BY AppendFacts

LEMMA EntryTyped ==
    ASSUME NEW n \in Nat, NEW j \in Seq(Recs(n)), NEW r \in LedgerReqs(j)
    PROVE  Entry(j, r) \in Entries(n) /\ r \in Reqs
<1> DEFINE I == RecordsOf(j, r)
           W == {i \in I : j[i].outcome # NoOutcome}
<1>1. I \in SUBSET DOMAIN j /\ W \in SUBSET DOMAIN j /\ I # {}
  BY DEF RecordsOf, LedgerReqs, Records
<1>2. /\ I \in SUBSET Int /\ IsFiniteSet(I)
      /\ W \in SUBSET Int /\ IsFiniteSet(W)
  BY <1>1, DomainFinite
<1>3. Last1(I) \in I
  BY <1>1, <1>2, LastFacts
<1>4. \A i \in I : j[i] \in InboxRecs(n) /\ j[i].req = r
  BY <1>1, RecKinds, SeqElements DEF RecordsOf, Records, Is
<1>5. W # {} => Last1(W) \in W
  BY <1>2, LastFacts
<1>6. W # {} => j[Last1(W)].outcome \in Outcomes(n)
  BY <1>4, <1>5 DEF InboxRecs
<1>7. NoOutcome \in Outcomes(n)
  BY DEF Outcomes
<1>8. /\ j[Last1(I)].state \in InboxStates /\ j[Last1(I)].live \in BOOLEAN
      /\ j[Last1(I)].req = r /\ r \in Reqs
  BY <1>3, <1>4 DEF InboxRecs
<1> HIDE DEF I, W
<1>9. Entry(j, r) = [req |-> r, state |-> j[Last1(I)].state,
                     outcome |-> IF W = {} THEN NoOutcome ELSE j[Last1(W)].outcome,
                     message |-> \E i \in I : /\ j[i].message
                                              /\ \A k \in I : k >= i => j[k].state # "done",
                     live |-> j[Last1(I)].live]
  BY DEF Entry, I, W
<1> DEFINE o == IF W = {} THEN NoOutcome ELSE j[Last1(W)].outcome
           m == \E i \in I : j[i].message /\ \A k \in I : k >= i => j[k].state # "done"
<1>10. o \in Outcomes(n) /\ m \in BOOLEAN
  BY <1>6, <1>7
<1> HIDE DEF o, m
<1>11. Entry(j, r) = [req |-> r, state |-> j[Last1(I)].state, outcome |-> o,
                      message |-> m, live |-> j[Last1(I)].live]
  BY <1>9 DEF o, m
<1>12. QED
  BY <1>8, <1>10, <1>11 DEF Entries

LEMMA PendingTyped ==
    ASSUME NEW n \in Nat, NEW j \in Seq(Recs(n))
    PROVE  /\ Pending(j) \in Seq({e \in Entries(n) : e.state # "done"})
           /\ EntriesOf(j) \subseteq Entries(n) /\ LedgerReqs(j) \subseteq Reqs
<1>1. EntriesOf(j) \subseteq Entries(n) /\ LedgerReqs(j) \subseteq Reqs
  BY EntryTyped DEF EntriesOf
<1>2. {e \in EntriesOf(j) : e.state # "done"} \subseteq {e \in Entries(n) : e.state # "done"}
  BY <1>1
<1>3. Pending(j) \in Seq({e \in EntriesOf(j) : e.state # "done"})
  BY PendingFacts
<1>4. Pending(j) \in Seq({e \in Entries(n) : e.state # "done"})
  BY <1>2, <1>3, SeqMonotone
<1>5. QED
  BY <1>1, <1>4

LEMMA CompactedTyped ==
    ASSUME NEW n \in Nat, NEW j \in Seq(Recs(n))
    PROVE  CompactedLedger(j) \in Seq(Recs(n))
<1> DEFINE B == {j[i] : i \in OthersAt(j)} \cup {EntryRecord(e) : e \in EntriesOf(j)}
<1>1. CompactedLedger(j) \in Seq(B)
  BY CompactedRecords
<1>2. \A i \in OthersAt(j) : j[i] \in Recs(n)
  BY SeqElements DEF OthersAt
<1>3. \A e \in Entries(n) : EntryRecord(e) \in InboxRecs(n)
  BY EntryRecordIs DEF Entries, InboxRecs
<1>4. B \subseteq Recs(n)
  BY <1>2, <1>3, PendingTyped DEF Recs
<1>5. QED
  BY <1>1, <1>4, SeqMonotone

(* A kill leaves the journal as it is, and its records belong to a process that
   is gone. *)
Killed(j) == [n \in DOMAIN j |-> [j[n] EXCEPT !.live = FALSE]]

LEMMA KilledRec ==
    ASSUME NEW n, NEW a \in Recs(n)
    PROVE  LET b == [a EXCEPT !.live = FALSE]
           IN  /\ b \in Recs(n) /\ b.kind = a.kind /\ b.live = FALSE
               /\ a.kind = "inbox" => b.req = a.req /\ b.state = a.state
                                      /\ b.outcome = a.outcome /\ b.message = a.message
               /\ a.kind # "inbox" => b.turn = a.turn
               /\ a.kind = "turn_start" => b.req = a.req /\ b.attempt = a.attempt /\ b.user = a.user
               /\ a.kind = "step_checkpoint" => b.payload = a.payload
               /\ a.kind = "turn_end" => b.outcome = a.outcome
<1> DEFINE b == [a EXCEPT !.live = FALSE]
<1>1. CASE a \in InboxRecs(n)
  BY <1>1 DEF Recs, InboxRecs
<1>2. CASE a \in StartRecs(n)
  BY <1>2 DEF Recs, StartRecs
<1>3. CASE a \in StepRecs(n)
  BY <1>3 DEF Recs, StepRecs
<1>4. CASE a \in EndRecs(n)
  BY <1>4 DEF Recs, EndRecs
<1>5. CASE a \in RestoredRecs(n)
  BY <1>5 DEF Recs, RestoredRecs
<1>6. QED
  BY <1>1, <1>2, <1>3, <1>4, <1>5 DEF Recs

LEMMA KilledTyped ==
    ASSUME NEW n \in Nat, NEW j \in Seq(Recs(n))
    PROVE  /\ Killed(j) \in Seq(Recs(n)) /\ DOMAIN Killed(j) = DOMAIN j
           /\ \A i \in DOMAIN j : Killed(j)[i] = [j[i] EXCEPT !.live = FALSE] /\ j[i] \in Recs(n)
           /\ ToRestore(Killed(j)) = ToRestore(j)
<1> DEFINE k == Killed(j)
<1>1. Len(j) \in Nat /\ DOMAIN j = 1..Len(j) /\ \A i \in DOMAIN j : j[i] \in Recs(n)
  BY SeqElements
<1>2. DOMAIN k = DOMAIN j /\ \A i \in DOMAIN j : k[i] = [j[i] EXCEPT !.live = FALSE]
  BY DEF Killed
<1>3. \A i \in DOMAIN j : /\ k[i] \in Recs(n) /\ k[i].kind = j[i].kind
                          /\ j[i].kind # "inbox" => k[i].turn = j[i].turn
                          /\ j[i].kind = "turn_end" => k[i].outcome = j[i].outcome
  <2> TAKE i \in DOMAIN j
  <2> DEFINE a == j[i]
  <2>1. a \in Recs(n) /\ k[i] = [a EXCEPT !.live = FALSE]
    BY <1>1, <1>2
  <2> HIDE DEF a, k
  <2>2. /\ k[i] \in Recs(n) /\ k[i].kind = a.kind
        /\ a.kind # "inbox" => k[i].turn = a.turn
        /\ a.kind = "turn_end" => k[i].outcome = a.outcome
    BY <2>1, KilledRec
  <2>3. QED
    BY <2>2 DEF a
<1>4. k \in [1..Len(j) -> Recs(n)]
  BY <1>1, <1>2, <1>3 DEF Killed
<1>5. k \in Seq(Recs(n))
  BY <1>1, <1>4, IsASeq
<1> HIDE DEF k
<1>6. TurnsWith(k, "turn_start") = TurnsWith(j, "turn_start")
  BY <1>2, <1>3 DEF TurnsWith, Records, Is
<1>7. TurnsWith(k, "turn_restored") = TurnsWith(j, "turn_restored")
  BY <1>2, <1>3 DEF TurnsWith, Records, Is
<1>8. {i \in Records(k, "turn_end") : k[i].outcome \in {"completed", "failed"}}
        = {i \in Records(j, "turn_end") : j[i].outcome \in {"completed", "failed"}}
  BY <1>2, <1>3 DEF Records, Is
<1>9. \A i \in {i \in Records(j, "turn_end") : j[i].outcome \in {"completed", "failed"}} : k[i].turn = j[i].turn
  BY <1>3 DEF Records, Is
<1>10. Settled(k) = Settled(j)
  BY <1>7, <1>8, <1>9 DEF Settled
<1>11. ToRestore(k) = ToRestore(j)
  BY <1>6, <1>10 DEF ToRestore
<1>12. QED
  BY <1>1, <1>2, <1>5, <1>11 DEF k

(* What recovery reads from the journal: turns that were started, their first
   record and the messages kept of them. *)
LEMMA StartOfFacts ==
    ASSUME NEW A, NEW j \in Seq(A), NEW t \in TurnsWith(j, "turn_start")
    PROVE  \E i \in DOMAIN j : /\ StartOf(j, t) = j[i] /\ j[i].kind = "turn_start" /\ j[i].turn = t
                               /\ \A k \in DOMAIN j : j[k].kind = "turn_start" /\ j[k].turn = t => i <= k
<1> DEFINE I == {i \in Records(j, "turn_start") : j[i].turn = t}
<1>1. I \in SUBSET DOMAIN j /\ I # {}
  BY DEF TurnsWith, Records
<1>2. I \in SUBSET Int /\ IsFiniteSet(I)
  BY <1>1, DomainFinite
<1>3. First1(I) \in I /\ \A k \in I : First1(I) <= k
  BY <1>1, <1>2, FirstFacts
<1>4. StartOf(j, t) = j[First1(I)]
  BY DEF StartOf
<1>5. QED
  BY <1>3, <1>4 DEF Records, Is

CheckpointsOf(j, t) == {i \in Records(j, "step_checkpoint") : j[i].turn = t}

LEMMA RestoredFacts ==
    ASSUME NEW A, NEW j \in Seq(A), NEW t
    PROVE  \/ /\ CheckpointsOf(j, t) = {}
              /\ RestoredMessages(j, t) = StartOf(j, t).user
           \/ /\ Last1(CheckpointsOf(j, t)) \in CheckpointsOf(j, t)
              /\ CheckpointsOf(j, t) \subseteq DOMAIN j
              /\ \A k \in CheckpointsOf(j, t) : k <= Last1(CheckpointsOf(j, t))
              /\ RestoredMessages(j, t) = j[Last1(CheckpointsOf(j, t))].payload
<1> DEFINE C == CheckpointsOf(j, t)
<1>1. C \in SUBSET DOMAIN j
  BY DEF CheckpointsOf, Records
<1>2. C \in SUBSET Int /\ IsFiniteSet(C)
  BY <1>1, DomainFinite
<1>3. CASE C = {}
  BY <1>3 DEF RestoredMessages, CheckpointsOf
<1>4. CASE C # {}
  <2>1. Last1(C) \in C /\ \A k \in C : k <= Last1(C)
    BY <1>2, <1>4, LastFacts
  <2>2. RestoredMessages(j, t) = j[Last1(C)].payload
    BY <1>4 DEF RestoredMessages, CheckpointsOf
  <2>3. QED
    BY <1>1, <2>1, <2>2
<1>5. QED
  BY <1>3, <1>4

LEMMA TurnsTyped ==
    ASSUME NEW n \in Nat, NEW j \in Seq(Recs(n))
    PROVE  /\ TurnsWith(j, "turn_start") \subseteq 1..n
           /\ ToRestore(j) \subseteq TurnsWith(j, "turn_start")
           /\ Unfinished(j) \subseteq TurnsWith(j, "turn_start")
           /\ \A t \in TurnsWith(j, "turn_start") : StartOf(j, t) \in StartRecs(n)
           /\ \A t \in ToRestore(j) : RestoredMessages(j, t) \in Seq(MsgsTo(n))
           /\ \A S \in SUBSET (1..n) : S \in SUBSET Int /\ IsFiniteSet(S)
<1>1. \A i \in DOMAIN j : j[i] \in Recs(n)
  BY SeqElements
<1>2. TurnsWith(j, "turn_start") \subseteq 1..n
  BY <1>1, RecKinds DEF TurnsWith, Records, Is, StartRecs
<1>3. ToRestore(j) \subseteq TurnsWith(j, "turn_start") /\ Unfinished(j) \subseteq TurnsWith(j, "turn_start")
  BY DEF ToRestore, Unfinished
<1>4. ASSUME NEW t \in TurnsWith(j, "turn_start") PROVE StartOf(j, t) \in StartRecs(n)
  BY <1>1, StartOfFacts, RecKinds
<1>5. ASSUME NEW t \in ToRestore(j) PROVE RestoredMessages(j, t) \in Seq(MsgsTo(n))
  <2>1. StartOf(j, t).user \in Seq(MsgsTo(n))
    BY <1>3, <1>4 DEF StartRecs
  <2>2. \A i \in CheckpointsOf(j, t) : j[i].payload \in Seq(MsgsTo(n))
    BY <1>1, RecKinds DEF CheckpointsOf, Records, Is, StepRecs
  <2>3. QED
    BY <2>1, <2>2, RestoredFacts
<1>6. \A S \in SUBSET (1..n) : S \in SUBSET Int /\ IsFiniteSet(S)
  <2>1. IsFiniteSet(1..n)
    BY FS_Interval
  <2>2. \A S \in SUBSET (1..n) : IsFiniteSet(S)
    BY <2>1, FS_Subset
  <2>3. QED
    BY <2>2
<1>7. QED
  BY <1>2, <1>3, <1>4, <1>5, <1>6

(* The records that give turns up. *)
Abandon(S) == [k \in DOMAIN InOrder(S) |-> TurnEnd(InOrder(S)[k], "abandoned")]

LEMMA AbandonFacts ==
    ASSUME NEW n \in Nat, NEW j \in Seq(Recs(n)), NEW S \in SUBSET (1..n)
    PROVE  /\ Abandon(S) \in Seq(EndRecs(n)) /\ j \o Abandon(S) \in Seq(Recs(n))
           /\ ToSet(Abandon(S)) = {TurnEnd(t, "abandoned") : t \in S}
           /\ ToSet(j \o Abandon(S)) = ToSet(j) \cup {TurnEnd(t, "abandoned") : t \in S}
           /\ ToRestore(j \o Abandon(S)) \subseteq ToRestore(j)
<1> DEFINE o == InOrder(S)
           e == Abandon(S)
<1>1. /\ Cardinality(S) \in Nat /\ o \in [1..Cardinality(S) -> S]
      /\ \A i \in S : Rank(S, i) \in 1..Cardinality(S) /\ o[Rank(S, i)] = i
  BY TurnsTyped, InOrderFacts
<1>2. e = [k \in 1..Cardinality(S) |-> TurnEnd(o[k], "abandoned")]
  BY <1>1 DEF Abandon
<1> HIDE DEF o, e
<1>3. \A k \in 1..Cardinality(S) : TurnEnd(o[k], "abandoned") \in EndRecs(n)
  BY <1>1, NewRecs
<1>4. e \in Seq(EndRecs(n))
  BY <1>1, <1>2, <1>3, IsASeq
<1>5. e \in Seq(Recs(n))
  BY <1>4, SeqMonotone DEF Recs
<1>6. ToSet(e) = {TurnEnd(t, "abandoned") : t \in S}
  BY <1>1, <1>2 DEF ToSet
<1>7. \A i \in DOMAIN e : e[i].kind # "turn_start"
  <2>1. \A i \in DOMAIN e : e[i] \in EndRecs(n)
    BY <1>4, SeqElements
  <2>2. QED
    BY <2>1 DEF EndRecs
<1>8. /\ j \o e \in Seq(Recs(n)) /\ ToSet(j \o e) = ToSet(j) \cup ToSet(e)
  BY <1>5, ConcatFacts
<1>9. ToRestore(j \o e) \subseteq ToRestore(j)
  BY <1>5, <1>7, ConcatOpens
<1>10. QED
  BY <1>4, <1>6, <1>8, <1>9 DEF e

(* The records with which /stop closes what is pending. *)
Closing(p) == [k \in DOMAIN p |-> Inbox(p[k].req, "done", NoOutcome, FALSE)]

LEMMA ClosingFacts ==
    ASSUME NEW n \in Nat, NEW j \in Seq(Recs(n))
    PROVE  /\ Closing(Pending(j)) \in Seq(InboxRecs(n)) /\ j \o Closing(Pending(j)) \in Seq(Recs(n))
           /\ ToRestore(j \o Closing(Pending(j))) \subseteq ToRestore(j)
<1> DEFINE p == Pending(j)
           e == Closing(p)
<1>1. p \in Seq({x \in Entries(n) : x.state # "done"})
  BY PendingTyped
<1>2. Len(p) \in Nat /\ DOMAIN p = 1..Len(p) /\ \A i \in DOMAIN p : p[i] \in Entries(n)
  <2>1. \A i \in DOMAIN p : p[i] \in {x \in Entries(n) : x.state # "done"}
    BY <1>1, SeqElements
  <2>2. QED
    BY <1>1, <2>1, SeqElements
<1> HIDE DEF p
<1>3. \A i \in DOMAIN p : Inbox(p[i].req, "done", NoOutcome, FALSE) \in InboxRecs(n)
  <2>1. \A i \in DOMAIN p : p[i].req \in Reqs
    BY <1>2 DEF Entries
  <2>2. "done" \in InboxStates /\ NoOutcome \in Outcomes(n) /\ FALSE \in BOOLEAN
    BY DEF InboxStates, Outcomes
  <2>3. QED
    BY <2>1, <2>2, NewRecs
<1>4. e \in [1..Len(p) -> InboxRecs(n)]
  BY <1>2, <1>3 DEF Closing
<1>5. e \in Seq(InboxRecs(n))
  BY <1>2, <1>4, IsASeq
<1> HIDE DEF e
<1>6. e \in Seq(Recs(n))
  BY <1>5, SeqMonotone DEF Recs
<1>7. \A i \in DOMAIN e : e[i].kind # "turn_start"
  <2>1. \A i \in DOMAIN e : e[i] \in InboxRecs(n)
    BY <1>5, SeqElements
  <2>2. QED
    BY <2>1 DEF InboxRecs
<1>8. j \o e \in Seq(Recs(n))
  BY <1>6, ConcatFacts
<1>9. ToRestore(j \o e) \subseteq ToRestore(j)
  BY <1>6, <1>7, ConcatOpens
<1>10. QED
  BY <1>5, <1>8, <1>9 DEF e, p

LEMMA RedrivePlanTyped ==
    ASSUME NEW n \in Nat, NEW j \in Seq(Recs(n))
    PROVE  RedrivePlan(j) \in Seq(Steps(n))
<1> DEFINE p == Pending(j)
           S == {i \in DOMAIN p : ~p[i].live}
           old == Part(p, S)
<1>1. p \in Seq({x \in Entries(n) : x.state # "done"})
  BY PendingTyped
<1>2. old \in Seq({x \in Entries(n) : x.state # "done"})
  BY <1>1, PartFacts
<1>3. RedrivePlan(j) = [i \in DOMAIN old |-> [action |-> RedriveAction(j, old[i]), entry |-> old[i]]]
  BY DEF RedrivePlan
<1> HIDE DEF old
<1>4. Len(old) \in Nat /\ DOMAIN old = 1..Len(old) /\ \A i \in DOMAIN old : old[i] \in Entries(n)
  <2>1. \A i \in DOMAIN old : old[i] \in {x \in Entries(n) : x.state # "done"}
    BY <1>2, SeqElements
  <2>2. QED
    BY <1>2, <2>1, SeqElements
<1>5. \A e : RedriveAction(j, e) \in {"close", "redrive", "keep"}
  BY DEF RedriveAction
<1>6. RedrivePlan(j) \in [1..Len(old) -> Steps(n)]
  BY <1>3, <1>4, <1>5 DEF Steps
<1>7. QED
  BY <1>4, <1>6, IsASeq

--------------------------------------------------------------------------------
(* Every step keeps the types. *)

LEMMA InitTyped == Init => Typed
<1> SUFFICES ASSUME Init PROVE Typed
  OBVIOUS
<1>0. \A A : <<>> \in Seq(A)
  BY EmptySeq
<1>1. turns = <<>> /\ N = 0
  BY EmptySeq DEF Init, N
<1>2. StoresTyped(N)
  BY <1>0 DEF Init, StoresTyped
<1>3. QueuesTyped
  BY <1>0 DEF Init, QueuesTyped
<1>4. LaneTyped(N)
  <2>1. Idle \in Lanes(0)
    BY <1>0 DEF Idle, Lanes, LanePcs
  <2>2. lane = Idle /\ lane.pc = "idle" /\ lane.resumed = FALSE
    BY DEF Init, Idle
  <2>3. QED
    BY <1>1, <2>1, <2>2 DEF LaneTyped, InTurn
<1>5. StartupTyped(N)
  <2>1. NoTurn \in Startups(0)
    BY <1>0 DEF NoTurn, Startups, StartupPcs
  <2>2. startup = NoTurn /\ startup.pc = "done"
    BY DEF Init, NoTurn
  <2>3. QED
    BY <1>1, <2>1, <2>2 DEF StartupTyped
<1>6. CountsTyped
  BY <1>0, BoundsAssumption DEF Init, CountsTyped
<1>7. QED
  BY <1>2, <1>3, <1>4, <1>5, <1>6 DEF Typed

(* A step that starts no turn keeps the number of turns. *)
LEMMA SameTurns == turns' = turns => N' = N
BY DEF N

LEMMA NIsNat == CountsTyped => N \in Nat /\ DOMAIN turns = 1..N
BY LenProperties DEF CountsTyped, N

LEMMA ReplyAppended ==
    ASSUME Typed, NEW q \in Reqs, NEW t \in Nat, NEW b \in BOOLEAN, Reply(q, t, b)
    PROVE  replies' \in Seq(ReplyRecs)
<1>1. [req |-> q, turn |-> t, redelivered |-> b] \in ReplyRecs
  BY DEF ReplyRecs
<1>2. QED
  BY <1>1, AppendProperties DEF Reply, Typed, CountsTyped

(* The stored reply is a text or the answer of a turn that was started. *)
LEMMA StoredReply ==
    ASSUME Typed, NEW r \in Reqs, PublishDuplicate(r)
    PROVE  \/ replies' = replies
           \/ \E t \in Nat : Reply(r, t, TRUE)
<1>0. N \in Nat /\ journal \in Seq(Recs(N))
  BY NIsNat DEF Typed, StoresTyped
<1>1. r \in LedgerReqs(journal)
  BY DEF PublishDuplicate, InLedger, RecordsOf, LedgerReqs, Records
<1>2. Entry(journal, r).outcome \in Outcomes(N)
  BY <1>0, <1>1, EntryTyped DEF Entries
<1>3. CASE Entry(journal, r).outcome # NoOutcome
  <2>1. Entry(journal, r).outcome \in Nat
    BY <1>0, <1>2, <1>3 DEF Outcomes
  <2>2. QED
    BY <2>1 DEF PublishDuplicate
<1>4. QED
  BY <1>3 DEF PublishDuplicate

LEMMA PublishTyped ==
    ASSUME Typed, NEW r \in Reqs, PublishNew(r) \/ PublishDuplicate(r)
    PROVE  Typed'
<1>0. N \in Nat
  BY NIsNat DEF Typed
<1>1. /\ UNCHANGED <<disk, cache, waiting, lane, startup, crashes, turns, stopped>>
      /\ delivered[r] < MaxDeliveries /\ delivered' = [delivered EXCEPT ![r] = @ + 1]
  BY DEF PublishNew, PublishDuplicate, Deliver
<1>2. N' = N
  BY <1>1, SameTurns
<1>3. journal' \in Seq(Recs(N)) /\ bus' \in Seq(Reqs)
  <2>1. CASE PublishNew(r)
    <3>1. Inbox(r, "queued", NoOutcome, TRUE) \in Recs(N)
      BY <1>0, NewRecs DEF InboxStates, Outcomes, Recs
    <3>2. QED
      BY <1>0, <2>1, <3>1, WriteTyped, AppendProperties DEF PublishNew, Write, Typed, StoresTyped, QueuesTyped
  <2>2. CASE PublishDuplicate(r)
    BY <2>2 DEF PublishDuplicate, Typed, StoresTyped, QueuesTyped
  <2>3. QED
    BY <2>1, <2>2
<1>4. admitted' \in [Reqs -> Nat] /\ streak' \in [Reqs -> Nat]
  <2>1. admitted \in [Reqs -> Nat] /\ streak \in [Reqs -> Nat]
    BY DEF Typed, CountsTyped
  <2>2. CASE PublishNew(r)
    BY <2>1, <2>2 DEF PublishNew
  <2>3. CASE PublishDuplicate(r)
    BY <2>1, <2>3 DEF PublishDuplicate
  <2>4. QED
    BY <2>2, <2>3
<1>5. delivered' \in [Reqs -> 0..MaxDeliveries]
  BY <1>1, BoundsAssumption DEF Typed, CountsTyped
<1>6. replies' \in Seq(ReplyRecs)
  <2>1. CASE replies' = replies
    BY <2>1 DEF Typed, CountsTyped
  <2>2. CASE \E t \in Nat : Reply(r, t, TRUE)
    BY <2>2, ReplyAppended
  <2>3. QED
    BY <2>1, <2>2, StoredReply DEF PublishNew
<1>7. QED
  BY <1>1, <1>2, <1>3, <1>4, <1>5, <1>6
     DEF Typed, StoresTyped, QueuesTyped, LaneTyped, StartupTyped, CountsTyped

LEMMA ConsumeTyped ==
    ASSUME Typed, Consume
    PROVE  Typed'
<1>0. N \in Nat
  BY NIsNat DEF Typed
<1>1. UNCHANGED <<startup, delivered, crashes, admitted, turns, streak>>
  BY DEF Consume, ConsumePrompt, ConsumeStatus, ConsumeStop, history
<1>2. N' = N
  BY <1>1, SameTurns
<1>3. bus # <<>> /\ bus' = Tail(bus) /\ bus \in Seq(Reqs)
  BY DEF Consume, ConsumePrompt, ConsumeStatus, ConsumeStop, Typed, QueuesTyped
<1>4. bus' \in Seq(Reqs) /\ Head(bus) \in Reqs
  BY <1>3, TailTyped
<1>5. waiting' \in Seq(Dispatched)
  <2>1. CASE ConsumePrompt
    BY <2>1, AppendProperties DEF ConsumePrompt, Typed, QueuesTyped
  <2>2. CASE ConsumeStatus
    BY <2>2 DEF ConsumeStatus, Typed, QueuesTyped
  <2>3. CASE ConsumeStop
    BY <2>3, EmptySeq DEF ConsumeStop
  <2>4. QED
    BY <2>1, <2>2, <2>3 DEF Consume
<1>6. Command(Head(bus)) \in MsgsTo(N)
  BY <1>4 DEF MsgsTo
<1>7. disk' \in Seq(MsgsTo(N)) /\ cache' \in Seq(MsgsTo(N))
  <2>1. CASE ConsumePrompt
    BY <2>1 DEF ConsumePrompt, stores, Typed, StoresTyped
  <2>2. CASE PersistCommand(Head(bus))
    BY <1>6, <2>2, AppendProperties DEF PersistCommand, Typed, StoresTyped
  <2>3. QED
    BY <2>1, <2>2 DEF Consume, ConsumeStatus, ConsumeStop
<1>8. journal' \in Seq(Recs(N))
  <2>1. CASE ConsumeStop
    <3>1. journal' = journal \o Closing(Pending(journal))
      BY <2>1 DEF ConsumeStop, PendingClosed, Closing
    <3>2. QED
      BY <1>0, <3>1, ClosingFacts DEF Typed, StoresTyped
  <2>2. CASE UNCHANGED journal
    BY <2>2 DEF Typed, StoresTyped
  <2>3. QED
    BY <2>1, <2>2 DEF Consume, ConsumePrompt, ConsumeStatus, stores
<1>9. replies' \in Seq(ReplyRecs)
  <2>1. CASE ConsumePrompt
    BY <2>1 DEF ConsumePrompt, history, Typed, CountsTyped
  <2>2. CASE ReplyWith(Head(bus), 0)
    BY <1>4, <2>2, ReplyAppended DEF ReplyWith
  <2>3. QED
    BY <2>1, <2>2 DEF Consume, ConsumeStatus, ConsumeStop
<1>10. LaneTyped(N)'
  <2>1. CASE ConsumeStop
    <3>1. lane' = [lane EXCEPT !.aborted = Abortable] /\ Abortable \in BOOLEAN
      BY <2>1 DEF ConsumeStop, Abortable
    <3>2. lane' \in Lanes(N)
      BY <3>1 DEF Typed, LaneTyped, Lanes
    <3>3. lane'.pc = lane.pc /\ lane'.req = lane.req /\ lane'.resumed = lane.resumed /\ lane'.turn = lane.turn
      BY <3>1 DEF Typed, LaneTyped, Lanes
    <3>4. QED
      BY <1>2, <3>2, <3>3 DEF Typed, LaneTyped
  <2>2. CASE UNCHANGED lane
    BY <1>2, <2>2 DEF Typed, LaneTyped
  <2>3. QED
    BY <2>1, <2>2 DEF Consume, ConsumePrompt, ConsumeStatus
<1>11. stopped' \subseteq Dispatched
  <2>1. CASE ConsumeStop
    <3>1. ToSet(waiting) \subseteq Dispatched
      BY ToSetIs DEF Typed, QueuesTyped
    <3>2. Abortable => lane.req \in Dispatched
      BY DEF Abortable, Typed, LaneTyped
    <3>3. QED
      BY <2>1, <3>1, <3>2 DEF ConsumeStop, Typed, CountsTyped
  <2>2. CASE UNCHANGED stopped
    BY <2>2 DEF Typed, CountsTyped
  <2>3. QED
    BY <2>1, <2>2 DEF Consume, ConsumePrompt, ConsumeStatus, history
<1>12. QED
  BY <1>1, <1>2, <1>4, <1>5, <1>7, <1>8, <1>9, <1>10, <1>11
     DEF Typed, StoresTyped, QueuesTyped, StartupTyped, CountsTyped

LEMMA CrashTyped ==
    ASSUME Typed, Crash
    PROVE  Typed'
<1>0. N \in Nat
  BY NIsNat DEF Typed
<1>1. N' = N
  BY SameTurns DEF Crash, history
<1>2. StoresTyped(N)'
  <2>1. journal' = Killed(journal)
    BY DEF Crash, Killed
  <2>2. journal' \in Seq(Recs(N))
    BY <1>0, <2>1, KilledTyped DEF Typed, StoresTyped
  <2>3. QED
    BY <1>1, <2>2 DEF Crash, Typed, StoresTyped
<1>3. QueuesTyped'
  BY EmptySeq DEF Crash, QueuesTyped
<1>4. LaneTyped(N)'
  <2>1. Idle \in Lanes(N)
    BY <1>0, EmptySeq DEF Idle, Lanes, LanePcs
  <2>2. lane' = Idle /\ lane'.pc = "idle" /\ lane'.resumed = FALSE
    BY DEF Crash, Idle
  <2>3. QED
    BY <1>1, <2>1, <2>2 DEF LaneTyped, InTurn
<1>5. StartupTyped(N)'
  <2>1. startup' = [pc |-> "plan", turn |-> 0, req |-> NoReq, attempt |-> 0, todo |-> <<>>]
    BY DEF Crash, NoTurn
  <2>2. startup' \in Startups(N) /\ startup'.pc = "plan"
    BY <1>0, <2>1, EmptySeq DEF Startups, StartupPcs
  <2>3. QED
    BY <1>1, <2>2 DEF StartupTyped
<1>6. CountsTyped'
  <2>1. crashes' \in 0..MaxCrashes
    BY BoundsAssumption DEF Crash, Typed, CountsTyped
  <2>2. streak' \in [Reqs -> Nat]
    BY DEF Crash, Typed, CountsTyped
  <2>3. QED
    BY <2>1, <2>2 DEF Crash, Typed, CountsTyped
<1>7. QED
  BY <1>2, <1>3, <1>4, <1>5, <1>6 DEF Typed

(* The lane goes on to another step. *)
LEMMA GotoTyped ==
    ASSUME Typed, NEW p \in LanePcs \ {"resume"}, Goto(p), N' = N,
           lane.pc # "idle" \/ p = "idle", p \in InTurn => lane.pc \in InTurn
    PROVE  LaneTyped(N)'
<1>1. lane \in Lanes(N) /\ lane' = [lane EXCEPT !.pc = p]
  BY DEF Typed, LaneTyped, Goto
<1>2. lane' \in Lanes(N)
  BY <1>1 DEF Lanes
<1>3. lane'.pc = p /\ lane'.req = lane.req /\ lane'.resumed = lane.resumed /\ lane'.turn = lane.turn
  BY <1>1 DEF Lanes
<1>4. QED
  BY <1>2, <1>3 DEF Typed, LaneTyped

LEMMA LaneFreed == ASSUME Typed, lane' = Idle, N' = N PROVE LaneTyped(N)'
<1>1. N \in Nat
  BY NIsNat DEF Typed
<1>2. Idle \in Lanes(N)
  BY <1>1, EmptySeq DEF Idle, Lanes, LanePcs
<1>3. lane'.pc = "idle" /\ lane'.resumed = FALSE
  BY DEF Idle
<1>4. QED
  BY <1>2, <1>3 DEF LaneTyped, InTurn

LEMMA StartupMoves ==
    ASSUME Typed, startup' = [startup EXCEPT !.pc = "redrive"], N' = N PROVE StartupTyped(N)'
<1>1. startup \in Startups(N)
  BY DEF Typed, StartupTyped
<1>2. startup' \in Startups(N) /\ startup'.pc = "redrive"
  BY <1>1 DEF Startups, StartupPcs
<1>3. QED
  BY <1>2 DEF StartupTyped

(* Steps that append one record and change neither the transcript nor the
   queues. *)
LEMMA WriterTyped ==
    ASSUME Typed, NEW rec \in Recs(N), Write(rec),
           UNCHANGED <<disk, cache, queues, delivered, crashes, admitted, turns, replies, stopped>>,
           streak' \in [Reqs -> Nat], LaneTyped(N)', StartupTyped(N)'
    PROVE  Typed'
<1>0. N \in Nat /\ N' = N
  BY NIsNat, SameTurns DEF Typed
<1>1. journal' \in Seq(Recs(N))
  BY <1>0, WriteTyped DEF Write, Typed, StoresTyped
<1>2. QED
  BY <1>0, <1>1 DEF Typed, StoresTyped, QueuesTyped, CountsTyped, queues

LEMMA TakeLockTyped == ASSUME Typed, TakeLock PROVE Typed'
<1>0. N \in Nat /\ N' = N
  BY NIsNat, SameTurns DEF Typed, TakeLock, history
<1>1. PICK k \in DOMAIN waiting : /\ lane' = [Idle EXCEPT !.pc = "locked", !.req = waiting[k]]
                                  /\ waiting' = RemoveAt(waiting, k)
  BY DEF TakeLock
<1>2. waiting' \in Seq(Dispatched) /\ waiting[k] \in Dispatched
  BY <1>1, RemoveTyped, SeqElements DEF Typed, QueuesTyped
<1>3. lane' = [pc |-> "locked", req |-> waiting[k], resumed |-> FALSE, attempt |-> 0,
               session |-> <<>>, turn |-> 0, outcome |-> "completed", aborted |-> FALSE]
  BY <1>1 DEF Idle
<1>4. lane' \in Lanes(N)
  BY <1>0, <1>2, <1>3, EmptySeq DEF Lanes, LanePcs, Reqs
<1>5. LaneTyped(N)'
  BY <1>0, <1>2, <1>3, <1>4 DEF LaneTyped, InTurn
<1>6. QED
  BY <1>0, <1>2, <1>5
     DEF TakeLock, history, stores, Typed, StoresTyped, QueuesTyped, StartupTyped, CountsTyped

LEMMA MarkProcessingTyped == ASSUME Typed, MarkProcessing PROVE Typed'
<1>0. N \in Nat /\ N' = N
  BY NIsNat, SameTurns DEF Typed, MarkProcessing, history
<1>1. Inbox(lane.req, "processing", NoOutcome, FALSE) \in Recs(N)
  BY <1>0, NewRecs DEF MarkProcessing, Typed, LaneTyped, Reqs, InboxStates, Outcomes, Recs
<1>2. LaneTyped(N)'
  BY <1>0, GotoTyped DEF MarkProcessing, LanePcs, InTurn
<1>3. StartupTyped(N)' /\ streak' \in [Reqs -> Nat]
  BY <1>0 DEF MarkProcessing, laneOnly, history, Typed, StartupTyped, CountsTyped
<1>4. QED
  BY <1>1, <1>2, <1>3, WriterTyped DEF MarkProcessing, laneOnly, history

LEMMA RestoreTurnTyped == ASSUME Typed, RestoreTurn PROVE Typed'
<1>0. N \in Nat /\ N' = N
  BY NIsNat, SameTurns DEF Typed, RestoreTurn
<1> DEFINE t == First1(ToRestore(journal))
<1>1. t \in ToRestore(journal) /\ t \in 1..N /\ RestoredMessages(journal, t) \in Seq(MsgsTo(N))
  <2>1. /\ ToRestore(journal) \in SUBSET (1..N)
        /\ \A u \in ToRestore(journal) : RestoredMessages(journal, u) \in Seq(MsgsTo(N))
    BY <1>0, TurnsTyped DEF Typed, StoresTyped
  <2>2. ToRestore(journal) \in SUBSET Int /\ IsFiniteSet(ToRestore(journal))
    BY <1>0, <2>1, TurnsTyped DEF Typed, StoresTyped
  <2>3. t \in ToRestore(journal)
    BY <2>2, FirstFacts DEF RestoreTurn
  <2>4. QED
    BY <2>1, <2>3
<1>2. /\ cache' = cache \o RestoredMessages(journal, t) /\ Write(TurnRestored(t))
      /\ MergedFor(turns[t].req)
  BY DEF RestoreTurn
<1> HIDE DEF t
<1>3. cache' \in Seq(MsgsTo(N))
  BY <1>1, <1>2, ConcatProperties DEF Typed, StoresTyped
<1>4. journal' \in Seq(Recs(N))
  <2>1. TurnRestored(t) \in Recs(N)
    BY <1>0, <1>1, NewRecs DEF Recs
  <2>2. QED
    BY <1>0, <1>2, <2>1, WriteTyped DEF Write, Typed, StoresTyped
<1>5. streak' \in [Reqs -> Nat]
  BY <1>2 DEF MergedFor, Typed, CountsTyped
<1>6. LaneTyped(N)'
  BY <1>0, GotoTyped DEF RestoreTurn, LanePcs, InTurn
<1>7. QED
  BY <1>0, <1>3, <1>4, <1>5, <1>6
     DEF RestoreTurn, laneOnly, queues, Typed, StoresTyped, QueuesTyped, StartupTyped, CountsTyped

LEMMA SaveRestoredTyped == ASSUME Typed, SaveRestored PROVE Typed'
<1>0. N \in Nat /\ N' = N
  BY NIsNat, SameTurns DEF Typed, SaveRestored, history
<1>1. disk' \in Seq(MsgsTo(N)) /\ cache \in Seq(MsgsTo(N))
  BY DEF SaveRestored, Typed, StoresTyped
<1> DEFINE p == IF lane.resumed THEN "resume" ELSE "begin"
<1>2. lane \in Lanes(N) /\ lane' = [lane EXCEPT !.pc = p, !.session = cache]
  BY DEF SaveRestored, Typed, LaneTyped
<1>3. p \in LanePcs /\ p \notin InTurn /\ p # "idle"
  BY DEF LanePcs, InTurn
<1>4. p = "resume" => lane.resumed
  OBVIOUS
<1> HIDE DEF p
<1>5. lane' \in Lanes(N)
  BY <1>1, <1>2, <1>3 DEF Lanes
<1>6. lane'.pc = p /\ lane'.req = lane.req /\ lane'.resumed = lane.resumed
  BY <1>2 DEF Lanes
<1>7. LaneTyped(N)'
  BY <1>0, <1>3, <1>4, <1>5, <1>6 DEF SaveRestored, Typed, LaneTyped
<1>8. QED
  BY <1>0, <1>1, <1>7
     DEF SaveRestored, laneOnly, queues, history, Typed, StoresTyped, QueuesTyped, StartupTyped, CountsTyped

LEMMA FindFinalAnswerTyped == ASSUME Typed, FindFinalAnswer PROVE Typed'
<1>0. N \in Nat /\ N' = N
  BY NIsNat, SameTurns DEF Typed, FindFinalAnswer, history
<1>1. lane \in Lanes(N) /\ lane' = [lane EXCEPT !.pc = "close", !.turn = FinalAnswer(lane.session)]
  BY DEF FindFinalAnswer, Typed, LaneTyped
<1>2. FinalAnswer(lane.session) \in 1..N
  <2>1. lane.session \in Seq(MsgsTo(N))
    BY <1>1 DEF Lanes
  <2>2. QED
    BY <1>0, <2>1, FinalAnswerTyped DEF FindFinalAnswer
<1>3. lane' \in Lanes(N)
  <2>1. FinalAnswer(lane.session) \in 0..N /\ "close" \in LanePcs
    BY <1>0, <1>2 DEF LanePcs
  <2>2. QED
    BY <1>1, <2>1 DEF Lanes
<1>4. lane'.pc = "close" /\ lane'.req = lane.req /\ lane'.resumed = lane.resumed
  BY <1>1 DEF Lanes
<1>5. LaneTyped(N)'
  BY <1>0, <1>3, <1>4 DEF FindFinalAnswer, InTurn, Typed, LaneTyped
<1>6. streak' \in [Reqs -> Nat]
  BY DEF FindFinalAnswer, Typed, CountsTyped
<1>7. QED
  BY <1>0, <1>5, <1>6
     DEF FindFinalAnswer, stores, laneOnly, queues, Typed, StoresTyped, QueuesTyped, StartupTyped, CountsTyped

(* A turn begins: there is one turn more. *)
LEMMA BeginTyped ==
    ASSUME Typed, NEW session \in Seq(MsgsTo(N)), Begin(session), lane.req \in Prompts,
           lane.pc # "idle"
    PROVE  Typed' /\ N' = N + 1
<1>0. N \in Nat
  BY NIsNat DEF Typed
<1>1. lane \in Lanes(N) /\ lane.attempt \in Nat
  BY DEF Typed, LaneTyped, Lanes
<1>2. [req |-> lane.req, attempt |-> lane.attempt] \in [req : Prompts, attempt : Nat]
  BY <1>1
<1>3. /\ turns' \in Seq([req : Prompts, attempt : Nat]) /\ N' = N + 1
  BY <1>2, AppendProperties DEF Begin, N, Typed, CountsTyped
<1>4. /\ Recs(N) \subseteq Recs(N') /\ Seq(MsgsTo(N)) \subseteq Seq(MsgsTo(N'))
      /\ Lanes(N) \subseteq Lanes(N') /\ Startups(N) \subseteq Startups(N')
  BY <1>0, <1>3, RecsGrow
<1>5. journal' \in Seq(Recs(N'))
  <2>1. UserMessage(ChatHistory(session)) \in Seq(MsgsTo(N'))
    BY <1>4, HistoryTyped, UserMessageTyped
  <2>2. TurnStart(N + 1, lane.req, lane.attempt, UserMessage(ChatHistory(session))) \in Recs(N')
    BY <1>0, <1>1, <1>3, <2>1, NewRecs DEF Recs
  <2>3. journal \in Seq(Recs(N'))
    BY <1>4, SeqMonotone DEF Typed, StoresTyped
  <2>4. journal' = Append(journal, TurnStart(N + 1, lane.req, lane.attempt, UserMessage(ChatHistory(session))))
    BY DEF Begin, Write, N
  <2>5. QED
    BY <1>0, <1>3, <2>2, <2>3, <2>4, WriteTyped
<1>6. StoresTyped(N)'
  BY <1>4, <1>5 DEF Begin, Typed, StoresTyped
<1>7. LaneTyped(N)'
  <2>1. lane' = [lane EXCEPT !.pc = "pre_model", !.turn = N', !.session = session]
    BY <1>3 DEF Begin, N
  <2>2. lane \in Lanes(N') /\ session \in Seq(MsgsTo(N'))
    BY <1>1, <1>4
  <2>3. lane' \in Lanes(N')
    <3>1. N' \in 0..N' /\ "pre_model" \in LanePcs
      BY <1>0, <1>3 DEF LanePcs
    <3>2. QED
      BY <2>1, <2>2, <3>1 DEF Lanes
  <2>4. lane'.pc = "pre_model" /\ lane'.req = lane.req /\ lane'.resumed = lane.resumed /\ lane'.turn = N'
    BY <2>1, <2>2 DEF Lanes
  <2>5. QED
    BY <1>0, <1>3, <2>3, <2>4 DEF Typed, LaneTyped, InTurn, Dispatched
<1>8. StartupTyped(N)' /\ QueuesTyped'
  BY <1>4 DEF Begin, laneOnly, queues, Typed, StartupTyped, QueuesTyped
<1>9. streak' \in [Reqs -> Nat]
  <2>1. streak \in [Reqs -> Nat] /\ streak' = [streak EXCEPT ![lane.req] = @ + 1]
    BY DEF Begin, Typed, CountsTyped
  <2>2. lane.req \in Reqs /\ streak[lane.req] + 1 \in Nat
    BY <2>1 DEF Reqs, Dispatched
  <2>3. QED
    BY <2>1, <2>2
<1>10. CountsTyped'
  BY <1>3, <1>9 DEF Begin, laneOnly, Typed, CountsTyped
<1>11. QED
  BY <1>3, <1>6, <1>7, <1>8, <1>10 DEF Typed

LEMMA BeginTurnIs ==
    ASSUME Typed, BeginTurn
    PROVE  /\ lane.pc \in {"begin", "resume"} /\ lane.req \in Prompts
           /\ \E session \in Seq(MsgsTo(N)) :
                 /\ Begin(session)
                 /\ \/ lane.pc = "begin" /\ session = Append(cache, User(lane.req))
                    \/ lane.pc = "resume" /\ session = lane.session /\ ~HasFinalAnswer(session)
<1>1. CASE lane.pc = "begin" /\ lane.req \in Prompts /\ Begin(Append(cache, User(lane.req)))
  <2>1. User(lane.req) \in MsgsTo(N)
    BY <1>1 DEF MsgsTo, Reqs, Dispatched
  <2>2. Append(cache, User(lane.req)) \in Seq(MsgsTo(N))
    BY <2>1, AppendProperties DEF Typed, StoresTyped
  <2>3. QED
    BY <1>1, <2>2
<1>2. CASE lane.pc = "resume" /\ ~HasFinalAnswer(lane.session) /\ Begin(lane.session)
  <2>1. lane.session \in Seq(MsgsTo(N)) /\ lane.req \in Prompts
    BY <1>2 DEF Typed, LaneTyped, Lanes
  <2>2. QED
    BY <1>2, <2>1
<1>3. QED
  BY <1>1, <1>2 DEF BeginTurn

LEMMA BeginTurnTyped == ASSUME Typed, BeginTurn PROVE Typed'
BY BeginTurnIs, BeginTyped

LEMMA NewSessionTyped == ASSUME Typed, NewSession PROVE Typed'
<1>0. N \in Nat /\ N' = N
  BY NIsNat, SameTurns DEF Typed, NewSession, history
<1>1. LaneTyped(N)'
  BY <1>0, GotoTyped DEF NewSession, LanePcs, InTurn
<1>2. StoresTyped(N)'
  BY EmptySeq DEF NewSession, StoresTyped
<1>3. QED
  BY <1>0, <1>1, <1>2
     DEF NewSession, laneOnly, queues, history, Typed, QueuesTyped, StartupTyped, CountsTyped

LEMMA CheckpointTyped == ASSUME Typed, CheckpointPreModel PROVE Typed'
<1>0. N \in Nat /\ N' = N
  BY NIsNat, SameTurns DEF Typed, CheckpointPreModel, history
<1>1. lane.turn \in 1..N /\ lane.session \in Seq(MsgsTo(N))
  BY DEF CheckpointPreModel, Typed, LaneTyped, Lanes, InTurn
<1>2. TurnLocal(ChatHistory(lane.session)) \in Seq(MsgsTo(N))
  <2>1. SystemPrompt \in MsgsTo(N)
    BY DEF MsgsTo
  <2>2. QED
    BY <1>1, <2>1, HistoryTyped, TurnLocalTyped
<1>3. StepCheckpoint(lane.turn, TurnLocal(ChatHistory(lane.session))) \in Recs(N)
  BY <1>0, <1>1, <1>2, NewRecs DEF Recs
<1>4. LaneTyped(N)'
  BY <1>0, GotoTyped DEF CheckpointPreModel, LanePcs, InTurn
<1>5. StartupTyped(N)' /\ streak' \in [Reqs -> Nat]
  BY <1>0 DEF CheckpointPreModel, laneOnly, history, Typed, StartupTyped, CountsTyped
<1>6. QED
  BY <1>3, <1>4, <1>5, WriterTyped DEF CheckpointPreModel, laneOnly, history

LEMMA ModelAnswersTyped == ASSUME Typed, ModelAnswers PROVE Typed'
<1>0. N \in Nat /\ N' = N
  BY NIsNat, SameTurns DEF Typed, ModelAnswers, history
<1>1. lane.turn \in 1..N /\ lane.session \in Seq(MsgsTo(N))
  BY DEF ModelAnswers, Typed, LaneTyped, Lanes, InTurn
<1> DEFINE p == Append(TurnLocal(ChatHistory(lane.session)), Answer(lane.turn))
<1>2. p \in Seq(MsgsTo(N))
  <2>1. SystemPrompt \in MsgsTo(N) /\ Answer(lane.turn) \in MsgsTo(N)
    BY <1>1 DEF MsgsTo
  <2>2. TurnLocal(ChatHistory(lane.session)) \in Seq(MsgsTo(N))
    BY <1>1, <2>1, HistoryTyped, TurnLocalTyped
  <2>3. QED
    BY <2>1, <2>2, AppendProperties
<1>3. Write(StepCheckpoint(lane.turn, p))
  BY DEF ModelAnswers
<1> HIDE DEF p
<1>4. StepCheckpoint(lane.turn, p) \in Recs(N)
  BY <1>0, <1>1, <1>2, NewRecs DEF Recs
<1>5. LaneTyped(N)'
  BY <1>0, GotoTyped DEF ModelAnswers, LanePcs, InTurn
<1>6. StartupTyped(N)' /\ streak' \in [Reqs -> Nat]
  BY <1>0 DEF ModelAnswers, laneOnly, history, Typed, StartupTyped, CountsTyped
<1>7. QED
  BY <1>3, <1>4, <1>5, <1>6, WriterTyped DEF ModelAnswers, laneOnly, history

LEMMA ModelFailsTyped == ASSUME Typed, ModelFails PROVE Typed'
<1>0. N \in Nat /\ N' = N
  BY NIsNat, SameTurns DEF Typed, ModelFails, history
<1>1. lane \in Lanes(N) /\ lane' = [lane EXCEPT !.pc = "end", !.outcome = "failed"]
  BY DEF ModelFails, Typed, LaneTyped
<1>2. lane' \in Lanes(N)
  BY <1>1 DEF Lanes, LanePcs
<1>3. lane'.pc = "end" /\ lane'.req = lane.req /\ lane'.resumed = lane.resumed /\ lane'.turn = lane.turn
  BY <1>1 DEF Lanes
<1>4. LaneTyped(N)'
  BY <1>0, <1>2, <1>3 DEF ModelFails, InTurn, Typed, LaneTyped
<1>5. QED
  BY <1>0, <1>4
     DEF ModelFails, stores, laneOnly, queues, history, Typed, StoresTyped, QueuesTyped, StartupTyped, CountsTyped

LEMMA ModelPanicsTyped == ASSUME Typed, ModelPanics PROVE Typed'
<1>0. N \in Nat /\ N' = N
  BY NIsNat, SameTurns DEF Typed, ModelPanics, history
<1>1. LaneTyped(N)' /\ StartupTyped(N)'
  <2>1. CASE lane.resumed
    <3>1. LaneTyped(N)'
      BY <1>0, <2>1, LaneFreed DEF ModelPanics
    <3>2. StartupTyped(N)'
      BY <1>0, <2>1, StartupMoves DEF ModelPanics
    <3>3. QED
      BY <3>1, <3>2
  <2>2. CASE ~lane.resumed
    <3>1. lane \in Lanes(N) /\ lane' = [lane EXCEPT !.pc = "close", !.turn = 0]
      BY <2>2 DEF ModelPanics, Typed, LaneTyped
    <3>2. lane' \in Lanes(N)
      <4>1. 0 \in 0..N
        BY <1>0
      <4>2. QED
        BY <3>1, <4>1 DEF Lanes, LanePcs
    <3>3. lane'.pc = "close" /\ lane'.req = lane.req /\ lane'.resumed = lane.resumed
      BY <3>1 DEF Lanes
    <3>4. LaneTyped(N)'
      BY <1>0, <3>2, <3>3 DEF ModelPanics, InTurn, Typed, LaneTyped
    <3>5. StartupTyped(N)'
      BY <1>0, <2>2 DEF ModelPanics, Typed, StartupTyped
    <3>6. QED
      BY <3>4, <3>5
  <2>3. QED
    BY <2>1, <2>2
<1>2. QED
  BY <1>0, <1>1
     DEF ModelPanics, stores, queues, history, Typed, StoresTyped, QueuesTyped, CountsTyped

LEMMA EndTurnTyped == ASSUME Typed, EndTurn PROVE Typed'
<1>0. N \in Nat /\ N' = N
  BY NIsNat, SameTurns DEF Typed, EndTurn
<1>1. lane.turn \in 1..N /\ lane.outcome \in {"completed", "failed"}
  BY DEF EndTurn, Typed, LaneTyped, Lanes, InTurn
<1>2. TurnEnd(lane.turn, lane.outcome) \in Recs(N)
  BY <1>0, <1>1, NewRecs DEF Recs
<1>3. LaneTyped(N)'
  BY <1>0, GotoTyped DEF EndTurn, LanePcs, InTurn
<1>4. streak' \in [Reqs -> Nat]
  <2>1. streak \in [Reqs -> Nat] /\ streak' = [streak EXCEPT ![lane.req] = 0]
    BY DEF EndTurn, Typed, CountsTyped
  <2>2. QED
    BY <2>1
<1>5. StartupTyped(N)'
  BY <1>0 DEF EndTurn, laneOnly, Typed, StartupTyped
<1>6. QED
  BY <1>2, <1>3, <1>4, <1>5, WriterTyped DEF EndTurn, laneOnly

LEMMA PruneTyped == ASSUME Typed, PruneJournal \/ CompactLedger PROVE Typed'
<1>0. N \in Nat /\ N' = N
  BY NIsNat, SameTurns DEF Typed, PruneJournal, CompactLedger, history
<1>1. journal' \in Seq(Recs(N))
  BY <1>0, PrunedOpens, CompactedTyped DEF PruneJournal, CompactLedger, Typed, StoresTyped
<1>2. LaneTyped(N)'
  <2>1. CASE PruneJournal
    BY <1>0, <2>1, GotoTyped DEF PruneJournal, LanePcs, InTurn
  <2>2. CASE CompactLedger
    BY <1>0, <2>2, GotoTyped DEF CompactLedger, LanePcs, InTurn
  <2>3. QED
    BY <2>1, <2>2
<1>3. UNCHANGED <<disk, cache, laneOnly, history>>
  BY DEF PruneJournal, CompactLedger
<1>4. QED
  BY <1>0, <1>1, <1>2, <1>3
     DEF laneOnly, queues, history, Typed, StoresTyped, QueuesTyped, StartupTyped, CountsTyped

LEMMA PersistTurnTyped == ASSUME Typed, PersistTurn PROVE Typed'
<1>0. N \in Nat /\ N' = N
  BY NIsNat, SameTurns DEF Typed, PersistTurn, history
<1>1. lane.turn \in 1..N /\ lane.session \in Seq(MsgsTo(N))
  BY DEF PersistTurn, Typed, LaneTyped, Lanes, InTurn
<1>2. disk' \in Seq(MsgsTo(N)) /\ cache' \in Seq(MsgsTo(N))
  <2>1. Answer(lane.turn) \in MsgsTo(N)
    BY <1>1 DEF MsgsTo
  <2>2. QED
    BY <1>1, <2>1, AppendProperties DEF PersistTurn
<1>3. LaneTyped(N)'
  <2>1. CASE lane.resumed
    BY <1>0, <2>1, GotoTyped DEF PersistTurn, LanePcs, InTurn
  <2>2. CASE ~lane.resumed
    BY <1>0, <2>2, GotoTyped DEF PersistTurn, LanePcs, InTurn
  <2>3. QED
    BY <2>1, <2>2
<1>4. QED
  BY <1>0, <1>2, <1>3
     DEF PersistTurn, laneOnly, queues, history, Typed, StoresTyped, QueuesTyped, StartupTyped, CountsTyped

LEMMA ReplyTyped ==
    ASSUME Typed, lane.pc # "idle", ReplyWith(lane.req, lane.turn)
    PROVE  replies' \in Seq(ReplyRecs)
<1>0. N \in Nat
  BY NIsNat DEF Typed
<1>1. lane.req \in Reqs /\ lane.turn \in Nat
  BY <1>0 DEF Typed, LaneTyped, Lanes, Reqs
<1>2. QED
  BY <1>1, ReplyAppended DEF ReplyWith

LEMMA PublishReplyTyped == ASSUME Typed, PublishReply PROVE Typed'
<1>0. N \in Nat /\ N' = N
  BY NIsNat, SameTurns DEF Typed, PublishReply
<1>1. replies' \in Seq(ReplyRecs)
  BY ReplyTyped DEF PublishReply
<1>2. LaneTyped(N)'
  BY <1>0, GotoTyped DEF PublishReply, LanePcs, InTurn
<1>3. QED
  BY <1>0, <1>1, <1>2
     DEF PublishReply, stores, laneOnly, queues, Typed, StoresTyped, QueuesTyped, StartupTyped, CountsTyped

LEMMA MarkDoneTyped == ASSUME Typed, MarkDone PROVE Typed'
<1>0. N \in Nat /\ N' = N
  BY NIsNat, SameTurns DEF Typed, MarkDone, history
<1>1. lane.req \in Reqs /\ lane.turn \in 0..N
  BY DEF MarkDone, Typed, LaneTyped, Lanes, Reqs
<1>2. Inbox(lane.req, "done", lane.turn, FALSE) \in Recs(N)
  <2>1. lane.turn \in Outcomes(N) /\ "done" \in InboxStates
    BY <1>1 DEF Outcomes, InboxStates
  <2>2. QED
    BY <1>0, <1>1, <2>1, NewRecs DEF Recs
<1>3. LaneTyped(N)'
  BY <1>0, LaneFreed DEF MarkDone
<1>4. StartupTyped(N)' /\ streak' \in [Reqs -> Nat]
  BY <1>0 DEF MarkDone, laneOnly, history, Typed, StartupTyped, CountsTyped
<1>5. QED
  BY <1>2, <1>3, <1>4, WriterTyped DEF MarkDone, laneOnly, history

LEMMA CloseRequestTyped == ASSUME Typed, CloseRequest PROVE Typed'
<1>0. N \in Nat /\ N' = N
  BY NIsNat, SameTurns DEF Typed, CloseRequest, history
<1>1. lane.req \in Reqs /\ lane.turn \in 0..N
  BY DEF CloseRequest, Typed, LaneTyped, Lanes, Reqs
<1>2. Inbox(lane.req, "done", lane.turn, FALSE) \in Recs(N)
  <2>1. lane.turn \in Outcomes(N) /\ "done" \in InboxStates
    BY <1>1 DEF Outcomes, InboxStates
  <2>2. QED
    BY <1>0, <1>1, <2>1, NewRecs DEF Recs
<1>3. journal' \in Seq(Recs(N))
  <2>1. CASE UNCHANGED journal
    BY <2>1 DEF Typed, StoresTyped
  <2>2. CASE Write(Inbox(lane.req, "done", lane.turn, FALSE))
    BY <1>0, <1>2, <2>2, WriteTyped DEF Write, Typed, StoresTyped
  <2>3. QED
    BY <2>1, <2>2 DEF CloseRequest
<1>4. LaneTyped(N)'
  BY <1>0, GotoTyped DEF CloseRequest, LanePcs, InTurn
<1>5. QED
  BY <1>0, <1>3, <1>4
     DEF CloseRequest, laneOnly, queues, history, Typed, StoresTyped, QueuesTyped, StartupTyped, CountsTyped

LEMMA PublishClosedTyped == ASSUME Typed, PublishClosed PROVE Typed'
<1>0. N \in Nat /\ N' = N
  BY NIsNat, SameTurns DEF Typed, PublishClosed
<1>1. replies' \in Seq(ReplyRecs)
  BY ReplyTyped DEF PublishClosed
<1>2. LaneTyped(N)'
  BY <1>0, LaneFreed DEF PublishClosed
<1>3. StartupTyped(N)'
  <2>1. CASE lane.resumed
    BY <1>0, <2>1, StartupMoves DEF PublishClosed
  <2>2. CASE ~lane.resumed
    BY <1>0, <2>2 DEF PublishClosed, Typed, StartupTyped
  <2>3. QED
    BY <2>1, <2>2
<1>4. QED
  BY <1>0, <1>1, <1>2, <1>3
     DEF PublishClosed, stores, queues, Typed, StoresTyped, QueuesTyped, CountsTyped

LEMMA AbortedTyped == ASSUME Typed, Aborted PROVE Typed'
<1>0. N \in Nat /\ N' = N
  BY NIsNat, SameTurns DEF Typed, Aborted, history
<1>1. journal' \in Seq(Recs(N))
  <2>1. CASE lane.pc = "model"
    <3>1. TurnEnd(lane.turn, "cancelled") \in Recs(N)
      BY <1>0, <2>1, NewRecs DEF Typed, LaneTyped, InTurn, Recs
    <3>2. QED
      BY <1>0, <2>1, <3>1, WriteTyped DEF Aborted, Write, Typed, StoresTyped
  <2>2. CASE lane.pc # "model"
    BY <2>2 DEF Aborted, Typed, StoresTyped
  <2>3. QED
    BY <2>1, <2>2
<1>2. LaneTyped(N)'
  BY <1>0, LaneFreed DEF Aborted
<1>3. QED
  BY <1>0, <1>1, <1>2
     DEF Aborted, laneOnly, queues, history, Typed, StoresTyped, QueuesTyped, StartupTyped, CountsTyped

LEMMA LaneStepTyped == ASSUME Typed, LaneStep PROVE Typed'
BY TakeLockTyped, MarkProcessingTyped, RestoreTurnTyped, SaveRestoredTyped, FindFinalAnswerTyped,
   BeginTurnTyped, NewSessionTyped, CheckpointTyped, ModelAnswersTyped, ModelFailsTyped,
   ModelPanicsTyped, EndTurnTyped, PruneTyped, PersistTurnTyped, PublishReplyTyped,
   MarkDoneTyped, CloseRequestTyped, PublishClosedTyped, AbortedTyped DEF LaneStep

LEMMA NewestFacts ==
    ASSUME NEW S \in SUBSET Int, IsFiniteSet(S), S # {}
    PROVE  Newest(S) \in S /\ \A k \in S : k <= Newest(S)
BY LastFacts DEF Newest, Last1

(* Startup reads turns that were started. *)
LEMMA PlansTyped ==
    ASSUME NEW n \in Nat, NEW j \in Seq(Recs(n))
    PROVE  /\ Interrupted(j) \in SUBSET (1..n) /\ ToAbandon(j) \in SUBSET (1..n)
           /\ Interrupted(j) \subseteq Unfinished(j)
           /\ ToResume(j) \in SUBSET Interrupted(j) /\ ToAbandon(j) \in SUBSET Interrupted(j)
           /\ ToResume(j) # {} => First1(ToResume(j)) \in ToResume(j)
<1>1. Interrupted(j) \subseteq Unfinished(j)
  BY DEF Interrupted
<1>2. Interrupted(j) \in SUBSET (1..n)
  <2>1. Unfinished(j) \subseteq 1..n
    BY TurnsTyped
  <2>2. QED
    BY <1>1, <2>1
<1>3. ToResume(j) \in SUBSET Interrupted(j) /\ ToAbandon(j) \in SUBSET Interrupted(j)
  BY DEF ToResume, ToAbandon
<1>4. ToResume(j) \in SUBSET Int /\ IsFiniteSet(ToResume(j))
  BY <1>2, <1>3, TurnsTyped
<1>5. QED
  BY <1>1, <1>2, <1>3, <1>4, FirstFacts

LEMMA PlanResumesTyped == ASSUME Typed, PlanResumes PROVE Typed'
<1>0. N \in Nat /\ N' = N
  BY NIsNat, SameTurns DEF Typed, PlanResumes, history
<1>1. journal' = journal \o Abandon(ToAbandon(journal))
  BY DEF PlanResumes, Abandon
<1>2. journal' \in Seq(Recs(N))
  BY <1>0, <1>1, PlansTyped, AbandonFacts DEF Typed, StoresTyped
<1>3. StartupTyped(N)'
  <2>1. CASE ToResume(journal) = {}
    BY <1>0, <2>1, StartupMoves DEF PlanResumes
  <2>2. CASE ToResume(journal) # {}
    <3> DEFINE t == First1(ToResume(journal))
               start == StartOf(journal, t)
    <3>1. startup' = [startup EXCEPT !.pc = "resume", !.turn = t, !.req = start.req,
                                     !.attempt = start.attempt + 1]
      BY <2>2 DEF PlanResumes
    <3>2. t \in 1..N /\ t \in TurnsWith(journal, "turn_start")
      <4>1. t \in Interrupted(journal)
        BY <1>0, <2>2, PlansTyped DEF Typed, StoresTyped
      <4>2. t \in Unfinished(journal) /\ t \in 1..N
        BY <1>0, <4>1, PlansTyped DEF Typed, StoresTyped
      <4>3. QED
        BY <1>0, <4>2, TurnsTyped DEF Typed, StoresTyped
    <3>3. start \in StartRecs(N)
      BY <1>0, <3>2, TurnsTyped DEF Typed, StoresTyped
    <3>4. start.req \in Prompts /\ start.attempt + 1 \in Nat /\ t \in 0..N
      BY <3>2, <3>3 DEF StartRecs
    <3> HIDE DEF t, start
    <3>5. startup \in Startups(N) /\ start.req \in Reqs
      BY <3>4 DEF Typed, StartupTyped, Reqs, Dispatched
    <3>6. startup' \in Startups(N)
      BY <3>1, <3>4, <3>5 DEF Startups, StartupPcs
    <3>7. startup'.pc = "resume" /\ startup'.req = start.req
      BY <3>1, <3>5 DEF Startups
    <3>8. QED
      BY <1>0, <3>4, <3>6, <3>7 DEF StartupTyped
  <2>3. QED
    BY <2>1, <2>2
<1>4. QED
  BY <1>0, <1>2, <1>3
     DEF PlanResumes, queues, history, Typed, StoresTyped, QueuesTyped, LaneTyped, CountsTyped

LEMMA PlanStaleTyped == ASSUME Typed, PlanStale PROVE Typed'
<1>0. N \in Nat /\ N' = N
  BY NIsNat, SameTurns DEF Typed, PlanStale, history
<1> DEFINE S == Interrupted(journal) \ {Newest(Interrupted(journal))}
<1>1. journal' = journal \o Abandon(S)
  BY DEF PlanStale, Abandon
<1>2. S \in SUBSET (1..N)
  <2>1. Interrupted(journal) \in SUBSET (1..N)
    BY <1>0, PlansTyped DEF Typed, StoresTyped
  <2>2. QED
    BY <2>1
<1> HIDE DEF S
<1>3. journal' \in Seq(Recs(N))
  BY <1>0, <1>1, <1>2, AbandonFacts DEF Typed, StoresTyped
<1>4. StartupTyped(N)'
  BY <1>0, StartupMoves DEF PlanStale
<1>5. QED
  BY <1>0, <1>3, <1>4
     DEF PlanStale, queues, history, Typed, StoresTyped, QueuesTyped, LaneTyped, CountsTyped

LEMMA StartResumeTyped == ASSUME Typed, StartResume PROVE Typed'
<1>0. N \in Nat /\ N' = N
  BY NIsNat, SameTurns DEF Typed, StartResume, history
<1>1. startup \in Startups(N) /\ startup.req \in Prompts
  BY DEF StartResume, Typed, StartupTyped
<1>2. lane' = [pc |-> "restore", req |-> startup.req, resumed |-> TRUE, attempt |-> startup.attempt,
               session |-> <<>>, turn |-> 0, outcome |-> "completed", aborted |-> FALSE]
  BY DEF StartResume, Idle
<1>3. startup.attempt \in Nat /\ startup.req \in Reqs /\ 0 \in 0..N
  BY <1>0, <1>1 DEF Startups, Reqs, Dispatched
<1>4. lane' \in Lanes(N)
  BY <1>2, <1>3, EmptySeq DEF Lanes, LanePcs
<1>5. LaneTyped(N)'
  BY <1>0, <1>1, <1>2, <1>4 DEF LaneTyped, InTurn, Dispatched
<1>6. StartupTyped(N)'
  <2>1. startup' = [startup EXCEPT !.pc = "resuming"]
    BY DEF StartResume
  <2>2. startup' \in Startups(N) /\ startup'.req = startup.req
    BY <1>1, <2>1 DEF Startups, StartupPcs
  <2>3. QED
    BY <1>0, <1>1, <2>2 DEF StartupTyped
<1>7. QED
  BY <1>0, <1>5, <1>6
     DEF StartResume, stores, queues, history, Typed, StoresTyped, QueuesTyped, CountsTyped

LEMMA PlanRedriveTyped == ASSUME Typed, PlanRedrive \/ RedriveFinished PROVE Typed'
<1>0. N \in Nat /\ N' = N
  BY NIsNat, SameTurns DEF Typed, PlanRedrive, RedriveFinished, history
<1>1. StartupTyped(N)'
  <2>1. CASE PlanRedrive
    <3>1. startup' = [pc |-> "redriving", turn |-> 0, req |-> NoReq, attempt |-> 0,
                      todo |-> RedrivePlan(journal)]
      BY <2>1 DEF PlanRedrive, NoTurn
    <3>2. RedrivePlan(journal) \in Seq(Steps(N))
      BY <1>0, RedrivePlanTyped DEF Typed, StoresTyped
    <3>3. startup' \in Startups(N) /\ startup'.pc = "redriving"
      BY <1>0, <3>1, <3>2 DEF Startups, StartupPcs
    <3>4. QED
      BY <1>0, <3>3 DEF StartupTyped
  <2>2. CASE RedriveFinished
    <3>1. startup' \in Startups(N) /\ startup'.pc = "done"
      BY <1>0, <2>2, EmptySeq DEF RedriveFinished, NoTurn, Startups, StartupPcs
    <3>2. QED
      BY <1>0, <3>1 DEF StartupTyped
  <2>3. QED
    BY <2>1, <2>2
<1>2. UNCHANGED <<stores, queues, lane, delivered, crashes, history>>
  BY DEF PlanRedrive, RedriveFinished
<1>3. QED
  BY <1>0, <1>1, <1>2
     DEF stores, queues, history, Typed, StoresTyped, QueuesTyped, LaneTyped, CountsTyped

LEMMA RedriveEntryTyped == ASSUME Typed, RedriveEntry PROVE Typed'
<1>0. N \in Nat /\ N' = N
  BY NIsNat, SameTurns DEF Typed, RedriveEntry, history
<1>1. startup \in Startups(N) /\ startup.todo \in Seq(Steps(N)) /\ startup.todo # <<>>
  BY DEF RedriveEntry, Typed, StartupTyped, Startups
<1> DEFINE step == Head(startup.todo)
<1>2. step \in Steps(N) /\ Tail(startup.todo) \in Seq(Steps(N))
  BY <1>1, TailTyped
<1>3. step.entry.req \in Reqs
  BY <1>2 DEF Steps, Entries
<1>4. /\ (step.action = "close" /\ Write(Inbox(step.entry.req, "done", NoOutcome, FALSE))) \/ UNCHANGED journal
      /\ bus' = Append(bus, step.entry.req) \/ UNCHANGED bus
      /\ startup' = [startup EXCEPT !.todo = Tail(startup.todo)]
  BY DEF RedriveEntry
<1> HIDE DEF step
<1>5. journal' \in Seq(Recs(N))
  <2>1. Inbox(step.entry.req, "done", NoOutcome, FALSE) \in Recs(N)
    BY <1>0, <1>3, NewRecs DEF InboxStates, Outcomes, Recs
  <2>2. QED
    BY <1>0, <1>4, <2>1, WriteTyped DEF Write, Typed, StoresTyped
<1>6. bus' \in Seq(Reqs)
  BY <1>3, <1>4, AppendProperties DEF Typed, QueuesTyped
<1>7. StartupTyped(N)'
  <2>1. startup' \in Startups(N) /\ startup'.pc = startup.pc /\ startup'.req = startup.req
    BY <1>1, <1>2, <1>4 DEF Startups
  <2>2. QED
    BY <1>0, <2>1 DEF Typed, StartupTyped
<1>8. QED
  BY <1>0, <1>5, <1>6, <1>7
     DEF RedriveEntry, history, Typed, StoresTyped, QueuesTyped, LaneTyped, CountsTyped

LEMMA TypedStep == Typed /\ [Next]_vars => Typed'
<1> SUFFICES ASSUME Typed, [Next]_vars PROVE Typed'
  OBVIOUS
<1>1. ASSUME NEW r \in Reqs, PublishNew(r) \/ PublishDuplicate(r) PROVE Typed'
  BY <1>1, PublishTyped
<1>2. CASE Consume
  BY <1>2, ConsumeTyped
<1>3. CASE LaneStep
  BY <1>3, LaneStepTyped
<1>4. CASE StartupStep
  BY <1>4, PlanResumesTyped, PlanStaleTyped, StartResumeTyped, PlanRedriveTyped, RedriveEntryTyped
     DEF StartupStep
<1>5. CASE Crash
  BY <1>5, CrashTyped
<1>6. CASE UNCHANGED vars
  BY <1>6 DEF vars, stores, queues, history, N, Typed, StoresTyped, QueuesTyped, LaneTyped,
              StartupTyped, CountsTyped
<1>7. QED
  BY <1>1, <1>2, <1>3, <1>4, <1>5, <1>6 DEF Next, Publish, SystemStep

(* Types: what every variable of a session holds, whatever the number of
   requests, deliveries and kills. *)
THEOREM TypesHold == Spec => []Typed
<1>1. Init => Typed
  BY InitTyped
<1>2. Typed /\ [Next]_vars => Typed'
  BY TypedStep
<1>3. QED
  BY <1>1, <1>2, PTL DEF Spec

(* The type invariant that the runs check: only known messages in the saved
   transcript, its copies and the queues, turn numbers that were given out,
   counters within their bounds. *)
THEOREM TypeCorrect == Spec => []TypeOK
<1>1. Typed => TypeOK
  <2> SUFFICES ASSUME Typed PROVE TypeOK
    OBVIOUS
  <2>1. N \in Nat /\ Messages = MsgsTo(N)
    BY NIsNat DEF Typed, Messages, MsgsTo, N
  <2>2. \A i \in DOMAIN journal :
           journal[i].kind \in {"inbox", "turn_start", "step_checkpoint", "turn_end", "turn_restored"}
    <3>1. \A i \in DOMAIN journal : journal[i] \in Recs(N)
      BY SeqElements DEF Typed, StoresTyped
    <3>2. \A rec \in Recs(N) : rec.kind \in {"inbox", "turn_start", "step_checkpoint", "turn_end", "turn_restored"}
      BY DEF Recs, InboxRecs, StartRecs, StepRecs, EndRecs, RestoredRecs
    <3>3. QED
      BY <3>1, <3>2
  <2>3. \A s \in {disk, cache, lane.session} : ToSet(s) \subseteq Messages
    <3>1. \A s \in {disk, cache, lane.session} : s \in Seq(MsgsTo(N))
      BY DEF Typed, StoresTyped, LaneTyped, Lanes
    <3>2. QED
      BY <2>1, <3>1, ToSetIs
  <2>4. ToSet(bus) \subseteq Reqs /\ ToSet(waiting) \subseteq Dispatched
    BY ToSetIs DEF Typed, QueuesTyped
  <2>5. /\ lane.pc \in LanePcs /\ lane.req \in Reqs \cup {NoReq}
        /\ lane.turn \in 0..Len(turns) /\ lane.attempt \in Nat
    BY DEF Typed, LaneTyped, Lanes, N
  <2>6. startup.pc \in StartupPcs /\ startup.turn \in 0..Len(turns)
    BY DEF Typed, StartupTyped, Startups, N
  <2>7. QED
    BY <2>2, <2>3, <2>4, <2>5, <2>6 DEF TypeOK, Typed, CountsTyped
<1>2. QED
  BY <1>1, TypesHold, PTL

--------------------------------------------------------------------------------
(* What a step does to the journal.  All but three actions open no turn and
   write no record of what a turn has said. *)

Kept(a, b) ==
    /\ a.kind = b.kind /\ a.turn = b.turn
    /\ a.kind = "turn_start" => a.user = b.user
    /\ a.kind = "step_checkpoint" => a.payload = b.payload
Tells(a) == a.kind \in {"turn_start", "step_checkpoint"}
QuietJournal ==
    /\ ToRestore(journal') \subseteq ToRestore(journal)
    /\ \A a \in ToSet(journal') : Tells(a) => \E b \in ToSet(journal) : Kept(a, b)

LEMMA KeptItself == \A a : Kept(a, a)
BY DEF Kept

LEMMA QuietSame == ASSUME UNCHANGED journal PROVE QuietJournal
BY KeptItself DEF QuietJournal

LEMMA QuietWrite ==
    ASSUME Typed, NEW n \in Nat, NEW rec \in Recs(n), journal \in Seq(Recs(n)), Write(rec), ~Tells(rec)
    PROVE  QuietJournal
<1>1. ToSet(journal') = ToSet(journal) \cup {rec}
  BY AppendFacts DEF Write
<1>2. ToRestore(journal') \subseteq ToRestore(journal)
  BY AppendOpens DEF Write, Tells
<1>3. QED
  BY <1>1, <1>2, KeptItself DEF QuietJournal

LEMMA QuietConcat ==
    ASSUME NEW n \in Nat, NEW e \in Seq(Recs(n)), journal \in Seq(Recs(n)), journal' = journal \o e,
           \A i \in DOMAIN e : ~Tells(e[i])
    PROVE  QuietJournal
<1>1. ToSet(journal') = ToSet(journal) \cup ToSet(e)
  BY ConcatFacts
<1>2. \A a \in ToSet(e) : ~Tells(a)
  BY DEF ToSet
<1>3. ToRestore(journal') \subseteq ToRestore(journal)
  <2>1. \A i \in DOMAIN e : e[i].kind # "turn_start"
    BY DEF Tells
  <2>2. QED
    BY <2>1, ConcatOpens
<1>4. QED
  BY <1>1, <1>2, <1>3, KeptItself DEF QuietJournal

LEMMA QuietKill ==
    ASSUME NEW n \in Nat, journal \in Seq(Recs(n)), journal' = Killed(journal)
    PROVE  QuietJournal
<1>1. /\ ToRestore(journal') = ToRestore(journal) /\ DOMAIN journal' = DOMAIN journal
      /\ \A i \in DOMAIN journal : journal'[i] = [journal[i] EXCEPT !.live = FALSE] /\ journal[i] \in Recs(n)
  BY KilledTyped
<1>2. \A i \in DOMAIN journal : Tells(journal'[i]) => Kept(journal'[i], journal[i])
  <2> TAKE i \in DOMAIN journal
  <2> DEFINE a == journal[i]
             b == [a EXCEPT !.live = FALSE]
  <2>1. /\ a \in Recs(n) /\ journal'[i] = b
    BY <1>1
  <2> HIDE DEF a
  <2>2. /\ b.kind = a.kind
        /\ a.kind # "inbox" => b.turn = a.turn
        /\ a.kind = "turn_start" => b.user = a.user
        /\ a.kind = "step_checkpoint" => b.payload = a.payload
    BY <2>1, KilledRec
  <2> HIDE DEF b
  <2>3. Tells(b) => Kept(b, a)
    BY <2>2 DEF Tells, Kept
  <2>4. QED
    BY <2>1, <2>3 DEF a
<1>3. QED
  BY <1>1, <1>2 DEF QuietJournal, ToSet

LEMMA QuietPrune ==
    ASSUME NEW A, journal \in Seq(A), journal' = Pruned(journal)
    PROVE  QuietJournal
<1>1. ToRestore(journal') \subseteq ToRestore(journal)
  BY PrunedOpens
<1>2. PrunedAt(journal) \subseteq DOMAIN journal
  BY DEF PrunedAt
<1>3. ToSet(journal') = {journal[i] : i \in PrunedAt(journal)}
  BY <1>2, PrunedIs, ElementsOfPart
<1>4. ToSet(journal') \subseteq ToSet(journal)
  BY <1>2, <1>3 DEF ToSet
<1>5. QED
  BY <1>1, <1>4, KeptItself DEF QuietJournal

LEMMA QuietCompact ==
    ASSUME NEW A, journal \in Seq(A), journal' = CompactedLedger(journal)
    PROVE  QuietJournal
<1>1. ToRestore(journal') \subseteq ToRestore(journal)
  BY CompactedOpens
<1>2. ToSet(journal') \subseteq {journal[i] : i \in OthersAt(journal)} \cup {EntryRecord(e) : e \in EntriesOf(journal)}
  BY CompactedRecords
<1>3. \A e : ~Tells(EntryRecord(e))
  BY EntryRecordIs DEF Tells
<1>4. \A a \in ToSet(journal') : Tells(a) => a \in ToSet(journal)
  BY <1>2, <1>3 DEF OthersAt, ToSet
<1>5. QED
  BY <1>1, <1>4, KeptItself DEF QuietJournal

LEMMA QuietEmpty == ASSUME journal' = <<>> PROVE QuietJournal
<1>1. ToSet(<<>>) = {}
  BY DEF ToSet
<1>2. ToRestore(<<>>) = {}
  BY DEF ToRestore, TurnsWith, Records
<1>3. QED
  BY <1>1, <1>2 DEF QuietJournal

LEMMA QuietSteps ==
    ASSUME Typed, [Next]_vars, ~BeginTurn, ~CheckpointPreModel, ~ModelAnswers
    PROVE  QuietJournal
<1>0. N \in Nat /\ journal \in Seq(Recs(N))
  BY NIsNat DEF Typed, StoresTyped
<1>1. \A r, s, o, m : ~Tells(Inbox(r, s, o, m))
  BY DEF Tells, Inbox
<1>2. \A t, o : ~Tells(TurnEnd(t, o)) /\ ~Tells(TurnRestored(t))
  BY DEF Tells, TurnEnd, TurnRestored
<1>3. \A r \in Reqs, s \in InboxStates, o \in Outcomes(N), m \in BOOLEAN :
         Write(Inbox(r, s, o, m)) => QuietJournal
  <2> TAKE r \in Reqs, s \in InboxStates, o \in Outcomes(N), m \in BOOLEAN
  <2>1. Inbox(r, s, o, m) \in Recs(N)
    BY <1>0, NewRecs DEF Recs
  <2>2. QED
    BY <1>0, <1>1, <2>1, QuietWrite
<1>4. \A t \in 1..N, o \in {"completed", "failed", "cancelled", "abandoned"} :
         Write(TurnEnd(t, o)) => QuietJournal
  <2> TAKE t \in 1..N, o \in {"completed", "failed", "cancelled", "abandoned"}
  <2>1. TurnEnd(t, o) \in Recs(N)
    BY <1>0, NewRecs DEF Recs
  <2>2. QED
    BY <1>0, <1>2, <2>1, QuietWrite
<1>5. lane.pc # "idle" => lane.req \in Reqs
  BY DEF Typed, LaneTyped, Reqs
<1>6. /\ lane.turn \in 0..N /\ lane.turn \in Outcomes(N) /\ NoOutcome \in Outcomes(N)
      /\ {"queued", "processing", "done"} \subseteq InboxStates /\ TRUE \in BOOLEAN /\ FALSE \in BOOLEAN
  BY DEF Typed, LaneTyped, Lanes, Outcomes, InboxStates
<1>7. ASSUME NEW r \in Reqs, PublishNew(r) \/ PublishDuplicate(r) PROVE QuietJournal
  BY <1>3, <1>6, <1>7, QuietSame DEF PublishNew, PublishDuplicate
<1>8. CASE Consume
  <2>1. CASE ConsumeStop
    <3>1. journal' = journal \o Closing(Pending(journal))
      BY <2>1 DEF ConsumeStop, PendingClosed, Closing
    <3>2. Closing(Pending(journal)) \in Seq(InboxRecs(N))
      BY <1>0, ClosingFacts
    <3>3. Closing(Pending(journal)) \in Seq(Recs(N))
      BY <3>2, SeqMonotone DEF Recs
    <3>4. \A i \in DOMAIN Closing(Pending(journal)) : ~Tells(Closing(Pending(journal))[i])
      BY <1>1 DEF Closing
    <3>5. QED
      BY <1>0, <3>1, <3>3, <3>4, QuietConcat
  <2>2. QED
    BY <1>8, <2>1, QuietSame DEF Consume, ConsumePrompt, ConsumeStatus, stores
<1>9. CASE LaneStep
  <2>1. CASE MarkProcessing
    BY <1>3, <1>5, <1>6, <2>1 DEF MarkProcessing
  <2>2. CASE RestoreTurn
    <3> DEFINE t == First1(ToRestore(journal))
    <3>1. /\ ToRestore(journal) \in SUBSET (1..N)
          /\ \A S \in SUBSET (1..N) : S \in SUBSET Int /\ IsFiniteSet(S)
      BY <1>0, TurnsTyped
    <3>2. t \in 1..N
      BY <2>2, <3>1, FirstFacts DEF RestoreTurn
    <3>3. TurnRestored(t) \in Recs(N)
      BY <1>0, <3>2, NewRecs DEF Recs
    <3>4. Write(TurnRestored(t))
      BY <2>2 DEF RestoreTurn
    <3>5. QED
      BY <1>0, <1>2, <3>3, <3>4, QuietWrite
  <2>3. CASE EndTurn
    <3>1. lane.turn \in 1..N /\ lane.outcome \in {"completed", "failed", "cancelled", "abandoned"}
      BY <2>3 DEF EndTurn, Typed, LaneTyped, Lanes, InTurn
    <3>2. QED
      BY <1>4, <2>3, <3>1 DEF EndTurn
  <2>4. CASE PruneJournal
    BY <1>0, <2>4, QuietPrune DEF PruneJournal
  <2>5. CASE CompactLedger
    BY <1>0, <2>5, QuietCompact DEF CompactLedger
  <2>6. CASE NewSession
    BY <2>6, QuietEmpty DEF NewSession
  <2>7. CASE MarkDone
    BY <1>3, <1>5, <1>6, <2>7 DEF MarkDone
  <2>8. CASE CloseRequest
    BY <1>3, <1>5, <1>6, <2>8, QuietSame DEF CloseRequest
  <2>9. CASE Aborted
    <3>1. lane.pc = "model" => lane.turn \in 1..N
      BY DEF Typed, LaneTyped, InTurn
    <3>2. QED
      BY <1>4, <2>9, <3>1, QuietSame DEF Aborted
  <2>10. CASE TakeLock \/ SaveRestored \/ FindFinalAnswer \/ ModelFails \/ ModelPanics \/ PersistTurn
              \/ PublishReply \/ PublishClosed
    BY <2>10, QuietSame
       DEF TakeLock, SaveRestored, FindFinalAnswer, ModelFails, ModelPanics, PersistTurn,
           PublishReply, PublishClosed, stores
  <2>11. QED
    BY <1>9, <2>1, <2>2, <2>3, <2>4, <2>5, <2>6, <2>7, <2>8, <2>9, <2>10 DEF LaneStep
<1>10. CASE StartupStep
  <2>1. ASSUME NEW S \in SUBSET (1..N), journal' = journal \o Abandon(S) PROVE QuietJournal
    <3>1. Abandon(S) \in Seq(EndRecs(N))
      BY <1>0, AbandonFacts
    <3>2. Abandon(S) \in Seq(Recs(N))
      BY <3>1, SeqMonotone DEF Recs
    <3>3. \A i \in DOMAIN Abandon(S) : ~Tells(Abandon(S)[i])
      BY <1>2 DEF Abandon
    <3>4. QED
      BY <1>0, <2>1, <3>2, <3>3, QuietConcat
  <2>2. Interrupted(journal) \in SUBSET (1..N) /\ ToAbandon(journal) \in SUBSET (1..N)
    BY <1>0, PlansTyped
  <2>3. CASE PlanResumes
    <3>1. journal' = journal \o Abandon(ToAbandon(journal))
      BY <2>3 DEF PlanResumes, Abandon
    <3>2. QED
      BY <2>1, <2>2, <3>1
  <2>4. CASE PlanStale
    <3>1. journal' = journal \o Abandon(Interrupted(journal) \ {Newest(Interrupted(journal))})
      BY <2>4 DEF PlanStale, Abandon
    <3>2. Interrupted(journal) \ {Newest(Interrupted(journal))} \in SUBSET (1..N)
      BY <2>2
    <3>3. QED
      BY <2>1, <3>1, <3>2
  <2>5. CASE RedriveEntry
    <3>1. Head(startup.todo) \in Steps(N)
      <4>1. startup.todo \in Seq(Steps(N)) /\ startup.todo # <<>>
        BY <2>5 DEF RedriveEntry, Typed, StartupTyped, Startups
      <4>2. QED
        BY <4>1, TailTyped
    <3>2. Head(startup.todo).entry.req \in Reqs
      BY <3>1 DEF Steps, Entries
    <3>3. QED
      BY <1>3, <1>6, <2>5, <3>2, QuietSame DEF RedriveEntry
  <2>6. CASE StartResume \/ PlanRedrive \/ RedriveFinished
    BY <2>6, QuietSame DEF StartResume, PlanRedrive, RedriveFinished, stores
  <2>7. QED
    BY <1>10, <2>3, <2>4, <2>5, <2>6 DEF StartupStep
<1>11. CASE Crash
  <2>1. journal' = Killed(journal)
    BY <1>11 DEF Crash, Killed
  <2>2. QED
    BY <1>0, <2>1, QuietKill
<1>12. CASE UNCHANGED vars
  BY <1>12, QuietSame DEF vars, stores
<1>13. QED
  BY <1>7, <1>8, <1>9, <1>10, <1>11, <1>12 DEF Next, Publish, SystemStep

(* What a step of another task than the lane does to the lane and to the
   transcript: at most a command turn is added to it. *)
SameLane ==
    /\ lane'.pc = lane.pc /\ lane'.req = lane.req /\ lane'.resumed = lane.resumed
    /\ lane'.session = lane.session /\ lane'.turn = lane.turn
SameAnswers ==
    \/ UNCHANGED <<disk, cache>>
    \/ /\ lane.pc # "restoring"
       /\ \E r \in Reqs : cache' = Append(cache, Command(r))
       /\ disk' = cache'

LEMMA OtherSteps ==
    ASSUME Typed, [Next]_vars, ~LaneStep, ~Crash, ~StartResume
    PROVE  SameLane /\ SameAnswers
<1>1. CASE UNCHANGED lane /\ UNCHANGED <<disk, cache>>
  BY <1>1 DEF SameLane, SameAnswers
<1>2. CASE ConsumeStatus \/ ConsumeStop
  <2>1. Head(bus) \in Reqs
    BY <1>2, TailTyped DEF ConsumeStatus, ConsumeStop, Typed, QueuesTyped
  <2>2. SameAnswers
    BY <1>2, <2>1 DEF ConsumeStatus, ConsumeStop, PersistCommand, SameAnswers
  <2>3. CASE ConsumeStatus
    BY <2>2, <2>3 DEF ConsumeStatus, SameLane
  <2>4. CASE ConsumeStop
    <3>1. lane \in Lanes(N) /\ lane' = [lane EXCEPT !.aborted = Abortable]
      BY <2>4 DEF ConsumeStop, Typed, LaneTyped
    <3>2. SameLane
      BY <3>1 DEF Lanes, SameLane
    <3>3. QED
      BY <2>2, <3>2
  <2>5. QED
    BY <1>2, <2>3, <2>4
<1>3. CASE \E r \in Reqs : PublishNew(r) \/ PublishDuplicate(r)
  BY <1>1, <1>3 DEF PublishNew, PublishDuplicate, Deliver
<1>4. CASE ConsumePrompt
  BY <1>1, <1>4 DEF ConsumePrompt, stores
<1>5. CASE PlanResumes \/ PlanStale \/ PlanRedrive \/ RedriveEntry \/ RedriveFinished
  BY <1>1, <1>5 DEF PlanResumes, PlanStale, PlanRedrive, RedriveEntry, RedriveFinished, stores
<1>6. CASE UNCHANGED vars
  BY <1>1, <1>6 DEF vars, stores
<1>7. QED
  BY <1>2, <1>3, <1>4, <1>5, <1>6 DEF Next, Publish, SystemStep, Consume, StartupStep

(* What a step of the lane does to the lane's own record. *)
LEMMA GotoFields ==
    ASSUME Typed, NEW p, Goto(p)
    PROVE  /\ lane'.pc = p /\ lane'.req = lane.req /\ lane'.resumed = lane.resumed
           /\ lane'.session = lane.session /\ lane'.turn = lane.turn
BY DEF Goto, Typed, LaneTyped, Lanes

LEMMA LaneFields ==
    ASSUME Typed
    PROVE  /\ MarkProcessing => lane'.pc = "restore"
           /\ RestoreTurn => lane'.pc = "restoring"
           /\ SaveRestored => /\ lane'.pc \in {"begin", "resume"} /\ lane'.session = cache
           /\ FindFinalAnswer => lane'.pc = "close"
           /\ \A s : Begin(s) => lane'.pc = "pre_model" /\ lane'.turn = N + 1 /\ lane'.session = s
           /\ CheckpointPreModel => /\ lane'.pc = "model" /\ lane'.turn = lane.turn
                                    /\ lane'.session = lane.session
           /\ ModelAnswers \/ ModelFails => /\ lane'.pc = "end" /\ lane'.turn = lane.turn
                                            /\ lane'.session = lane.session
           /\ ModelPanics => lane'.pc \in {"idle", "close"}
           /\ EndTurn => /\ lane'.pc = "prune" /\ lane'.turn = lane.turn /\ lane'.session = lane.session
           /\ PruneJournal => /\ lane'.pc = "compact" /\ lane'.turn = lane.turn
                              /\ lane'.session = lane.session
           /\ CompactLedger => /\ lane'.pc = "persist" /\ lane'.turn = lane.turn
                               /\ lane'.session = lane.session
           /\ PersistTurn => lane'.pc \in {"close", "reply"}
           /\ NewSession => lane'.pc = "reply"
           /\ TakeLock => lane'.pc = "locked"
           /\ PublishReply => lane'.pc = "mark_done"
           /\ CloseRequest => lane'.pc = "publish"
           /\ MarkDone \/ PublishClosed \/ Aborted \/ Crash => lane'.pc = "idle"
           /\ StartResume => lane'.pc = "restore"
<1>1. lane \in Lanes(N)
  BY DEF Typed, LaneTyped
<1>2. SaveRestored => lane'.pc \in {"begin", "resume"} /\ lane'.session = cache
  BY <1>1 DEF SaveRestored, Lanes
<1>3. FindFinalAnswer => lane'.pc = "close"
  BY <1>1 DEF FindFinalAnswer, Lanes
<1>4. \A s : Begin(s) => lane'.pc = "pre_model" /\ lane'.turn = N + 1 /\ lane'.session = s
  BY <1>1 DEF Begin, Lanes, N
<1>5. ModelFails => /\ lane'.pc = "end" /\ lane'.turn = lane.turn /\ lane'.session = lane.session
  BY <1>1 DEF ModelFails, Lanes
<1>6. ModelPanics => lane'.pc \in {"idle", "close"}
  BY <1>1 DEF ModelPanics, Lanes, Idle
<1>7. /\ MarkDone \/ PublishClosed \/ Aborted \/ Crash => lane'.pc = "idle"
      /\ TakeLock => lane'.pc = "locked"
      /\ StartResume => lane'.pc = "restore"
  <2>1. Idle.pc = "idle" /\ \A r : [Idle EXCEPT !.pc = "locked", !.req = r].pc = "locked"
    BY DEF Idle
  <2>2. MarkDone \/ PublishClosed \/ Aborted \/ Crash => lane'.pc = "idle"
    BY <2>1 DEF MarkDone, PublishClosed, Aborted, Crash
  <2>3. TakeLock => lane'.pc = "locked"
    BY <2>1 DEF TakeLock
  <2>4. StartResume => lane'.pc = "restore"
    BY DEF StartResume, Idle
  <2>5. QED
    BY <2>2, <2>3, <2>4
<1>8. /\ MarkProcessing => lane'.pc = "restore"
      /\ RestoreTurn => lane'.pc = "restoring"
      /\ PersistTurn => lane'.pc \in {"close", "reply"}
      /\ NewSession => lane'.pc = "reply"
      /\ PublishReply => lane'.pc = "mark_done"
      /\ CloseRequest => lane'.pc = "publish"
  BY GotoFields DEF MarkProcessing, RestoreTurn, PersistTurn, NewSession, PublishReply, CloseRequest
<1>9. /\ CheckpointPreModel => /\ lane'.pc = "model" /\ lane'.turn = lane.turn
                               /\ lane'.session = lane.session
      /\ ModelAnswers => /\ lane'.pc = "end" /\ lane'.turn = lane.turn /\ lane'.session = lane.session
      /\ EndTurn => /\ lane'.pc = "prune" /\ lane'.turn = lane.turn /\ lane'.session = lane.session
      /\ PruneJournal => /\ lane'.pc = "compact" /\ lane'.turn = lane.turn
                         /\ lane'.session = lane.session
      /\ CompactLedger => /\ lane'.pc = "persist" /\ lane'.turn = lane.turn
                          /\ lane'.session = lane.session
  BY GotoFields DEF CheckpointPreModel, ModelAnswers, EndTurn, PruneJournal, CompactLedger
<1>10. QED
  BY <1>2, <1>3, <1>4, <1>5, <1>6, <1>7, <1>8, <1>9

--------------------------------------------------------------------------------
(* Which turns are open: one at most, none from the merge of the open turns to
   the start of the next one, and only its own while a turn runs. *)

OpenTurns ==
    /\ \A t, u \in ToRestore(journal) : t = u
    /\ lane.pc \in {"restoring", "begin", "resume", "prune", "compact", "persist"}
          => ToRestore(journal) = {}
    /\ lane.pc \in {"pre_model", "model", "end"} => ToRestore(journal) \subseteq {lane.turn}

LEMMA MergeSettles ==
    ASSUME Typed, OpenTurns, RestoreTurn
    PROVE  /\ First1(ToRestore(journal)) \in ToRestore(journal) /\ First1(ToRestore(journal)) \in 1..N
           /\ ToRestore(journal') = {}
<1> DEFINE t == First1(ToRestore(journal))
<1>0. N \in Nat /\ journal \in Seq(Recs(N))
  BY NIsNat DEF Typed, StoresTyped
<1>1. /\ ToRestore(journal) \in SUBSET (1..N)
      /\ \A S \in SUBSET (1..N) : S \in SUBSET Int /\ IsFiniteSet(S)
  BY <1>0, TurnsTyped
<1>2. t \in ToRestore(journal) /\ t \in 1..N
  BY <1>1, FirstFacts DEF RestoreTurn
<1>3. journal' = Append(journal, TurnRestored(t))
  BY DEF RestoreTurn, Write
<1> HIDE DEF t
<1>4. TurnRestored(t) \in Recs(N)
  BY <1>0, <1>2, NewRecs DEF Recs
<1>5. TurnRestored(t).kind = "turn_restored" /\ TurnRestored(t).turn = t
  BY DEF TurnRestored
<1>6. ToRestore(journal') \subseteq ToRestore(journal) /\ t \notin ToRestore(journal')
  BY <1>0, <1>3, <1>4, <1>5, AppendOpens DEF Settles
<1>7. ToRestore(journal') = {}
  BY <1>2, <1>6 DEF OpenTurns
<1>8. QED
  BY <1>2, <1>7 DEF t

LEMMA EndSettles ==
    ASSUME Typed, OpenTurns, EndTurn
    PROVE  ToRestore(journal') = {}
<1>0. N \in Nat /\ journal \in Seq(Recs(N))
  BY NIsNat DEF Typed, StoresTyped
<1>1. lane.turn \in 1..N /\ lane.outcome \in {"completed", "failed"} /\ lane.pc = "end"
  BY DEF EndTurn, Typed, LaneTyped, Lanes, InTurn
<1> DEFINE rec == TurnEnd(lane.turn, lane.outcome)
<1>2. rec \in Recs(N) /\ rec.kind = "turn_end" /\ rec.turn = lane.turn /\ rec.outcome = lane.outcome
  <2>1. rec \in Recs(N)
    BY <1>0, <1>1, NewRecs DEF Recs
  <2>2. QED
    BY <2>1 DEF TurnEnd
<1>3. journal' = Append(journal, rec)
  BY DEF EndTurn, Write
<1> HIDE DEF rec
<1>4. ToRestore(journal') \subseteq ToRestore(journal) /\ lane.turn \notin ToRestore(journal')
  BY <1>0, <1>1, <1>2, <1>3, AppendOpens DEF Settles
<1>5. QED
  BY <1>1, <1>4 DEF OpenTurns

(* The checkpoints of a turn open nothing. *)
LEMMA CheckpointOpens ==
    ASSUME Typed, NEW p \in Seq(MsgsTo(N)), lane.turn \in 1..N, Write(StepCheckpoint(lane.turn, p))
    PROVE  ToRestore(journal') \subseteq ToRestore(journal)
<1>0. N \in Nat /\ journal \in Seq(Recs(N))
  BY NIsNat DEF Typed, StoresTyped
<1>1. StepCheckpoint(lane.turn, p) \in Recs(N)
  BY <1>0, NewRecs DEF Recs
<1>2. StepCheckpoint(lane.turn, p).kind = "step_checkpoint"
  BY DEF StepCheckpoint
<1>3. QED
  BY <1>0, <1>1, <1>2, AppendOpens DEF Write

LEMMA PayloadsTyped ==
    ASSUME Typed, lane.pc \in {"pre_model", "model"}
    PROVE  /\ lane.turn \in 1..N /\ lane.session \in Seq(MsgsTo(N))
           /\ TurnLocal(ChatHistory(lane.session)) \in Seq(MsgsTo(N))
           /\ Append(TurnLocal(ChatHistory(lane.session)), Answer(lane.turn)) \in Seq(MsgsTo(N))
<1>1. lane.turn \in 1..N /\ lane.session \in Seq(MsgsTo(N))
  BY DEF Typed, LaneTyped, Lanes, InTurn
<1>2. SystemPrompt \in MsgsTo(N) /\ Answer(lane.turn) \in MsgsTo(N)
  BY <1>1 DEF MsgsTo
<1>3. TurnLocal(ChatHistory(lane.session)) \in Seq(MsgsTo(N))
  BY <1>1, <1>2, HistoryTyped, TurnLocalTyped
<1>4. QED
  BY <1>1, <1>2, <1>3, AppendProperties

LEMMA BeginOpens ==
    ASSUME Typed, OpenTurns, BeginTurn
    PROVE  ToRestore(journal') \subseteq {N + 1}
<1>0. N \in Nat
  BY NIsNat DEF Typed
<1>1. PICK s \in Seq(MsgsTo(N)) : Begin(s)
  BY BeginTurnIs
<1>2. lane.pc \in {"begin", "resume"} /\ lane.req \in Prompts
  BY BeginTurnIs
<1>3. ToRestore(journal) = {}
  BY <1>2 DEF OpenTurns
<1> DEFINE rec == TurnStart(N + 1, lane.req, lane.attempt, UserMessage(ChatHistory(s)))
<1>4. journal' = Append(journal, rec)
  BY <1>1 DEF Begin, Write, N
<1>5. rec \in Recs(N + 1) /\ rec.kind = "turn_start" /\ rec.turn = N + 1
  <2>1. Seq(MsgsTo(N)) \subseteq Seq(MsgsTo(N + 1))
    BY <1>0, RecsGrow
  <2>2. UserMessage(ChatHistory(s)) \in Seq(MsgsTo(N + 1)) /\ lane.attempt \in Nat
    BY <2>1, HistoryTyped, UserMessageTyped DEF Typed, LaneTyped, Lanes
  <2>3. rec \in StartRecs(N + 1)
    BY <1>0, <1>2, <2>2, NewRecs
  <2>4. QED
    BY <2>3 DEF StartRecs, Recs, TurnStart
<1> HIDE DEF rec
<1>6. journal \in Seq(Recs(N + 1))
  <2>1. Recs(N) \subseteq Recs(N + 1)
    BY <1>0, RecsGrow
  <2>2. QED
    BY <2>1, SeqMonotone DEF Typed, StoresTyped
<1>7. QED
  BY <1>3, <1>4, <1>5, <1>6, AppendOpens

LEMMA OpenTurnsStep ==
    ASSUME Typed, OpenTurns, [Next]_vars
    PROVE  OpenTurns'
<1>1. CASE BeginTurn
  <2>1. lane'.pc = "pre_model" /\ lane'.turn = N + 1
    BY <1>1, BeginTurnIs, LaneFields
  <2>2. QED
    BY <1>1, <2>1, BeginOpens DEF OpenTurns
<1>2. CASE CheckpointPreModel
  <2>1. ToRestore(journal') \subseteq ToRestore(journal)
    BY <1>2, CheckpointOpens, PayloadsTyped DEF CheckpointPreModel
  <2>2. QED
    BY <1>2, <2>1, LaneFields DEF CheckpointPreModel, OpenTurns
<1>3. CASE ModelAnswers
  <2>1. ToRestore(journal') \subseteq ToRestore(journal)
    BY <1>3, CheckpointOpens, PayloadsTyped DEF ModelAnswers
  <2>2. QED
    BY <1>3, <2>1, LaneFields DEF ModelAnswers, OpenTurns
<1>4. CASE ~BeginTurn /\ ~CheckpointPreModel /\ ~ModelAnswers
  <2>1. ToRestore(journal') \subseteq ToRestore(journal)
    BY <1>4, QuietSteps DEF QuietJournal
  <2>2. CASE RestoreTurn
    BY <2>2, MergeSettles, LaneFields DEF OpenTurns
  <2>3. CASE EndTurn
    BY <2>3, EndSettles, LaneFields DEF OpenTurns
  <2>4. CASE SaveRestored
    BY <2>1, <2>4, LaneFields DEF SaveRestored, OpenTurns
  <2>5. CASE ModelFails
    BY <2>1, <2>5, LaneFields DEF ModelFails, OpenTurns
  <2>6. CASE PruneJournal \/ CompactLedger
    BY <2>1, <2>6, LaneFields DEF PruneJournal, CompactLedger, OpenTurns
  <2>7. CASE \/ MarkProcessing \/ FindFinalAnswer \/ ModelPanics \/ PersistTurn \/ NewSession \/ TakeLock
             \/ PublishReply \/ CloseRequest \/ MarkDone \/ PublishClosed \/ Aborted \/ Crash \/ StartResume
    BY <2>1, <2>7, LaneFields DEF OpenTurns
  <2>8. CASE ~LaneStep /\ ~Crash /\ ~StartResume
    BY <2>1, <2>8, OtherSteps DEF SameLane, OpenTurns
  <2>9. QED
    BY <1>4, <2>2, <2>3, <2>4, <2>5, <2>6, <2>7, <2>8 DEF LaneStep
<1>5. QED
  BY <1>1, <1>2, <1>3, <1>4

(* A restart finds at most one turn to resume: a turn starts only when every
   earlier one was ended or merged, whatever kills, /stop, /new, panics and
   stale turns do in between. *)
THEOREM OneOpenTurn == Spec => []AtMostOneOpenTurn
<1>1. Init => OpenTurns
  BY DEF Init, OpenTurns, Idle, ToRestore, TurnsWith, Records
<1>2. Typed /\ OpenTurns /\ [Next]_vars => OpenTurns'
  BY OpenTurnsStep
<1>3. OpenTurns => AtMostOneOpenTurn
  <2> SUFFICES ASSUME OpenTurns PROVE AtMostOneOpenTurn
    OBVIOUS
  <2>1. Unfinished(journal) \subseteq ToRestore(journal)
    BY TurnSets
  <2>2. CASE Unfinished(journal) = {}
    BY <2>2, FS_EmptySet DEF AtMostOneOpenTurn
  <2>3. CASE Unfinished(journal) # {}
    <3>1. PICK t : t \in Unfinished(journal)
      BY <2>3
    <3>2. Unfinished(journal) = {t}
      BY <2>1, <3>1 DEF OpenTurns
    <3>3. Cardinality(Unfinished(journal)) = 1
      BY <3>2, FS_Singleton
    <3>4. QED
      BY <3>3 DEF AtMostOneOpenTurn
  <2>4. QED
    BY <2>2, <2>3
<1>4. QED
  BY <1>1, <1>2, <1>3, TypesHold, PTL DEF Spec

--------------------------------------------------------------------------------
(* Which answers the transcript holds.  Apart: no answer stands in a session
   twice, and a user message stands between an answer and the next answer or
   system prompt.  Asked: a user message follows every answer.  Mergeable: what
   the merge of turn t would add to session s. *)

AnswersIn(s) == {m \in ToSet(s) : m[1] = "answer"}
Apart(s) ==
    \A i, k \in DOMAIN s :
        i < k /\ s[i][1] = "answer" =>
            /\ s[i] # s[k]
            /\ s[k][1] \in {"answer", "system"}
                  => \E m \in DOMAIN s : i < m /\ m < k /\ s[m][1] = "user"
Asked(s) ==
    \A i \in DOMAIN s : s[i][1] = "answer" => \E k \in DOMAIN s : i < k /\ s[k][1] = "user"
Mergeable(p, t, s) ==
    /\ \A i \in DOMAIN p : p[i][1] = "answer" => i = Len(p) /\ p[i] = Answer(t)
    /\ AnswersIn(s) = {} \/ p = <<>> \/ p[1][1] = "user"
    /\ Answer(t) \notin AnswersIn(s)

LEMMA UserAppended ==
    ASSUME NEW A, NEW s \in Seq(A), NEW m \in A, Apart(s), m[1] \notin {"answer", "system"}
    PROVE  /\ Apart(Append(s, m)) /\ AnswersIn(Append(s, m)) = AnswersIn(s)
           /\ m[1] = "user" => Asked(Append(s, m))
<1> DEFINE a == Append(s, m)
<1>1. /\ DOMAIN a = DOMAIN s \cup {Len(s) + 1} /\ a[Len(s) + 1] = m
      /\ \A i \in DOMAIN s : i \in Nat /\ i < Len(s) + 1 /\ a[i] = s[i]
      /\ ToSet(a) = ToSet(s) \cup {m} /\ Len(s) \in Nat
  BY AppendFacts, LenProperties
<1> HIDE DEF a
<1>2. ASSUME NEW i \in DOMAIN a, NEW k \in DOMAIN a, i < k, a[i][1] = "answer"
      PROVE  /\ a[i] # a[k]
             /\ a[k][1] \in {"answer", "system"}
                   => \E n \in DOMAIN a : i < n /\ n < k /\ a[n][1] = "user"
  <2>1. i \in DOMAIN s
    BY <1>1, <1>2
  <2>2. CASE k = Len(s) + 1
    BY <1>1, <1>2, <2>1, <2>2
  <2>3. CASE k \in DOMAIN s
    <3>1. /\ s[i] # s[k] /\ a[i] = s[i] /\ a[k] = s[k]
          /\ s[k][1] \in {"answer", "system"}
                => \E n \in DOMAIN s : i < n /\ n < k /\ s[n][1] = "user"
      BY <1>1, <1>2, <2>1, <2>3 DEF Apart
    <3>2. QED
      BY <1>1, <3>1
  <2>4. QED
    BY <1>1, <2>2, <2>3
<1>3. Apart(a)
  BY <1>2 DEF Apart
<1>4. AnswersIn(a) = AnswersIn(s)
  BY <1>1 DEF AnswersIn
<1>5. m[1] = "user" => Asked(a)
  <2> SUFFICES ASSUME m[1] = "user", NEW i \in DOMAIN a, a[i][1] = "answer"
               PROVE  \E k \in DOMAIN a : i < k /\ a[k][1] = "user"
    BY DEF Asked
  <2>1. i \in DOMAIN s
    BY <1>1
  <2>2. QED
    BY <1>1, <2>1
<1>6. QED
  BY <1>3, <1>4, <1>5 DEF a

(* The answer of a turn is appended to the session the turn began with. *)
LEMMA AnswerAppended ==
    ASSUME NEW A, NEW s \in Seq(A), NEW m \in A, Apart(s), Asked(s),
           m[1] = "answer", m \notin AnswersIn(s)
    PROVE  Apart(Append(s, m))
<1> DEFINE a == Append(s, m)
<1>1. /\ DOMAIN a = DOMAIN s \cup {Len(s) + 1} /\ a[Len(s) + 1] = m
      /\ \A i \in DOMAIN s : i \in Nat /\ i < Len(s) + 1 /\ a[i] = s[i]
      /\ Len(s) \in Nat
  BY AppendFacts, LenProperties
<1> HIDE DEF a
<1>2. ASSUME NEW i \in DOMAIN a, NEW k \in DOMAIN a, i < k, a[i][1] = "answer"
      PROVE  /\ a[i] # a[k]
             /\ a[k][1] \in {"answer", "system"}
                   => \E n \in DOMAIN a : i < n /\ n < k /\ a[n][1] = "user"
  <2>1. i \in DOMAIN s /\ s[i][1] = "answer" /\ a[i] = s[i]
    BY <1>1, <1>2
  <2>2. CASE k = Len(s) + 1
    <3>1. s[i] # m
      BY <2>1 DEF AnswersIn, ToSet
    <3>2. PICK n \in DOMAIN s : i < n /\ s[n][1] = "user"
      BY <2>1 DEF Asked
    <3>3. n < k /\ a[n][1] = "user" /\ n \in DOMAIN a
      BY <1>1, <2>2, <3>2
    <3>4. QED
      BY <1>1, <2>1, <2>2, <3>1, <3>2, <3>3
  <2>3. CASE k \in DOMAIN s
    <3>1. /\ s[i] # s[k] /\ a[i] = s[i] /\ a[k] = s[k]
          /\ s[k][1] \in {"answer", "system"}
                => \E n \in DOMAIN s : i < n /\ n < k /\ s[n][1] = "user"
      BY <1>1, <1>2, <2>1, <2>3 DEF Apart
    <3>2. QED
      BY <1>1, <3>1
  <2>4. QED
    BY <1>1, <2>2, <2>3
<1>3. QED
  BY <1>2 DEF Apart, a

(* A merge keeps the answers apart. *)
LEMMA MergeApart ==
    ASSUME NEW A, NEW s \in Seq(A), NEW p \in Seq(A), NEW t, Apart(s), Mergeable(p, t, s)
    PROVE  Apart(s \o p)
<1> DEFINE c == s \o p
           L == Len(s)
<1>1. /\ \A i \in DOMAIN s : i \in DOMAIN c /\ c[i] = s[i]
      /\ \A i \in DOMAIN p : i + L \in DOMAIN c /\ c[i + L] = p[i]
      /\ \A i \in DOMAIN c : \/ i \in DOMAIN s
                             \/ i \notin DOMAIN s /\ i - L \in DOMAIN p
      /\ c \in Seq(A)
  BY ConcatFacts
<1>2. /\ L \in Nat /\ DOMAIN s = 1..L /\ Len(p) \in Nat /\ DOMAIN p = 1..Len(p)
      /\ DOMAIN c \subseteq Nat
  BY <1>1, SeqElements
<1> HIDE DEF c, L
<1>3. \A i \in DOMAIN c : i \notin DOMAIN s => i - L \in DOMAIN p /\ c[i] = p[i - L] /\ L < i
  <2> SUFFICES ASSUME NEW i \in DOMAIN c, i \notin DOMAIN s
               PROVE  i - L \in DOMAIN p /\ c[i] = p[i - L] /\ L < i
    OBVIOUS
  <2>1. i - L \in DOMAIN p /\ i \in Nat
    BY <1>1, <1>2
  <2>2. (i - L) + L = i
    BY <1>2, <2>1
  <2>3. c[i] = p[i - L]
    BY <1>1, <2>1, <2>2
  <2>4. QED
    BY <1>2, <2>1, <2>3
<1>4. ASSUME NEW i \in DOMAIN c, NEW k \in DOMAIN c, i < k, c[i][1] = "answer"
      PROVE  /\ c[i] # c[k]
             /\ c[k][1] \in {"answer", "system"}
                   => \E n \in DOMAIN c : i < n /\ n < k /\ c[n][1] = "user"
  <2>0. i \in Nat /\ k \in Nat
    BY <1>2
  <2>1. CASE i \in DOMAIN s /\ k \in DOMAIN s
    <3>1. /\ s[i] # s[k] /\ c[i] = s[i] /\ c[k] = s[k]
          /\ s[k][1] \in {"answer", "system"}
                => \E n \in DOMAIN s : i < n /\ n < k /\ s[n][1] = "user"
      BY <1>1, <1>4, <2>1 DEF Apart
    <3>2. QED
      BY <1>1, <3>1
  <2>2. CASE i \in DOMAIN s /\ k \notin DOMAIN s
    <3>1. k - L \in DOMAIN p /\ c[k] = p[k - L] /\ L < k
      BY <1>3, <2>2
    <3>2. c[i] = s[i] /\ s[i] \in AnswersIn(s) /\ i <= L
      BY <1>1, <1>2, <1>4, <2>2 DEF AnswersIn, ToSet
    <3>3. p # <<>> /\ 1 \in DOMAIN p
      BY <1>2, <3>1, EmptySeq
    <3>4. p[1][1] = "user"
      BY <3>2, <3>3 DEF Mergeable
    <3>5. 1 + L \in DOMAIN c /\ c[1 + L][1] = "user"
      BY <1>1, <3>3, <3>4
    <3>6. c[k][1] \in {"answer", "system"} => k # 1 + L
      BY <3>5
    <3>7. i < 1 + L /\ 1 + L <= k
      BY <1>2, <2>0, <3>1, <3>2
    <3>8. c[i] # c[k]
      <4>1. CASE c[k][1] = "answer"
        BY <3>1, <3>2, <4>1 DEF Mergeable
      <4>2. CASE c[k][1] # "answer"
        BY <1>4, <4>2
      <4>3. QED
        BY <4>1, <4>2
    <3>9. c[k][1] \in {"answer", "system"} => i < 1 + L /\ 1 + L < k
      BY <1>2, <2>0, <3>6, <3>7
    <3>10. QED
      BY <3>5, <3>8, <3>9
  <2>3. CASE i \notin DOMAIN s
    <3>1. i - L \in DOMAIN p /\ c[i] = p[i - L] /\ L < i
      BY <1>3, <2>3
    <3>2. i - L = Len(p)
      BY <1>4, <3>1 DEF Mergeable
    <3>3. k \notin DOMAIN s
      BY <1>2, <1>4, <2>0, <3>1
    <3>4. k - L \in 1..Len(p)
      BY <1>2, <1>3, <3>3
    <3>5. FALSE
      BY <1>2, <1>4, <2>0, <3>2, <3>4
    <3>6. QED
      BY <3>5
  <2>4. QED
    BY <2>1, <2>2, <2>3
<1>5. QED
  BY <1>4 DEF Apart, c

(* What the model is shown of a session. *)
Spoken(s) == {i \in DOMAIN s : s[i][1] # "command"}

LEMMA HistoryFacts ==
    ASSUME NEW A, NEW s \in Seq(A)
    PROVE  LET h == ChatHistory(s)
               S == Spoken(s)
           IN  /\ S \subseteq DOMAIN s /\ DOMAIN s \subseteq Nat
               /\ h \in Seq(A) /\ Len(h) \in Nat /\ DOMAIN h = 1..Len(h)
               /\ \A n \in DOMAIN h : InOrder(S)[n] \in S /\ h[n] = s[InOrder(S)[n]]
                                      /\ Rank(S, InOrder(S)[n]) = n
               /\ \A i \in S : Rank(S, i) \in DOMAIN h /\ h[Rank(S, i)] = s[i]
               /\ \A i, k \in S : i < k <=> Rank(S, i) < Rank(S, k)
<1> DEFINE S == Spoken(s)
           h == Part(s, S)
<1>1. h = ChatHistory(s) /\ S \subseteq DOMAIN s
  BY DEF ChatHistory, Spoken
<1>2. DOMAIN s \subseteq Nat
  BY SeqElements
<1> HIDE DEF S
<1>3. /\ h \in Seq(A) /\ Len(h) \in Nat /\ DOMAIN h = 1..Len(h)
      /\ \A n \in DOMAIN h : InOrder(S)[n] \in S /\ h[n] = s[InOrder(S)[n]]
                             /\ Rank(S, InOrder(S)[n]) = n
      /\ \A i \in S : Rank(S, i) \in DOMAIN h /\ h[Rank(S, i)] = s[i]
      /\ \A i, k \in S : i < k <=> Rank(S, i) < Rank(S, k)
  BY <1>1, PartFacts
<1> HIDE DEF h
<1>4. QED
  BY <1>1, <1>2, <1>3 DEF S

(* A session whose last message for the model is no answer can be continued. *)
LEMMA Continued ==
    ASSUME NEW n \in Nat, NEW s \in Seq(MsgsTo(n)), Apart(s), ~HasFinalAnswer(s)
    PROVE  Asked(s)
<1> DEFINE S == Spoken(s)
           h == ChatHistory(s)
<1>2. /\ S \subseteq DOMAIN s /\ DOMAIN s \subseteq Nat
      /\ Len(h) \in Nat /\ DOMAIN h = 1..Len(h)
      /\ \A m \in DOMAIN h : InOrder(S)[m] \in S /\ h[m] = s[InOrder(S)[m]] /\ Rank(S, InOrder(S)[m]) = m
      /\ \A i \in S : Rank(S, i) \in DOMAIN h /\ h[Rank(S, i)] = s[i]
      /\ \A i, k \in S : i < k <=> Rank(S, i) < Rank(S, k)
  BY HistoryFacts
<1>4. SUFFICES ASSUME NEW i \in DOMAIN s, s[i][1] = "answer",
                      ~\E k \in DOMAIN s : i < k /\ s[k][1] = "user"
               PROVE  FALSE
  BY DEF Asked
<1>5. i \in S
  BY <1>4 DEF Spoken
<1>3. \A k \in S : s[k][1] # "command"
  BY DEF Spoken
<1> HIDE DEF h, S
<1>6. Rank(S, i) \in 1..Len(h) /\ h # <<>>
  BY <1>2, <1>5, EmptySeq
<1> DEFINE l == InOrder(S)[Len(h)]
<1>7. Len(h) \in DOMAIN h
  BY <1>2, <1>6
<1>8. l \in S /\ h[Len(h)] = s[l] /\ Rank(S, l) = Len(h)
  BY <1>2, <1>7
<1> HIDE DEF l
<1>9. l = i \/ i < l
  <2>1. ~(l < i)
    BY <1>2, <1>5, <1>6, <1>8
  <2>2. l \in Nat /\ i \in Nat
    BY <1>2, <1>5, <1>8
  <2>3. QED
    BY <2>1, <2>2
<1>10. CASE l = i
  <2>1. h[Len(h)][1] = "answer"
    BY <1>4, <1>8, <1>10
  <2>2. QED
    BY <1>6, <2>1 DEF HasFinalAnswer, h
<1>11. CASE i < l
  <2>1. s[l] \in MsgsTo(n) /\ s[l][1] # "command" /\ s[l][1] # "user" /\ l \in DOMAIN s
    BY <1>2, <1>4, <1>3, <1>8, <1>11, SeqElements
  <2>2. s[l][1] \in {"answer", "system"}
    BY <2>1 DEF MsgsTo, User, Command, Answer, SystemPrompt
  <2>3. PICK m \in DOMAIN s : i < m /\ m < l /\ s[m][1] = "user"
    BY <1>4, <1>11, <2>1, <2>2 DEF Apart
  <2>4. QED
    BY <1>4, <2>3
<1>12. QED
  BY <1>9, <1>10, <1>11

(* What a turn writes down before the model is asked: its own messages, without
   an answer, from its user message on, if it has one. *)
LEMMA LocalFacts ==
    ASSUME NEW n, NEW s \in Seq(MsgsTo(n)), Asked(s)
    PROVE  LET p == TurnLocal(ChatHistory(s))
           IN  /\ p \in Seq(MsgsTo(n)) /\ p # <<>>
               /\ \A i \in DOMAIN p : p[i][1] # "answer"
               /\ p[1][1] = "user" \/ AnswersIn(s) = {}
<1> DEFINE S == Spoken(s)
           h == ChatHistory(s)
           p == TurnLocal(h)
           u == Last1(UsersOf(h))
<1>1. /\ S \subseteq DOMAIN s /\ DOMAIN s \subseteq Nat
      /\ h \in Seq(MsgsTo(n)) /\ Len(h) \in Nat /\ DOMAIN h = 1..Len(h)
      /\ \A m \in DOMAIN h : InOrder(S)[m] \in S /\ h[m] = s[InOrder(S)[m]] /\ Rank(S, InOrder(S)[m]) = m
      /\ \A i \in S : Rank(S, i) \in DOMAIN h /\ h[Rank(S, i)] = s[i]
      /\ \A i, k \in S : i < k <=> Rank(S, i) < Rank(S, k)
  BY HistoryFacts
<1>2. \A i \in DOMAIN s : s[i][1] # "command" => i \in S
  BY DEF Spoken
<1>3. SystemPrompt \in MsgsTo(n) /\ SystemPrompt[1] = "system"
  BY DEF MsgsTo, SystemPrompt
<1>4. p \in Seq(MsgsTo(n))
  BY <1>1, <1>3, TurnLocalTyped
<1> HIDE DEF S, h
(* In the history, too, a user message follows every answer. *)
<1>5. ASSUME NEW m \in DOMAIN h, h[m][1] = "answer"
      PROVE  \E k \in DOMAIN h : m < k /\ h[k][1] = "user"
  <2> DEFINE i == InOrder(S)[m]
  <2>1. i \in S /\ i \in DOMAIN s /\ s[i][1] = "answer" /\ Rank(S, i) = m
    BY <1>1, <1>5
  <2> HIDE DEF i
  <2>2. PICK k \in DOMAIN s : i < k /\ s[k][1] = "user"
    BY <2>1 DEF Asked
  <2>3. k \in S
    BY <1>2, <2>2
  <2>4. Rank(S, k) \in DOMAIN h /\ h[Rank(S, k)] = s[k] /\ Rank(S, i) < Rank(S, k)
    BY <1>1, <2>1, <2>2, <2>3
  <2>5. QED
    BY <2>1, <2>2, <2>4
<1>6. CASE UsersOf(h) = {}
  <2>1. \A m \in DOMAIN h : h[m][1] # "user"
    BY <1>6 DEF UsersOf
  <2>2. \A m \in DOMAIN h : h[m][1] # "answer"
    BY <1>5, <2>1
  <2>3. p = <<SystemPrompt>> \o h
    BY <1>6 DEF TurnLocal
  <2> DEFINE o == <<SystemPrompt>>
  <2>4. o \in Seq(MsgsTo(n)) /\ Len(o) = 1 /\ o[1] = SystemPrompt /\ DOMAIN o = 1..1
    BY <1>3
  <2> HIDE DEF o
  <2>5. /\ Len(p) = 1 + Len(h) /\ DOMAIN p = 1..Len(p)
        /\ \A i \in DOMAIN p : \/ (i \in DOMAIN o /\ p[i] = o[i])
                               \/ (i - 1 \in DOMAIN h /\ p[i] = h[i - 1])
    <3>0. o \in Seq(MsgsTo(n)) /\ h \in Seq(MsgsTo(n))
      BY <1>1, <2>4
    <3>1. /\ Len(o \o h) = Len(o) + Len(h)
          /\ \A i \in 1..(Len(o) + Len(h)) : (o \o h)[i] = IF i <= Len(o) THEN o[i] ELSE h[i - Len(o)]
          /\ o \o h \in Seq(MsgsTo(n))
      BY <3>0, ConcatProperties
    <3>2. p = o \o h
      BY <2>3 DEF o
    <3> HIDE DEF p
    <3>3. DOMAIN p = 1..Len(p) /\ Len(p) = 1 + Len(h)
      BY <1>1, <2>4, <3>1, <3>2, LenProperties
    <3>4. QED
      BY <1>1, <2>4, <3>1, <3>2, <3>3
  <2>6. \A i \in DOMAIN p : p[i][1] # "answer"
    <3> TAKE i \in DOMAIN p
    <3>1. CASE i \in DOMAIN o /\ p[i] = o[i]
      BY <1>3, <2>4, <3>1
    <3>2. CASE i - 1 \in DOMAIN h /\ p[i] = h[i - 1]
      BY <2>2, <3>2
    <3>3. QED
      BY <2>5, <3>1, <3>2
  <2>7. p # <<>>
    BY <1>1, <2>5, EmptySeq
  <2>8. AnswersIn(s) = {}
    <3> SUFFICES ASSUME NEW i \in DOMAIN s, s[i][1] = "answer" PROVE FALSE
      BY DEF AnswersIn, ToSet
    <3>1. i \in S
      BY <1>2
    <3>2. Rank(S, i) \in DOMAIN h /\ h[Rank(S, i)][1] = "answer"
      BY <1>1, <3>1
    <3>3. QED
      BY <2>2, <3>2
  <2>9. QED
    BY <1>4, <2>6, <2>7, <2>8 DEF h
<1>7. CASE UsersOf(h) # {}
  <2>1. /\ u \in DOMAIN h /\ h[u][1] = "user" /\ \A k \in UsersOf(h) : k <= u
    BY <1>1, <1>7, UsersFacts
  <2>2. p = SubSeq(h, u, Len(h))
    BY <1>7 DEF TurnLocal
  <2> HIDE DEF u
  <2>3. /\ Len(p) = (Len(h) - u) + 1 /\ Len(p) \in Nat
        /\ \A i \in 1..Len(p) : u + (i - 1) \in DOMAIN h /\ p[i] = h[u + (i - 1)]
        /\ 1 \in 1..Len(p)
    <3>1. u \in 1..Len(h) /\ u \in Nat /\ u <= Len(h) + 1
      BY <1>1, <2>1
    <3> DEFINE q == SubSeq(h, u, Len(h))
    <3>2. Len(q) = (IF u <= Len(h) THEN (Len(h) - u) + 1 ELSE 0)
      BY <1>1, <3>1, SubSeqProperties
    <3>3. \A i \in 1..((Len(h) - u) + 1) : q[i] = h[u + i - 1]
      BY <1>1, <3>1, SubSeqProperties
    <3>4. q = p
      BY <2>2
    <3> HIDE DEF p, q
    <3>5. \A i \in 1..((Len(h) - u) + 1) : u + (i - 1) \in DOMAIN h /\ u + i - 1 = u + (i - 1)
      BY <1>1, <3>1
    <3>6. QED
      BY <1>1, <3>1, <3>2, <3>3, <3>4, <3>5
  <2>4. DOMAIN p = 1..Len(p)
    BY <1>4, SeqElements
  <2> HIDE DEF p
  <2>5. \A i \in DOMAIN p : p[i][1] # "answer"
    <3> SUFFICES ASSUME NEW i \in DOMAIN p, p[i][1] = "answer" PROVE FALSE
      OBVIOUS
    <3>1. u + (i - 1) \in DOMAIN h /\ h[u + (i - 1)][1] = "answer"
      BY <2>3, <2>4
    <3>2. PICK k \in DOMAIN h : u + (i - 1) < k /\ h[k][1] = "user"
      BY <1>5, <3>1
    <3>3. k <= u
      BY <2>1, <3>2 DEF UsersOf
    <3>4. u \in Nat /\ i \in Nat /\ k \in Nat /\ 1 <= i
      BY <1>1, <2>1, <2>3, <2>4
    <3>5. QED
      BY <3>2, <3>3, <3>4
  <2>6. p[1][1] = "user"
    <3>1. u \in Nat /\ u + (1 - 1) = u
      BY <1>1, <2>1
    <3>2. QED
      BY <2>1, <2>3, <3>1
  <2>7. p # <<>>
    BY <2>3, <2>4, EmptySeq
  <2>8. QED
    BY <1>4, <2>5, <2>6, <2>7 DEF p, h
<1>8. QED
  BY <1>6, <1>7

--------------------------------------------------------------------------------
(* The transcript, its copy, the session of the turn that runs, and what a merge
   would add: together they keep every answer in the transcript at most once. *)

SessionsApart == /\ Apart(disk) /\ Apart(cache)
                 /\ lane.pc # "restoring" => cache = disk
LaneReady ==
    /\ lane.pc \in {"resume"} \cup InTurn => Apart(lane.session)
    /\ lane.pc \in InTurn => Asked(lane.session) /\ Answer(lane.turn) \notin AnswersIn(lane.session)
    /\ lane.pc \in {"resume", "pre_model", "model"} => AnswersIn(cache) \subseteq AnswersIn(lane.session)

Told(a) == IF a.kind = "turn_start" THEN a.user ELSE a.payload
MergesApart ==
    \A a \in ToSet(journal) :
        Tells(a) /\ a.turn \in ToRestore(journal) => Mergeable(Told(a), a.turn, cache)

SavedOnce == OpenTurns /\ SessionsApart /\ LaneReady /\ MergesApart

LEMMA SameAnswersFacts ==
    ASSUME Typed, SessionsApart, SameAnswers
    PROVE  /\ Apart(disk') /\ Apart(cache') /\ AnswersIn(cache') = AnswersIn(cache)
           /\ lane.pc # "restoring" => cache' = disk'
<1>1. CASE UNCHANGED <<disk, cache>>
  BY <1>1 DEF SessionsApart
<1>2. CASE ~UNCHANGED <<disk, cache>>
  <2>1. PICK r \in Reqs : cache' = Append(cache, Command(r)) /\ disk' = cache'
    BY <1>2 DEF SameAnswers
  <2>2. Command(r) \in MsgsTo(N) /\ Command(r)[1] = "command"
    BY DEF MsgsTo, Command
  <2>3. Apart(cache') /\ AnswersIn(cache') = AnswersIn(cache)
    BY <2>1, <2>2, UserAppended DEF SessionsApart, Typed, StoresTyped
  <2>4. QED
    BY <2>1, <2>3
<1>3. QED
  BY <1>1, <1>2

LEMMA MergesKept ==
    ASSUME QuietJournal, MergesApart, AnswersIn(cache') = AnswersIn(cache)
    PROVE  MergesApart'
<1> SUFFICES ASSUME NEW a \in ToSet(journal'), Tells(a), a.turn \in ToRestore(journal')
             PROVE  Mergeable(Told(a), a.turn, cache')
  BY DEF MergesApart
<1>1. PICK b \in ToSet(journal) : Kept(a, b)
  BY DEF QuietJournal
<1>2. Tells(b) /\ b.turn = a.turn /\ Told(b) = Told(a)
  BY <1>1 DEF Kept, Tells, Told
<1>3. b.turn \in ToRestore(journal)
  BY <1>2 DEF QuietJournal
<1>4. Mergeable(Told(a), a.turn, cache)
  BY <1>2, <1>3 DEF MergesApart
<1>5. QED
  BY <1>4 DEF Mergeable

LEMMA MergesNone ==
    ASSUME ToRestore(journal') = {} PROVE MergesApart'
BY DEF MergesApart

(* A turn of this number has not answered yet. *)
LEMMA FreshAnswer ==
    ASSUME NEW n \in Nat, NEW s \in Seq(MsgsTo(n))
    PROVE  Answer(n + 1) \notin AnswersIn(s)
<1>1. \A m \in MsgsTo(n) : m # Answer(n + 1)
  BY DEF MsgsTo, User, Command, Answer, SystemPrompt
<1>2. QED
  BY <1>1, SeqElements DEF AnswersIn, ToSet

(* What a merge of an open turn adds to the transcript. *)
LEMMA RestoredMergeable ==
    ASSUME Typed, MergesApart, NEW t \in ToRestore(journal)
    PROVE  Mergeable(RestoredMessages(journal, t), t, cache)
<1>0. N \in Nat /\ journal \in Seq(Recs(N))
  BY NIsNat DEF Typed, StoresTyped
<1>1. CASE RestoredMessages(journal, t) = StartOf(journal, t).user
  <2>1. t \in TurnsWith(journal, "turn_start")
    BY <1>0, TurnsTyped
  <2>2. PICK i \in DOMAIN journal : /\ StartOf(journal, t) = journal[i]
                                    /\ journal[i].kind = "turn_start" /\ journal[i].turn = t
    BY <1>0, <2>1, StartOfFacts
  <2>3. journal[i] \in ToSet(journal) /\ Tells(journal[i])
    BY <2>2 DEF ToSet, Tells
  <2>4. Mergeable(Told(journal[i]), journal[i].turn, cache)
    BY <2>2, <2>3 DEF MergesApart
  <2>5. QED
    BY <1>1, <2>2, <2>4 DEF Told
<1>2. CASE ~(RestoredMessages(journal, t) = StartOf(journal, t).user)
  <2> DEFINE i == Last1(CheckpointsOf(journal, t))
  <2>1. i \in CheckpointsOf(journal, t) /\ RestoredMessages(journal, t) = journal[i].payload
    BY <1>0, <1>2, RestoredFacts
  <2> HIDE DEF i
  <2>2. i \in DOMAIN journal /\ journal[i].kind = "step_checkpoint" /\ journal[i].turn = t
    BY <2>1 DEF CheckpointsOf, Records, Is
  <2>3. journal[i] \in ToSet(journal) /\ Tells(journal[i])
    BY <2>2 DEF ToSet, Tells
  <2>4. Mergeable(Told(journal[i]), journal[i].turn, cache)
    BY <2>2, <2>3 DEF MergesApart
  <2>5. QED
    BY <2>1, <2>2, <2>4 DEF Told
<1>3. QED
  BY <1>1, <1>2

(* A turn begins: its session, and what its first record holds. *)
LEMMA BeginSaved ==
    ASSUME Typed, SavedOnce, BeginTurn
    PROVE  SessionsApart' /\ LaneReady' /\ MergesApart'
<1>0. N \in Nat /\ journal \in Seq(Recs(N)) /\ cache \in Seq(MsgsTo(N))
  BY NIsNat DEF Typed, StoresTyped
<1>1. PICK s \in Seq(MsgsTo(N)) :
         /\ Begin(s)
         /\ \/ lane.pc = "begin" /\ s = Append(cache, User(lane.req))
            \/ lane.pc = "resume" /\ s = lane.session /\ ~HasFinalAnswer(s)
  BY BeginTurnIs
<1>2. /\ lane'.pc = "pre_model" /\ lane'.turn = N + 1 /\ lane'.session = s
      /\ lane.pc \in {"begin", "resume"} /\ lane.req \in Prompts
      /\ UNCHANGED <<disk, cache>>
  BY <1>1, LaneFields, BeginTurnIs DEF Begin
<1>3. Apart(s) /\ Asked(s) /\ AnswersIn(cache) \subseteq AnswersIn(s)
  <2>1. CASE lane.pc = "begin" /\ s = Append(cache, User(lane.req))
    <3>1. User(lane.req) \in MsgsTo(N) /\ User(lane.req)[1] = "user"
      BY <1>2 DEF MsgsTo, User, Reqs, Dispatched
    <3>2. QED
      BY <1>0, <2>1, <3>1, UserAppended DEF SavedOnce, SessionsApart
  <2>2. CASE lane.pc = "resume" /\ s = lane.session /\ ~HasFinalAnswer(s)
    <3>1. Apart(s) /\ AnswersIn(cache) \subseteq AnswersIn(s)
      BY <2>2 DEF SavedOnce, LaneReady
    <3>2. QED
      BY <1>0, <2>2, <3>1, Continued
  <2>3. QED
    BY <1>1, <2>1, <2>2
<1>4. SessionsApart'
  BY <1>2 DEF SavedOnce, SessionsApart
<1>5. LaneReady'
  <2>1. Answer(N + 1) \notin AnswersIn(s)
    BY <1>0, FreshAnswer
  <2>2. QED
    BY <1>2, <1>3, <2>1 DEF LaneReady, InTurn
<1>6. MergesApart'
  <2> SUFFICES ASSUME NEW a \in ToSet(journal'), Tells(a), a.turn \in ToRestore(journal')
               PROVE  Mergeable(Told(a), a.turn, cache')
    BY DEF MergesApart
  <2>1. a.turn = N + 1
    BY BeginOpens DEF SavedOnce
  <2> DEFINE p == UserMessage(ChatHistory(s))
             rec == TurnStart(N + 1, lane.req, lane.attempt, p)
  <2>2. journal' = Append(journal, rec)
    BY <1>1 DEF Begin, Write, N
  <2>3. journal \in Seq(Recs(N + 1)) /\ p \in Seq(MsgsTo(N + 1)) /\ lane.attempt \in Nat
    <3>1. Recs(N) \subseteq Recs(N + 1) /\ Seq(MsgsTo(N)) \subseteq Seq(MsgsTo(N + 1))
      BY <1>0, RecsGrow
    <3>2. QED
      BY <1>0, <3>1, SeqMonotone, HistoryTyped, UserMessageTyped DEF Typed, LaneTyped, Lanes
  <2> HIDE DEF p
  <2>4. rec \in Recs(N + 1)
    <3>1. rec \in StartRecs(N + 1)
      BY <1>0, <1>2, <2>3, NewRecs
    <3>2. QED
      BY <3>1 DEF Recs
  <2>5. rec.kind = "turn_start" /\ rec.user = p
    BY DEF TurnStart
  <2> HIDE DEF rec
  <2>6. a \in ToSet(journal) \/ a = rec
    BY <2>2, <2>3, <2>4, AppendFacts
  <2>7. a \notin ToSet(journal)
    <3>1. \A b \in ToSet(journal) : b \in Recs(N)
      BY <1>0, SeqElements DEF ToSet
    <3>2. a \in ToSet(journal) => a.turn \in 1..N
      BY <3>1, RecKinds DEF Tells
    <3>3. QED
      BY <1>0, <2>1, <3>2
  <2>8. Told(a) = p
    BY <2>5, <2>6, <2>7 DEF Told
  <2>9. \A i \in DOMAIN p : p[i][1] = "user"
    <3>1. CASE UsersOf(ChatHistory(s)) = {}
      BY <3>1 DEF p, UserMessage
    <3>2. CASE UsersOf(ChatHistory(s)) # {}
      <4>1. ChatHistory(s) \in Seq(MsgsTo(N))
        BY HistoryTyped
      <4>2. ChatHistory(s)[Last1(UsersOf(ChatHistory(s)))][1] = "user"
        BY <3>2, <4>1, UsersFacts
      <4>3. QED
        BY <3>2, <4>2 DEF p, UserMessage
    <3>3. QED
      BY <3>1, <3>2
  <2>10. p = <<>> \/ p[1][1] = "user"
    <3>1. Len(p) \in Nat /\ DOMAIN p = 1..Len(p)
      BY <2>3, SeqElements
    <3>2. QED
      BY <2>3, <2>9, <3>1, EmptySeq
  <2>11. Answer(N + 1) \notin AnswersIn(cache)
    BY <1>0, FreshAnswer
  <2>12. QED
    BY <1>2, <2>1, <2>8, <2>9, <2>10, <2>11 DEF Mergeable
<1>7. QED
  BY <1>4, <1>5, <1>6

(* The running turn writes a checkpoint. *)
LEMMA CheckpointSaved ==
    ASSUME Typed, SavedOnce, lane.pc \in {"pre_model", "model"}, UNCHANGED <<disk, cache>>,
           NEW p \in Seq(MsgsTo(N)), Write(StepCheckpoint(lane.turn, p)),
           \A i \in DOMAIN p : p[i][1] = "answer" => i = Len(p) /\ p[i] = Answer(lane.turn),
           p[1][1] = "user" \/ AnswersIn(lane.session) = {}
    PROVE  MergesApart'
<1>0. N \in Nat /\ journal \in Seq(Recs(N)) /\ lane.turn \in 1..N
  BY NIsNat DEF Typed, StoresTyped, LaneTyped, InTurn
<1> SUFFICES ASSUME NEW a \in ToSet(journal'), Tells(a), a.turn \in ToRestore(journal')
             PROVE  Mergeable(Told(a), a.turn, cache')
  BY DEF MergesApart
<1>1. a.turn \in ToRestore(journal) /\ a.turn = lane.turn
  <2>1. ToRestore(journal') \subseteq ToRestore(journal)
    BY <1>0, CheckpointOpens
  <2>2. QED
    BY <2>1 DEF SavedOnce, OpenTurns
<1> DEFINE rec == StepCheckpoint(lane.turn, p)
<1>2. rec \in Recs(N)
  BY <1>0, NewRecs DEF Recs
<1>3. Told(rec) = p
  BY DEF Told, StepCheckpoint
<1> HIDE DEF rec
<1>4. a \in ToSet(journal) \/ a = rec
  BY <1>0, <1>2, AppendFacts DEF Write, rec
<1>5. CASE a \in ToSet(journal)
  BY <1>1, <1>5 DEF SavedOnce, MergesApart
<1>6. CASE a = rec
  <2>1. AnswersIn(cache) \subseteq AnswersIn(lane.session) /\ Answer(lane.turn) \notin AnswersIn(lane.session)
    BY DEF SavedOnce, LaneReady, InTurn
  <2>2. QED
    BY <1>1, <1>3, <1>6, <2>1 DEF Mergeable
<1>7. QED
  BY <1>4, <1>5, <1>6

LEMMA SavedOnceStep ==
    ASSUME Typed, SavedOnce, [Next]_vars
    PROVE  SavedOnce'
<1>0. N \in Nat /\ journal \in Seq(Recs(N)) /\ cache \in Seq(MsgsTo(N)) /\ disk \in Seq(MsgsTo(N))
  BY NIsNat DEF Typed, StoresTyped
<1>1. OpenTurns'
  BY OpenTurnsStep DEF SavedOnce
<1>2. SessionsApart /\ LaneReady /\ MergesApart /\ OpenTurns
  BY DEF SavedOnce
<1> SUFFICES SessionsApart' /\ LaneReady' /\ MergesApart'
  BY <1>1 DEF SavedOnce
<1>3. CASE BeginTurn
  BY <1>3, BeginSaved
<1>4. CASE CheckpointPreModel
  <2> DEFINE p == TurnLocal(ChatHistory(lane.session))
  <2>1. lane.pc = "pre_model" /\ Write(StepCheckpoint(lane.turn, p)) /\ UNCHANGED <<disk, cache>>
    BY <1>4 DEF CheckpointPreModel
  <2>2. lane.session \in Seq(MsgsTo(N)) /\ Asked(lane.session)
    BY <2>1, PayloadsTyped DEF SavedOnce, LaneReady, InTurn
  <2>3. /\ p \in Seq(MsgsTo(N)) /\ \A i \in DOMAIN p : p[i][1] # "answer"
        /\ p[1][1] = "user" \/ AnswersIn(lane.session) = {}
    BY <2>2, LocalFacts
  <2> HIDE DEF p
  <2>4. MergesApart'
    BY <2>1, <2>3, CheckpointSaved
  <2>5. lane'.pc = "model" /\ lane'.turn = lane.turn /\ lane'.session = lane.session
    BY <1>4, LaneFields
  <2>6. QED
    BY <1>2, <2>1, <2>4, <2>5 DEF SessionsApart, LaneReady, InTurn
<1>5. CASE ModelAnswers
  <2> DEFINE q == TurnLocal(ChatHistory(lane.session))
             p == Append(q, Answer(lane.turn))
  <2>1. lane.pc = "model" /\ Write(StepCheckpoint(lane.turn, p)) /\ UNCHANGED <<disk, cache>>
    BY <1>5 DEF ModelAnswers
  <2>2. lane.session \in Seq(MsgsTo(N)) /\ Asked(lane.session) /\ p \in Seq(MsgsTo(N)) /\ lane.turn \in 1..N
    BY <2>1, PayloadsTyped DEF SavedOnce, LaneReady, InTurn
  <2>3. /\ q \in Seq(MsgsTo(N)) /\ q # <<>> /\ \A i \in DOMAIN q : q[i][1] # "answer"
        /\ q[1][1] = "user" \/ AnswersIn(lane.session) = {}
    BY <2>2, LocalFacts
  <2> HIDE DEF q
  <2>4. /\ DOMAIN p = DOMAIN q \cup {Len(q) + 1} /\ Len(p) = Len(q) + 1
        /\ p[Len(q) + 1] = Answer(lane.turn)
        /\ \A i \in DOMAIN q : p[i] = q[i]
    <3>1. Answer(lane.turn) \in MsgsTo(N)
      BY <2>2 DEF MsgsTo
    <3>2. QED
      BY <2>3, <3>1, AppendFacts
  <2>5. 1 \in DOMAIN q
    <3>1. Len(q) \in Nat /\ DOMAIN q = 1..Len(q)
      BY <2>3, SeqElements
    <3>2. QED
      BY <2>3, <3>1, EmptySeq
  <2> HIDE DEF p
  <2>6. \A i \in DOMAIN p : p[i][1] = "answer" => i = Len(p) /\ p[i] = Answer(lane.turn)
    BY <2>3, <2>4
  <2>7. p[1][1] = "user" \/ AnswersIn(lane.session) = {}
    BY <2>3, <2>4, <2>5
  <2>8. MergesApart'
    BY <2>1, <2>2, <2>6, <2>7, CheckpointSaved
  <2>9. lane'.pc = "end" /\ lane'.turn = lane.turn /\ lane'.session = lane.session
    BY <1>5, LaneFields
  <2>10. QED
    BY <1>2, <2>1, <2>8, <2>9 DEF SessionsApart, LaneReady, InTurn
<1>6. CASE ~BeginTurn /\ ~CheckpointPreModel /\ ~ModelAnswers
  <2>1. QuietJournal
    BY <1>6, QuietSteps
  <2>2. CASE RestoreTurn
    <3> DEFINE t == First1(ToRestore(journal))
    <3>1. t \in ToRestore(journal) /\ ToRestore(journal') = {}
      BY <1>2, <2>2, MergeSettles
    <3>2. cache' = cache \o RestoredMessages(journal, t) /\ UNCHANGED disk
      BY <2>2 DEF RestoreTurn
    <3>3. RestoredMessages(journal, t) \in Seq(MsgsTo(N))
      BY <1>0, <3>1, TurnsTyped
    <3>4. Mergeable(RestoredMessages(journal, t), t, cache)
      BY <1>2, <3>1, RestoredMergeable
    <3> HIDE DEF t
    <3>5. Apart(cache')
      BY <1>0, <1>2, <3>2, <3>3, <3>4, MergeApart DEF SessionsApart
    <3>6. lane'.pc = "restoring"
      BY <2>2, LaneFields
    <3>7. QED
      BY <1>2, <3>1, <3>2, <3>5, <3>6, MergesNone DEF SessionsApart, LaneReady, InTurn
  <2>3. CASE SaveRestored
    <3>1. disk' = cache /\ cache' = cache
      BY <1>2, <2>3 DEF SaveRestored, SessionsApart
    <3>2. lane'.pc \in {"begin", "resume"} /\ lane'.session = cache
      BY <2>3, LaneFields
    <3>3. MergesApart'
      BY <1>2, <2>1, <3>1, MergesKept
    <3>4. QED
      BY <1>2, <3>1, <3>2, <3>3 DEF SessionsApart, LaneReady, InTurn
  <2>4. CASE NewSession
    <3>1. ToRestore(journal') = {}
      BY <1>2, <2>1, <2>4 DEF NewSession, QuietJournal, OpenTurns
    <3>2. disk' = <<>> /\ cache' = <<>> /\ lane'.pc = "reply"
      BY <2>4, LaneFields DEF NewSession
    <3>3. Apart(<<>>)
      BY DEF Apart
    <3>4. QED
      BY <3>1, <3>2, <3>3, MergesNone DEF SessionsApart, LaneReady, InTurn
  <2>5. CASE PersistTurn
    <3>1. ToRestore(journal') = {}
      BY <1>2, <2>1, <2>5 DEF PersistTurn, QuietJournal, OpenTurns
    <3>2. disk' = Append(lane.session, Answer(lane.turn)) /\ cache' = disk'
      BY <2>5 DEF PersistTurn
    <3>3. /\ Apart(lane.session) /\ Asked(lane.session)
          /\ Answer(lane.turn) \notin AnswersIn(lane.session)
          /\ lane.session \in Seq(MsgsTo(N)) /\ lane.turn \in 1..N
      BY <1>2, <2>5 DEF PersistTurn, LaneReady, InTurn, Typed, LaneTyped, Lanes
    <3>4. Answer(lane.turn) \in MsgsTo(N) /\ Answer(lane.turn)[1] = "answer"
      BY <3>3 DEF MsgsTo, Answer
    <3>5. Apart(disk')
      BY <3>2, <3>3, <3>4, AnswerAppended
    <3>6. lane'.pc \in {"close", "reply"}
      BY <2>5, LaneFields
    <3>7. QED
      BY <3>1, <3>2, <3>5, <3>6, MergesNone DEF SessionsApart, LaneReady, InTurn
  <2>6. CASE Crash
    <3>1. cache' = disk /\ UNCHANGED disk /\ lane'.pc = "idle"
      BY <2>6, LaneFields DEF Crash
    <3>2. MergesApart'
      <4>1. CASE lane.pc = "restoring"
        BY <1>2, <2>1, <4>1, MergesNone DEF QuietJournal, OpenTurns
      <4>2. CASE lane.pc # "restoring"
        BY <1>2, <2>1, <3>1, <4>2, MergesKept DEF SessionsApart
      <4>3. QED
        BY <4>1, <4>2
    <3>3. QED
      BY <1>2, <3>1, <3>2 DEF SessionsApart, LaneReady, InTurn
  <2>7. CASE EndTurn \/ PruneJournal \/ CompactLedger \/ ModelFails
    <3>1. UNCHANGED <<disk, cache>> /\ lane.pc # "restoring"
      BY <2>7 DEF EndTurn, PruneJournal, CompactLedger, ModelFails, stores
    <3>2. MergesApart'
      BY <1>2, <2>1, <3>1, MergesKept
    <3>3. /\ lane'.turn = lane.turn /\ lane'.session = lane.session
          /\ lane'.pc \in {"end", "prune", "compact", "persist"} /\ lane.pc \in InTurn
      BY <2>7, LaneFields DEF EndTurn, PruneJournal, CompactLedger, ModelFails, InTurn
    <3>4. QED
      BY <1>2, <3>1, <3>2, <3>3 DEF SessionsApart, LaneReady, InTurn
  <2>8. CASE \/ MarkProcessing \/ FindFinalAnswer \/ ModelPanics \/ TakeLock \/ PublishReply
             \/ CloseRequest \/ MarkDone \/ PublishClosed \/ Aborted \/ StartResume
    <3>1. UNCHANGED <<disk, cache>> /\ lane.pc # "restoring"
      BY <2>8 DEF MarkProcessing, FindFinalAnswer, ModelPanics, TakeLock, PublishReply, CloseRequest,
                  MarkDone, PublishClosed, Aborted, StartResume, stores
    <3>2. MergesApart'
      BY <1>2, <2>1, <3>1, MergesKept
    <3>3. lane'.pc \notin {"resume", "restoring"} \cup InTurn
      BY <2>8, LaneFields DEF InTurn
    <3>4. QED
      BY <1>2, <3>1, <3>2, <3>3 DEF SessionsApart, LaneReady, InTurn
  <2>9. CASE ~LaneStep /\ ~Crash /\ ~StartResume
    <3>1. SameLane /\ SameAnswers
      BY <2>9, OtherSteps
    <3>2. /\ Apart(disk') /\ Apart(cache') /\ AnswersIn(cache') = AnswersIn(cache)
          /\ lane.pc # "restoring" => cache' = disk'
      BY <1>2, <3>1, SameAnswersFacts
    <3>3. MergesApart'
      BY <1>2, <2>1, <3>2, MergesKept
    <3>4. QED
      BY <1>2, <3>1, <3>2, <3>3 DEF SameLane, SessionsApart, LaneReady
  <2>10. QED
    BY <1>6, <2>2, <2>3, <2>4, <2>5, <2>6, <2>7, <2>8, <2>9 DEF LaneStep
<1>7. QED
  BY <1>3, <1>4, <1>5, <1>6

LEMMA SavedHolds == Spec => []SavedOnce
<1>1. Init => SavedOnce
  <2> SUFFICES ASSUME Init PROVE SavedOnce
    OBVIOUS
  <2>1. OpenTurns
    BY DEF Init, OpenTurns, Idle, ToRestore, TurnsWith, Records
  <2>2. SessionsApart
    BY DEF Init, SessionsApart, Apart
  <2>3. LaneReady
    BY DEF Init, LaneReady, Idle, InTurn
  <2>4. MergesApart
    BY DEF Init, MergesApart, ToSet
  <2>5. QED
    BY <2>1, <2>2, <2>3, <2>4 DEF SavedOnce
<1>2. Typed /\ SavedOnce /\ [Next]_vars => SavedOnce'
  BY SavedOnceStep
<1>3. QED
  BY <1>1, <1>2, TypesHold, PTL DEF Spec

(* The answer of a turn is in the saved transcript and in its copy at most once,
   however kills, merges, resumes, /stop and /new fall between the checkpoint
   that holds it, the end of the turn and the save of the session. *)
THEOREM AnswersSavedOnce == Spec => []AnswerSavedOnce
<1>1. Typed /\ SavedOnce => AnswerSavedOnce
  <2> SUFFICES ASSUME Typed, SavedOnce, NEW s \in {disk, cache}, NEW i \in DOMAIN s, NEW k \in DOMAIN s,
                      s[i] = s[k], s[i][1] = "answer"
               PROVE  i = k
    BY DEF AnswerSavedOnce
  <2>1. Apart(s)
    BY DEF SavedOnce, SessionsApart
  <2>2. i \in Nat /\ k \in Nat
    <3>1. s \in Seq(MsgsTo(N))
      BY DEF Typed, StoresTyped
    <3>2. QED
      BY <3>1, SeqElements
  <2>3. ~(i < k) /\ ~(k < i)
    BY <2>1 DEF Apart
  <2>4. QED
    BY <2>2, <2>3
<1>2. QED
  BY <1>1, TypesHold, SavedHolds, PTL

--------------------------------------------------------------------------------
(* How often a request is tried.  What a step other than the start of a turn
   does to the turns of the journal: none comes back, and only a merge or the
   end of a turn settles one. *)

StartsIn(j) == {<<a.turn, a.req, a.attempt>> : a \in {b \in ToSet(j) : b.kind = "turn_start"}}

LEMMA OpensGrow ==
    ASSUME NEW j, NEW k, NEW E, ToSet(k) = ToSet(j) \cup E, \A a \in E : a.kind # "turn_start"
    PROVE  /\ Unfinished(k) \subseteq Unfinished(j) /\ StartsIn(k) \subseteq StartsIn(j)
           /\ (\A a \in E : ~Settles(a)) => ToRestore(j) \subseteq ToRestore(k)
<1>1. \A t : t \in TurnsWith(k, "turn_start") <=> t \in TurnsWith(j, "turn_start")
  BY TurnSets
<1>2. Ended(j) \subseteq Ended(k)
  BY TurnSets
<1>3. ASSUME \A a \in E : ~Settles(a) PROVE Settled(k) \subseteq Settled(j)
  BY <1>3, TurnSets
<1>4. StartsIn(k) \subseteq StartsIn(j)
  BY DEF StartsIn
<1>5. QED
  BY <1>1, <1>2, <1>3, <1>4 DEF Unfinished, ToRestore

LEMMA OpensWritten ==
    ASSUME NEW A, NEW rec \in A, journal \in Seq(A), Write(rec), rec.kind # "turn_start"
    PROVE  /\ Unfinished(journal') \subseteq Unfinished(journal)
           /\ StartsIn(journal') \subseteq StartsIn(journal)
           /\ ~Settles(rec) => ToRestore(journal) \subseteq ToRestore(journal')
<1>1. ToSet(journal') = ToSet(journal) \cup {rec}
  BY AppendFacts DEF Write
<1>2. \A a \in {rec} : a = rec
  OBVIOUS
<1> DEFINE E == {rec}
<1> HIDE DEF E
<1>3. ToSet(journal') = ToSet(journal) \cup E /\ \A a \in E : a = rec
  BY <1>1, <1>2 DEF E
<1>4. (\A a \in E : a.kind # "turn_start") /\ (~Settles(rec) => \A a \in E : ~Settles(a))
  BY <1>3
<1>5. QED
  BY <1>3, <1>4, OpensGrow

LEMMA OpensKilled ==
    ASSUME NEW n \in Nat, NEW j \in Seq(Recs(n))
    PROVE  /\ ToRestore(Killed(j)) = ToRestore(j)
           /\ Unfinished(Killed(j)) \subseteq Unfinished(j)
           /\ StartsIn(Killed(j)) \subseteq StartsIn(j)
<1>1. /\ DOMAIN Killed(j) = DOMAIN j /\ ToRestore(Killed(j)) = ToRestore(j)
      /\ \A i \in DOMAIN j : Killed(j)[i] = [j[i] EXCEPT !.live = FALSE] /\ j[i] \in Recs(n)
  BY KilledTyped
<1> DEFINE Like(b, a) == /\ b.kind = a.kind
                         /\ a.kind # "inbox" => b.turn = a.turn
                         /\ a.kind = "turn_start" => b.req = a.req /\ b.attempt = a.attempt
<1>2. \A i \in DOMAIN j : Like(Killed(j)[i], j[i])
  <2> TAKE i \in DOMAIN j
  <2>1. j[i] \in Recs(n) /\ Killed(j)[i] = [j[i] EXCEPT !.live = FALSE]
    BY <1>1
  <2>2. QED
    BY <2>1, KilledRec
<1> HIDE DEF Like
<1>3. /\ \A b \in ToSet(Killed(j)) : \E a \in ToSet(j) : Like(b, a)
      /\ \A a \in ToSet(j) : \E b \in ToSet(Killed(j)) : Like(b, a)
  BY <1>1, <1>2 DEF ToSet
<1>4. \A b, a : Like(b, a) => /\ b.kind = "turn_start" => a.kind = "turn_start" /\ b.turn = a.turn
                              /\ Ends(a) => Ends(b) /\ b.turn = a.turn
  BY DEF Like, Ends
<1>5. TurnsWith(Killed(j), "turn_start") \subseteq TurnsWith(j, "turn_start")
  BY <1>3, <1>4, TurnSets
<1>6. Ended(j) \subseteq Ended(Killed(j))
  <2> SUFFICES ASSUME NEW t \in Ended(j) PROVE t \in Ended(Killed(j))
    OBVIOUS
  <2>1. PICK a \in ToSet(j) : Ends(a) /\ a.turn = t
    BY TurnSets
  <2>2. PICK b \in ToSet(Killed(j)) : Like(b, a)
    BY <1>3
  <2>3. QED
    BY <1>4, <2>1, <2>2, TurnSets
<1>7. StartsIn(Killed(j)) \subseteq StartsIn(j)
  <2> SUFFICES ASSUME NEW b \in ToSet(Killed(j)), b.kind = "turn_start"
               PROVE  <<b.turn, b.req, b.attempt>> \in StartsIn(j)
    BY DEF StartsIn
  <2>1. PICK a \in ToSet(j) : Like(b, a)
    BY <1>3
  <2>2. a.kind = "turn_start" /\ <<b.turn, b.req, b.attempt>> = <<a.turn, a.req, a.attempt>>
    BY <2>1 DEF Like
  <2>3. QED
    BY <2>2 DEF StartsIn
<1>8. QED
  BY <1>1, <1>5, <1>6, <1>7 DEF Unfinished

LEMMA OpensSettled ==
    ASSUME OpenTurns, lane.pc \in {"prune", "compact", "begin"}
    PROVE  ToRestore(journal) = {} /\ Unfinished(journal) = {}
BY TurnSets DEF OpenTurns

LEMMA OpensRewritten ==
    ASSUME Typed, OpenTurns, PruneJournal \/ CompactLedger \/ NewSession
    PROVE  /\ Unfinished(journal') \subseteq Unfinished(journal)
           /\ StartsIn(journal') \subseteq StartsIn(journal)
           /\ ToRestore(journal) \subseteq ToRestore(journal')
<1>0. journal \in Seq(Recs(N))
  BY DEF Typed, StoresTyped
<1>1. ToRestore(journal) = {}
  BY OpensSettled DEF PruneJournal, CompactLedger, NewSession
<1>2. /\ ToRestore(journal') = {}
      /\ \A a \in ToSet(journal') : a.kind = "turn_start" => a \in ToSet(journal)
  <2>1. CASE PruneJournal
    <3>1. PrunedAt(journal) \subseteq DOMAIN journal
      BY DEF PrunedAt
    <3>2. ToSet(journal') = {journal[i] : i \in PrunedAt(journal)}
      BY <1>0, <2>1, <3>1, PrunedIs, ElementsOfPart DEF PruneJournal
    <3>3. ToRestore(journal') = {}
      BY <1>0, <1>1, <2>1, PrunedOpens DEF PruneJournal
    <3>4. QED
      BY <3>1, <3>2, <3>3 DEF ToSet
  <2>2. CASE CompactLedger
    <3>1. ToSet(journal') \subseteq {journal[i] : i \in OthersAt(journal)}
                                        \cup {EntryRecord(e) : e \in EntriesOf(journal)}
      BY <1>0, <2>2, CompactedRecords DEF CompactLedger
    <3>2. \A e : EntryRecord(e).kind = "inbox"
      BY EntryRecordIs
    <3>3. ToRestore(journal') = {}
      BY <1>0, <1>1, <2>2, CompactedOpens DEF CompactLedger
    <3>4. QED
      BY <3>1, <3>2, <3>3 DEF OthersAt, ToSet
  <2>3. CASE NewSession
    <3>1. journal' = <<>>
      BY <2>3 DEF NewSession
    <3>2. QED
      BY <3>1 DEF ToRestore, TurnsWith, Records, ToSet
  <2>4. QED
    BY <2>1, <2>2, <2>3
<1>3. Unfinished(journal') = {}
  BY <1>2, TurnSets
<1>4. QED
  BY <1>1, <1>2, <1>3 DEF StartsIn

LEMMA OpensSteps ==
    ASSUME Typed, OpenTurns, [Next]_vars, ~BeginTurn
    PROVE  /\ Unfinished(journal') \subseteq Unfinished(journal)
           /\ StartsIn(journal') \subseteq StartsIn(journal)
           /\ ~RestoreTurn /\ ~EndTurn => ToRestore(journal) \subseteq ToRestore(journal')
<1> DEFINE Opens == /\ Unfinished(journal') \subseteq Unfinished(journal)
                    /\ StartsIn(journal') \subseteq StartsIn(journal)
           Keeps == Opens /\ ToRestore(journal) \subseteq ToRestore(journal')
<1>0. N \in Nat /\ journal \in Seq(Recs(N))
  BY NIsNat DEF Typed, StoresTyped
<1>1. UNCHANGED journal => Keeps
  OBVIOUS
<1>2. \A r, s, o, m : Write(Inbox(r, s, o, m)) => Keeps
  <2> TAKE r, s, o, m
  <2>1. Inbox(r, s, o, m).kind = "inbox" /\ ~Settles(Inbox(r, s, o, m))
    BY DEF Inbox, Settles
  <2> DEFINE A == Recs(N) \cup {Inbox(r, s, o, m)}
  <2>2. journal \in Seq(A)
    BY <1>0, SeqMonotone
  <2>3. QED
    BY <2>1, <2>2, OpensWritten
<1>3. \A t, o : Write(TurnEnd(t, o)) => Opens /\ (o \in {"cancelled", "abandoned"} => Keeps)
  <2> TAKE t, o
  <2>1. /\ TurnEnd(t, o).kind = "turn_end"
        /\ o \in {"cancelled", "abandoned"} => ~Settles(TurnEnd(t, o))
    BY DEF TurnEnd, Settles
  <2> DEFINE A == Recs(N) \cup {TurnEnd(t, o)}
  <2>2. journal \in Seq(A)
    BY <1>0, SeqMonotone
  <2>3. QED
    BY <2>1, <2>2, OpensWritten
<1>4. \A t, p : Write(StepCheckpoint(t, p)) => Keeps
  <2> TAKE t, p
  <2>1. StepCheckpoint(t, p).kind = "step_checkpoint" /\ ~Settles(StepCheckpoint(t, p))
    BY DEF StepCheckpoint, Settles
  <2> DEFINE A == Recs(N) \cup {StepCheckpoint(t, p)}
  <2>2. journal \in Seq(A)
    BY <1>0, SeqMonotone
  <2>3. QED
    BY <2>1, <2>2, OpensWritten
<1>5. \A t : Write(TurnRestored(t)) => Opens
  <2> TAKE t
  <2>1. TurnRestored(t).kind = "turn_restored"
    BY DEF TurnRestored
  <2> DEFINE A == Recs(N) \cup {TurnRestored(t)}
  <2>2. journal \in Seq(A)
    BY <1>0, SeqMonotone
  <2>3. QED
    BY <2>1, <2>2, OpensWritten
<1>6. \A E : (/\ ToSet(journal') = ToSet(journal) \cup E
              /\ \A a \in E : a.kind # "turn_start" /\ ~Settles(a)) => Keeps
  BY OpensGrow
<1>7. CASE Crash
  <2>1. journal' = Killed(journal)
    BY <1>7 DEF Crash, Killed
  <2>2. QED
    BY <1>0, <2>1, OpensKilled
<1>8. CASE PruneJournal \/ CompactLedger \/ NewSession
  BY <1>8, OpensRewritten
<1> HIDE DEF Keeps, Opens
<1>9. ASSUME NEW r \in Reqs, PublishNew(r) \/ PublishDuplicate(r) PROVE Keeps
  BY <1>1, <1>2, <1>9 DEF PublishNew, PublishDuplicate
<1>10. CASE Consume
  <2>1. CASE ConsumeStop
    <3>1. journal' = journal \o Closing(Pending(journal))
      BY <2>1 DEF ConsumeStop, PendingClosed, Closing
    <3>2. Closing(Pending(journal)) \in Seq(InboxRecs(N))
      BY <1>0, ClosingFacts
    <3>3. Closing(Pending(journal)) \in Seq(Recs(N)) /\ ToSet(Closing(Pending(journal))) \subseteq InboxRecs(N)
      BY <3>2, SeqMonotone, ToSetIs DEF Recs
    <3>4. \A a \in ToSet(Closing(Pending(journal))) : a.kind # "turn_start" /\ ~Settles(a)
      BY <3>3 DEF InboxRecs, Settles
    <3> DEFINE E == ToSet(Closing(Pending(journal)))
    <3>5. ToSet(journal') = ToSet(journal) \cup E
      BY <1>0, <3>1, <3>3, ConcatFacts
    <3> HIDE DEF E
    <3>6. QED
      BY <1>6, <3>4, <3>5 DEF E, Keeps, Opens
  <2>2. QED
    BY <1>1, <1>10, <2>1 DEF Consume, ConsumePrompt, ConsumeStatus, stores, Keeps, Opens
<1>11. CASE LaneStep
  <2>1. CASE MarkProcessing \/ MarkDone \/ CloseRequest
    BY <1>1, <1>2, <2>1 DEF MarkProcessing, MarkDone, CloseRequest, Keeps, Opens
  <2>2. CASE CheckpointPreModel \/ ModelAnswers
    BY <1>4, <2>2 DEF CheckpointPreModel, ModelAnswers, Keeps, Opens
  <2>3. CASE RestoreTurn
    BY <1>5, <2>3 DEF RestoreTurn, Opens
  <2>4. CASE EndTurn
    BY <1>3, <2>4 DEF EndTurn, Opens
  <2>5. CASE Aborted
    BY <1>1, <1>3, <2>5 DEF Aborted, Keeps, Opens
  <2>6. CASE TakeLock \/ SaveRestored \/ FindFinalAnswer \/ ModelFails \/ ModelPanics \/ PersistTurn
              \/ PublishReply \/ PublishClosed
    BY <1>1, <2>6
       DEF TakeLock, SaveRestored, FindFinalAnswer, ModelFails, ModelPanics, PersistTurn,
           PublishReply, PublishClosed, stores, Keeps, Opens
  <2>7. QED
    BY <1>8, <1>11, <2>1, <2>2, <2>3, <2>4, <2>5, <2>6 DEF LaneStep, Keeps, Opens
<1>12. CASE StartupStep
  <2>1. ASSUME NEW S \in SUBSET (1..N), journal' = journal \o Abandon(S) PROVE Keeps
    <3>1. ToSet(journal') = ToSet(journal) \cup {TurnEnd(t, "abandoned") : t \in S}
      BY <1>0, <2>1, AbandonFacts
    <3>2. \A t : TurnEnd(t, "abandoned").kind # "turn_start" /\ ~Settles(TurnEnd(t, "abandoned"))
      BY DEF TurnEnd, Settles
    <3> DEFINE E == {TurnEnd(t, "abandoned") : t \in S}
    <3>3. \A a \in E : a.kind # "turn_start" /\ ~Settles(a)
      BY <3>2
    <3> HIDE DEF E
    <3>4. QED
      BY <1>6, <3>1, <3>3 DEF E
  <2>2. Interrupted(journal) \in SUBSET (1..N) /\ ToAbandon(journal) \in SUBSET (1..N)
    BY <1>0, PlansTyped
  <2>3. CASE PlanResumes
    <3>1. journal' = journal \o Abandon(ToAbandon(journal))
      BY <2>3 DEF PlanResumes, Abandon
    <3>2. QED
      BY <2>1, <2>2, <3>1 DEF Keeps, Opens
  <2>4. CASE PlanStale
    <3>1. journal' = journal \o Abandon(Interrupted(journal) \ {Newest(Interrupted(journal))})
      BY <2>4 DEF PlanStale, Abandon
    <3>2. Interrupted(journal) \ {Newest(Interrupted(journal))} \in SUBSET (1..N)
      BY <2>2
    <3>3. QED
      BY <2>1, <3>1, <3>2 DEF Keeps, Opens
  <2>5. CASE RedriveEntry
    BY <1>1, <1>2, <2>5 DEF RedriveEntry, Keeps, Opens
  <2>6. CASE StartResume \/ PlanRedrive \/ RedriveFinished
    BY <1>1, <2>6 DEF StartResume, PlanRedrive, RedriveFinished, stores, Keeps, Opens
  <2>7. QED
    BY <1>12, <2>3, <2>4, <2>5, <2>6 DEF StartupStep
<1>13. CASE UNCHANGED vars
  BY <1>1, <1>13 DEF vars, stores, Keeps, Opens
<1>14. QED
  BY <1>7, <1>8, <1>9, <1>10, <1>11, <1>12, <1>13 DEF Next, Publish, SystemStep, Keeps, Opens

(* The counts of turns: a request has tries only while a turn of it is open or
   being continued, an open turn knows how often its request was tried, and
   what startup or the lane is about to resume is within the limit. *)
StartsTell ==
    \A s \in StartsIn(journal) : s[1] \in DOMAIN turns /\ turns[s[1]] = [req |-> s[2], attempt |-> s[3]]
HasOpen(r) == \E t \in ToRestore(journal) : turns[t].req = r
Merging(r) == lane.resumed /\ lane.req = r /\ lane.pc \in {"restoring", "resume"}
TriesHaveTurn == \A r \in Reqs : streak[r] > 0 => HasOpen(r) \/ Merging(r)
TurnsTellTries == \A t \in Unfinished(journal) : streak[turns[t].req] <= turns[t].attempt + 1
Retried(r, a) == a \in 1..MaxAttempts /\ streak[r] <= a
LaneTells ==
    /\ lane.pc \in InTurn => turns[lane.turn].req = lane.req
    /\ lane.pc \in {"locked", "begin"} => ~lane.resumed
    /\ lane.resumed => startup.pc = "resuming"
    /\ lane.resumed /\ lane.pc \in {"restore", "restoring", "resume"} => Retried(lane.req, lane.attempt)
StartupTells == startup.pc = "resume" => Retried(startup.req, startup.attempt)
TriesBounded == \A r \in Reqs : streak[r] <= 1 + MaxAttempts
Counted == StartsTell /\ TriesHaveTurn /\ TurnsTellTries /\ LaneTells /\ StartupTells /\ TriesBounded

LEMMA TurnsSame ==
    ASSUME [Next]_vars, ~BeginTurn
    PROVE  turns' = turns
BY DEF Next, vars, history, Publish, PublishNew, PublishDuplicate, Deliver, SystemStep, Consume,
       ConsumePrompt, ConsumeStatus, ConsumeStop, LaneStep, TakeLock, MarkProcessing, RestoreTurn,
       SaveRestored, FindFinalAnswer, NewSession, CheckpointPreModel, ModelAnswers, ModelFails,
       ModelPanics, EndTurn, PruneJournal, CompactLedger, PersistTurn, PublishReply, MarkDone,
       CloseRequest, PublishClosed, Aborted, StartupStep, PlanResumes, PlanStale, StartResume,
       PlanRedrive, RedriveEntry, RedriveFinished, Crash

LEMMA StreakSame ==
    ASSUME [Next]_vars, ~BeginTurn, ~RestoreTurn, ~EndTurn, ~FindFinalAnswer, ~Crash,
           \A r \in Reqs : ~PublishNew(r)
    PROVE  streak' = streak
BY DEF Next, vars, history, Publish, PublishDuplicate, SystemStep, Consume,
       ConsumePrompt, ConsumeStatus, ConsumeStop, LaneStep, TakeLock, MarkProcessing,
       SaveRestored, NewSession, CheckpointPreModel, ModelAnswers, ModelFails,
       ModelPanics, PruneJournal, CompactLedger, PersistTurn, PublishReply, MarkDone,
       CloseRequest, PublishClosed, Aborted, StartupStep, PlanResumes, PlanStale, StartResume,
       PlanRedrive, RedriveEntry, RedriveFinished

(* The startup task moves on by itself, or when the turn it resumed is over. *)
LEMMA StartupSame ==
    ASSUME [Next]_vars, ~StartupStep, ~Crash, ~ModelPanics, ~PublishClosed
    PROVE  startup' = startup
BY DEF Next, vars, Publish, PublishNew, PublishDuplicate, Deliver, SystemStep, Consume,
       ConsumePrompt, ConsumeStatus, ConsumeStop, laneOnly, LaneStep, TakeLock, MarkProcessing,
       RestoreTurn, SaveRestored, FindFinalAnswer, BeginTurn, Begin, NewSession, CheckpointPreModel,
       ModelAnswers, ModelFails, EndTurn, PruneJournal, CompactLedger, PersistTurn, PublishReply,
       MarkDone, CloseRequest, Aborted

LEMMA StartupFields ==
    ASSUME Typed, [Next]_vars
    PROVE  /\ startup'.pc = "resume" =>
                 \/ PlanResumes
                 \/ /\ startup.pc = "resume"
                    /\ startup'.req = startup.req /\ startup'.attempt = startup.attempt
           /\ startup.pc = "resuming" =>
                 \/ startup'.pc = "resuming"
                 \/ Crash
                 \/ lane.resumed /\ (ModelPanics \/ PublishClosed)
<1>1. startup \in Startups(N)
  BY DEF Typed, StartupTyped
<1>2. CASE startup' = startup
  BY <1>2
<1>3. CASE Crash
  BY <1>3 DEF Crash, NoTurn
<1>4. CASE ModelPanics \/ PublishClosed
  BY <1>1, <1>4 DEF ModelPanics, PublishClosed, Startups
<1>5. CASE StartupStep
  <2>1. PlanResumes => startup.pc = "plan"
    BY DEF PlanResumes
  <2>2. PlanStale => startup.pc = "plan" /\ startup'.pc = "redrive"
    BY <1>1 DEF PlanStale, Startups
  <2>3. StartResume => startup.pc = "resume" /\ startup'.pc = "resuming"
    BY <1>1 DEF StartResume, Startups
  <2>4. RedriveEntry => startup.pc = "redriving" /\ startup'.pc = "redriving"
    <3> SUFFICES ASSUME RedriveEntry PROVE startup.pc = "redriving" /\ startup'.pc = "redriving"
      OBVIOUS
    <3>1. startup.pc = "redriving" /\ startup' = [startup EXCEPT !.todo = Tail(@)]
      BY DEF RedriveEntry
    <3>2. startup'.pc = startup.pc
      BY <1>1, <3>1 DEF Startups
    <3>3. QED
      BY <3>1, <3>2
  <2>5. PlanRedrive => startup.pc = "redrive" /\ startup'.pc = "redriving"
    BY DEF PlanRedrive, NoTurn
  <2>6. RedriveFinished => startup.pc = "redriving" /\ startup'.pc = "done"
    BY DEF RedriveFinished, NoTurn
  <2>7. QED
    BY <1>5, <2>1, <2>2, <2>3, <2>4, <2>5, <2>6 DEF StartupStep
<1>6. QED
  BY <1>2, <1>3, <1>4, <1>5, StartupSame

LEMMA OtherAttempt ==
    ASSUME Typed, [Next]_vars, ~LaneStep, ~Crash, ~StartResume
    PROVE  lane'.attempt = lane.attempt
<1>1. lane \in Lanes(N)
  BY DEF Typed, LaneTyped
<1>2. CASE ConsumeStop
  BY <1>1, <1>2 DEF ConsumeStop, Lanes
<1>3. CASE ~ConsumeStop
  BY <1>3
     DEF Next, vars, Publish, PublishNew, PublishDuplicate, Deliver, SystemStep, Consume, ConsumePrompt,
         ConsumeStatus, StartupStep, PlanResumes, PlanStale, PlanRedrive, RedriveEntry, RedriveFinished
<1>4. QED
  BY <1>2, <1>3

LEMMA CountedDown ==
    ASSUME Typed, Typed', [Next]_vars, Counted, turns' = turns, \A r \in Reqs : streak'[r] <= streak[r],
           Unfinished(journal') \subseteq Unfinished(journal), StartsIn(journal') \subseteq StartsIn(journal)
    PROVE  /\ StartsTell' /\ TurnsTellTries' /\ TriesBounded'
           /\ \A r \in Reqs : \A a : Retried(r, a) => a \in 1..MaxAttempts /\ streak'[r] <= a
           /\ startup' = startup \/ ~PlanResumes => StartupTells'
<1>1. \A r \in Reqs : streak[r] \in Nat /\ streak'[r] \in Nat
  BY DEF Typed, CountsTyped
<1>2. \A t \in Unfinished(journal) : turns[t].req \in Reqs /\ turns[t].attempt \in Nat
  <2> TAKE t \in Unfinished(journal)
  <2>1. N \in Nat /\ journal \in Seq(Recs(N)) /\ DOMAIN turns = 1..N
    BY NIsNat DEF Typed, StoresTyped
  <2>2. t \in DOMAIN turns
    BY <2>1, TurnsTyped
  <2>3. turns[t] \in [req : Prompts, attempt : Nat]
    BY <2>2, SeqElements DEF Typed, CountsTyped
  <2>4. QED
    BY <2>3 DEF Reqs, Dispatched
<1>3. StartsTell'
  <2>1. \A s \in StartsIn(journal') :
           s[1] \in DOMAIN turns /\ turns[s[1]] = [req |-> s[2], attempt |-> s[3]]
    BY DEF Counted, StartsTell
  <2>2. \A s \in StartsIn(journal') :
           s[1] \in DOMAIN turns' /\ turns'[s[1]] = [req |-> s[2], attempt |-> s[3]]
    BY <2>1
  <2>3. QED
    BY <2>2 DEF StartsTell
<1>4. TurnsTellTries'
  <2> SUFFICES ASSUME NEW t \in Unfinished(journal') PROVE streak'[turns[t].req] <= turns[t].attempt + 1
    BY DEF TurnsTellTries
  <2>1. t \in Unfinished(journal) /\ turns[t].req \in Reqs /\ turns[t].attempt \in Nat
    BY <1>2
  <2>2. streak[turns[t].req] <= turns[t].attempt + 1
    BY <2>1 DEF Counted, TurnsTellTries
  <2>3. QED
    BY <1>1, <2>1, <2>2
<1>5. TriesBounded'
  BY <1>1, LimitsAssumption DEF Counted, TriesBounded
<1>6. \A r \in Reqs : \A a : Retried(r, a) => a \in 1..MaxAttempts /\ streak'[r] <= a
  BY <1>1, LimitsAssumption DEF Retried
<1>7. startup' = startup \/ ~PlanResumes => StartupTells'
  <2> SUFFICES ASSUME startup' = startup \/ ~PlanResumes, startup'.pc = "resume"
               PROVE  startup'.attempt \in 1..MaxAttempts /\ streak'[startup'.req] <= startup'.attempt
    BY DEF StartupTells, Retried
  <2>1. startup.pc = "resume" /\ startup'.req = startup.req /\ startup'.attempt = startup.attempt
    BY StartupFields DEF PlanResumes
  <2>2. Retried(startup.req, startup.attempt) /\ startup.req \in Reqs
    BY <2>1 DEF Counted, StartupTells, Typed, StartupTyped, Reqs, Dispatched
  <2>3. QED
    BY <1>6, <2>1, <2>2
<1>8. QED
  BY <1>3, <1>4, <1>5, <1>6, <1>7

(* The kinds of step: a turn starts; an open turn is merged or ends; the ledger
   accepts a request; a kill; the rest, which leaves the counts alone. *)
LEMMA CountedBegin ==
    ASSUME Typed, OpenTurns, Counted, BeginTurn
    PROVE  Counted'
<1> DEFINE q == lane.req
           a == lane.attempt
<1>0. /\ N \in Nat /\ DOMAIN turns = 1..N /\ journal \in Seq(Recs(N))
      /\ streak \in [Reqs -> Nat] /\ turns \in Seq([req : Prompts, attempt : Nat])
  BY NIsNat DEF Typed, StoresTyped, CountsTyped
<1>1. /\ lane.pc \in {"begin", "resume"} /\ q \in Prompts /\ q \in Reqs
      /\ \E session \in Seq(MsgsTo(N)) : Begin(session)
  BY BeginTurnIs DEF Reqs, Dispatched
<1>2. PICK session \in Seq(MsgsTo(N)) : Begin(session)
  BY <1>1
<1>3. a \in Nat /\ lane \in Lanes(N)
  BY DEF Typed, LaneTyped, Lanes
<1> DEFINE rec == TurnStart(N + 1, q, a, UserMessage(ChatHistory(session)))
<1>4. /\ journal' = Append(journal, rec) /\ turns' = Append(turns, [req |-> q, attempt |-> a])
      /\ streak' = [streak EXCEPT ![q] = @ + 1] /\ startup' = startup
      /\ lane' = [lane EXCEPT !.pc = "pre_model", !.turn = N + 1, !.session = session]
  BY <1>2 DEF Begin, Write, N, laneOnly
<1>5. rec.kind = "turn_start" /\ rec.turn = N + 1 /\ rec.req = q /\ rec.attempt = a
  BY DEF TurnStart
<1> HIDE DEF rec
<1>6. ToSet(journal') = ToSet(journal) \cup {rec}
  <2> DEFINE A == Recs(N) \cup {rec}
  <2>1. journal \in Seq(A) /\ rec \in A
    BY <1>0, SeqMonotone
  <2>2. QED
    BY <1>4, <2>1, AppendFacts
<1>7. /\ turns'[N + 1] = [req |-> q, attempt |-> a] /\ DOMAIN turns' = 1..(N + 1)
      /\ \A t \in 1..N : turns'[t] = turns[t]
  BY <1>0, <1>4 DEF N
<1>8. /\ ToRestore(journal) = {} /\ ToRestore(journal') \subseteq {N + 1}
      /\ Unfinished(journal') \subseteq {N + 1}
  BY <1>1, BeginOpens, TurnSets DEF OpenTurns
<1>9. /\ lane'.pc = "pre_model" /\ lane'.turn = N + 1 /\ lane'.req = q /\ lane'.resumed = lane.resumed
  BY <1>3, <1>4 DEF Lanes
<1>10. StartsTell'
  <2> SUFFICES ASSUME NEW s \in StartsIn(journal')
               PROVE  s[1] \in DOMAIN turns' /\ turns'[s[1]] = [req |-> s[2], attempt |-> s[3]]
    BY DEF StartsTell
  <2>1. CASE s \in StartsIn(journal)
    <3>1. s[1] \in DOMAIN turns /\ turns[s[1]] = [req |-> s[2], attempt |-> s[3]]
      BY <2>1 DEF Counted, StartsTell
    <3>2. QED
      BY <1>0, <1>7, <3>1
  <2>2. CASE s = <<N + 1, q, a>>
    BY <1>0, <1>7, <2>2
  <2>3. s \in StartsIn(journal) \/ s = <<N + 1, q, a>>
    BY <1>5, <1>6 DEF StartsIn
  <2>4. QED
    BY <2>1, <2>2, <2>3
<1>11. /\ \A r \in Reqs : streak[r] > 0 => Merging(r)
       /\ streak[q] <= a /\ streak[q] <= MaxAttempts
       /\ lane.pc = "begin" => streak[q] = 0
  <2>1. \A r \in Reqs : streak[r] \in Nat /\ (streak[r] > 0 => Merging(r))
    BY <1>0, <1>8 DEF Counted, TriesHaveTurn, HasOpen
  <2>2. CASE lane.pc = "begin"
    BY <1>1, <1>3, <2>1, <2>2, LimitsAssumption DEF Merging
  <2>3. CASE lane.pc = "resume"
    <3>1. Retried(q, a)
      BY <2>3 DEF Counted, LaneTells, Typed, LaneTyped
    <3>2. QED
      BY <1>1, <2>1, <2>3, <3>1, LimitsAssumption DEF Retried
  <2>4. QED
    BY <1>1, <2>1, <2>2, <2>3
<1>12. /\ streak'[q] = streak[q] + 1 /\ \A r \in Reqs \ {q} : streak'[r] = streak[r]
  BY <1>0, <1>1, <1>4
<1>13. TriesHaveTurn'
  <2>1. N + 1 \in ToRestore(journal')
    <3>1. N + 1 \in TurnsWith(journal', "turn_start")
      BY <1>5, <1>6, TurnSets
    <3>2. \A b \in ToSet(journal) : Settles(b) => b.turn \in 1..N
      <4>1. ToSet(journal) \subseteq Recs(N)
        BY <1>0, ToSetIs
      <4>2. QED
        BY <4>1, RecKinds DEF Settles
    <3>3. N + 1 \notin Settled(journal')
      <4>1. ~Settles(rec)
        BY <1>5 DEF Settles
      <4>2. ~(N + 1 \in 1..N)
        BY <1>0
      <4>3. QED
        BY <1>6, <3>2, <4>1, <4>2, TurnSets
    <3>4. QED
      BY <3>1, <3>3 DEF ToRestore
  <2>2. turns'[N + 1].req = q
    BY <1>7
  <2>3. \E t \in ToRestore(journal') : turns'[t].req = q
    BY <2>1, <2>2
  <2>4. \A r \in Reqs \ {q} : ~(streak[r] > 0)
    BY <1>11 DEF Merging
  <2>5. QED
    BY <1>12, <2>3, <2>4 DEF TriesHaveTurn, HasOpen
<1>14. TurnsTellTries'
  <2>1. turns'[N + 1].req = q /\ turns'[N + 1].attempt = a
    BY <1>7
  <2>2. streak'[q] <= a + 1
    BY <1>0, <1>1, <1>3, <1>11, <1>12
  <2>3. \A t \in Unfinished(journal') : t = N + 1
    BY <1>8
  <2>4. QED
    BY <2>1, <2>2, <2>3 DEF TurnsTellTries
<1>15. LaneTells'
  <2>1. turns'[lane'.turn].req = lane'.req
    BY <1>7, <1>9
  <2>2. lane'.resumed => startup'.pc = "resuming"
    BY <1>4, <1>9 DEF Counted, LaneTells
  <2>3. QED
    BY <1>9, <2>1, <2>2 DEF LaneTells
<1>16. StartupTells'
  <2> SUFFICES ASSUME startup.pc = "resume" PROVE Retried(startup.req, startup.attempt)'
    BY <1>4 DEF StartupTells
  <2>1. Retried(startup.req, startup.attempt) /\ startup.req \in Reqs
    BY DEF Counted, StartupTells, Typed, StartupTyped, Reqs, Dispatched
  <2>2. ~lane.resumed
    BY DEF Counted, LaneTells
  <2>3. lane.pc = "begin"
    BY <1>1, <2>2 DEF Typed, LaneTyped
  <2>4. streak'[startup.req] <= startup.attempt
    <3>1. CASE startup.req = q
      BY <1>11, <1>12, <2>1, <2>3, <3>1, LimitsAssumption DEF Retried
    <3>2. CASE startup.req # q
      BY <1>12, <2>1, <3>2 DEF Retried
    <3>3. QED
      BY <3>1, <3>2
  <2>5. QED
    BY <1>4, <2>1, <2>4 DEF Retried
<1>17. TriesBounded'
  <2>1. \A r \in Reqs : streak[r] \in Nat /\ streak[r] <= 1 + MaxAttempts
    BY <1>0 DEF Counted, TriesBounded
  <2>2. streak'[q] <= 1 + MaxAttempts
    BY <1>1, <1>11, <1>12, <2>1, LimitsAssumption
  <2>3. QED
    BY <1>12, <2>1, <2>2 DEF TriesBounded
<1>18. QED
  BY <1>10, <1>13, <1>14, <1>15, <1>16, <1>17 DEF Counted

LEMMA CountedMerge ==
    ASSUME Typed, Typed', OpenTurns, Counted, RestoreTurn, [Next]_vars
    PROVE  Counted'
<1> DEFINE t == First1(ToRestore(journal))
           q == turns[t].req
<1>0. /\ N \in Nat /\ DOMAIN turns = 1..N /\ streak \in [Reqs -> Nat]
      /\ turns \in Seq([req : Prompts, attempt : Nat]) /\ lane \in Lanes(N)
  BY NIsNat DEF Typed, CountsTyped, LaneTyped
<1>1. /\ t \in ToRestore(journal) /\ t \in 1..N /\ ToRestore(journal') = {}
      /\ \A u \in ToRestore(journal) : u = t
  BY MergeSettles DEF OpenTurns
<1>2. /\ streak' = IF lane.resumed /\ lane.req = q THEN streak ELSE [streak EXCEPT ![q] = 0]
      /\ startup' = startup /\ turns' = turns
      /\ lane.pc \in {"restore", "restoring"} /\ lane' = [lane EXCEPT !.pc = "restoring"]
  BY DEF RestoreTurn, MergedFor, laneOnly, Goto
<1>3. /\ lane'.pc = "restoring" /\ lane'.req = lane.req /\ lane'.resumed = lane.resumed
      /\ lane'.attempt = lane.attempt
  BY <1>0, <1>2 DEF Lanes
<1> HIDE DEF t
<1>4. q \in Reqs
  <2>1. turns[t] \in [req : Prompts, attempt : Nat]
    BY <1>0, <1>1, SeqElements
  <2>2. QED
    BY <2>1 DEF Reqs, Dispatched
<1> HIDE DEF q
<1>5. /\ \A r \in Reqs : streak'[r] <= streak[r]
      /\ \A r \in Reqs : streak'[r] > 0 => streak[r] > 0 /\ (r = q => lane.resumed /\ lane.req = q)
  BY <1>0, <1>2, <1>4
<1>6. /\ StartsTell' /\ TurnsTellTries' /\ TriesBounded'
      /\ \A r \in Reqs : \A a : Retried(r, a) => a \in 1..MaxAttempts /\ streak'[r] <= a
      /\ startup' = startup \/ ~PlanResumes => StartupTells'
  <2>1. ~BeginTurn
    BY <1>2, BeginTurnIs
  <2>2. Unfinished(journal') \subseteq Unfinished(journal) /\ StartsIn(journal') \subseteq StartsIn(journal)
    BY <2>1, OpensSteps
  <2>3. QED
    BY <1>2, <1>5, <2>2, CountedDown
<1>7. TriesHaveTurn'
  <2> SUFFICES ASSUME NEW r \in Reqs, streak'[r] > 0 PROVE lane.resumed /\ lane.req = r
    BY <1>3 DEF TriesHaveTurn, Merging
  <2>1. HasOpen(r) \/ Merging(r)
    BY <1>5 DEF Counted, TriesHaveTurn
  <2>2. HasOpen(r) => r = q
    BY <1>1 DEF HasOpen, q
  <2>3. QED
    BY <1>5, <2>1, <2>2 DEF Merging
<1>8. LaneTells'
  <2>1. lane.resumed => Retried(lane.req, lane.attempt) /\ startup.pc = "resuming" /\ lane.req \in Reqs
    BY <1>2 DEF Counted, LaneTells, Typed, LaneTyped, Reqs, Dispatched
  <2>2. lane'.resumed => lane'.attempt \in 1..MaxAttempts /\ streak'[lane'.req] <= lane'.attempt
    BY <1>3, <1>6, <2>1 DEF Retried
  <2>3. QED
    BY <1>2, <1>3, <2>1, <2>2 DEF LaneTells, Retried, InTurn
<1>9. StartupTells'
  BY <1>2, <1>6
<1>10. QED
  BY <1>6, <1>7, <1>8, <1>9 DEF Counted

(* What a step makes of the lane: free, taken by a message or by the resume, or
   the same request at another place. *)
LaneOn ==
    /\ lane'.req = lane.req /\ lane'.resumed = lane.resumed /\ lane'.attempt = lane.attempt
    /\ \/ lane'.pc = lane.pc /\ lane'.turn = lane.turn
       \/ MarkProcessing /\ lane.pc = "locked" /\ lane'.pc = "restore"
       \/ RestoreTurn /\ lane.pc \in {"restore", "restoring"} /\ lane'.pc = "restoring"
       \/ /\ SaveRestored /\ lane.pc \in {"restore", "restoring"}
          /\ lane'.pc = IF lane.resumed THEN "resume" ELSE "begin"
       \/ BeginTurn /\ lane.pc \in {"begin", "resume"} /\ lane'.pc = "pre_model"
       \/ lane.pc \in InTurn /\ lane'.pc \in InTurn /\ lane'.turn = lane.turn
       \/ FindFinalAnswer /\ lane.pc = "resume" /\ lane'.pc = "close"
       \/ NewSession /\ lane.pc = "begin" /\ lane'.pc = "reply"
       \/ ModelPanics /\ lane.pc = "model" /\ ~lane.resumed /\ lane'.pc = "close"
       \/ PersistTurn /\ lane.pc = "persist" /\ lane'.pc = IF lane.resumed THEN "close" ELSE "reply"
       \/ PublishReply /\ lane.pc = "reply" /\ lane'.pc = "mark_done"
       \/ CloseRequest /\ lane.pc = "close" /\ lane'.pc = "publish"

LEMMA LaneMoves ==
    ASSUME Typed, [Next]_vars
    PROVE  \/ lane' = Idle /\ (MarkDone \/ PublishClosed \/ ModelPanics \/ Aborted \/ Crash)
           \/ TakeLock /\ lane.pc = "idle" /\ lane'.pc = "locked" /\ ~lane'.resumed
           \/ /\ StartResume /\ lane.pc = "idle" /\ lane'.pc = "restore" /\ lane'.resumed
              /\ lane'.req = startup.req /\ lane'.attempt = startup.attempt
           \/ LaneOn
<1>0. lane \in Lanes(N) /\ Idle.resumed = FALSE
  BY DEF Typed, LaneTyped, Idle
<1>1. CASE Crash \/ MarkDone \/ PublishClosed \/ Aborted
  BY <1>1 DEF Crash, MarkDone, PublishClosed, Aborted
<1>2. CASE TakeLock
  BY <1>2 DEF TakeLock, Idle
<1>3. CASE StartResume
  BY <1>3 DEF StartResume, Idle
<1>4. \A p : Goto(p) => /\ lane'.pc = p /\ lane'.req = lane.req /\ lane'.resumed = lane.resumed
                        /\ lane'.attempt = lane.attempt /\ lane'.turn = lane.turn
  BY <1>0 DEF Goto, Lanes
<1>5. CASE MarkProcessing
  BY <1>4, <1>5 DEF MarkProcessing, LaneOn
<1>6. CASE RestoreTurn
  BY <1>4, <1>6 DEF RestoreTurn, LaneOn
<1>7. CASE SaveRestored
  BY <1>0, <1>7 DEF SaveRestored, LaneOn, Lanes
<1>8. CASE BeginTurn
  <2>1. PICK s \in Seq(MsgsTo(N)) : Begin(s)
    BY <1>8, BeginTurnIs
  <2>2. lane' = [lane EXCEPT !.pc = "pre_model", !.turn = Len(turns) + 1, !.session = s]
    BY <2>1 DEF Begin
  <2>3. /\ lane'.pc = "pre_model" /\ lane'.req = lane.req /\ lane'.resumed = lane.resumed
        /\ lane'.attempt = lane.attempt
    BY <1>0, <2>2 DEF Lanes
  <2>4. lane.pc \in {"begin", "resume"}
    BY <1>8, BeginTurnIs
  <2>5. QED
    BY <1>8, <2>3, <2>4 DEF LaneOn
<1>9. CASE FindFinalAnswer
  BY <1>0, <1>9 DEF FindFinalAnswer, LaneOn, Lanes
<1>10. CASE NewSession \/ PersistTurn \/ PublishReply \/ CloseRequest
  BY <1>4, <1>10 DEF NewSession, PersistTurn, PublishReply, CloseRequest, LaneOn
<1>11. CASE ModelPanics
  <2>1. CASE lane.resumed
    BY <1>11, <2>1 DEF ModelPanics
  <2>2. CASE ~lane.resumed
    <3>1. lane' = [lane EXCEPT !.pc = "close", !.turn = 0] /\ lane.pc = "model"
      BY <1>11, <2>2 DEF ModelPanics
    <3>2. /\ lane'.pc = "close" /\ lane'.req = lane.req /\ lane'.resumed = lane.resumed
          /\ lane'.attempt = lane.attempt
      BY <1>0, <3>1 DEF Lanes
    <3>3. QED
      BY <1>11, <2>2, <3>1, <3>2 DEF LaneOn
  <2>3. QED
    BY <2>1, <2>2
<1>12. CASE CheckpointPreModel \/ ModelAnswers \/ EndTurn \/ PruneJournal \/ CompactLedger
  BY <1>4, <1>12 DEF CheckpointPreModel, ModelAnswers, EndTurn, PruneJournal, CompactLedger, LaneOn, InTurn
<1>13. CASE ModelFails
  <2>1. lane' = [lane EXCEPT !.pc = "end", !.outcome = "failed"] /\ lane.pc = "model"
    BY <1>13 DEF ModelFails
  <2>2. /\ lane'.pc = "end" /\ lane'.req = lane.req /\ lane'.resumed = lane.resumed
        /\ lane'.attempt = lane.attempt /\ lane'.turn = lane.turn
    BY <1>0, <2>1 DEF Lanes
  <2>3. QED
    BY <2>1, <2>2 DEF LaneOn, InTurn
<1>14. CASE ~LaneStep /\ ~Crash /\ ~StartResume
  BY <1>14, OtherSteps, OtherAttempt DEF SameLane, LaneOn
<1>15. QED
  BY <1>1, <1>2, <1>3, <1>5, <1>6, <1>7, <1>8, <1>9, <1>10, <1>11, <1>12, <1>13, <1>14 DEF LaneStep

LEMMA StreakDown ==
    ASSUME Typed, [Next]_vars, ~BeginTurn
    PROVE  \A r \in Reqs : streak'[r] <= streak[r]
<1>0. streak \in [Reqs -> Nat]
  BY DEF Typed, CountsTyped
<1>1. \A q : streak' = [streak EXCEPT ![q] = 0] => \A r \in Reqs : streak'[r] <= streak[r]
  BY <1>0
<1>2. streak' = streak => \A r \in Reqs : streak'[r] <= streak[r]
  BY <1>0
<1>3. CASE \E r \in Reqs : PublishNew(r)
  BY <1>1, <1>3 DEF PublishNew
<1>4. CASE RestoreTurn
  BY <1>1, <1>2, <1>4 DEF RestoreTurn, MergedFor
<1>5. CASE EndTurn
  BY <1>1, <1>5 DEF EndTurn
<1>6. CASE FindFinalAnswer
  BY <1>1, <1>6 DEF FindFinalAnswer
<1>7. CASE Crash
  BY <1>1, <1>2, <1>7 DEF Crash
<1>8. QED
  BY <1>2, <1>3, <1>4, <1>5, <1>6, <1>7, StreakSame

LEMMA LaneTellsStep ==
    ASSUME Typed, Typed', OpenTurns, Counted, [Next]_vars, ~BeginTurn
    PROVE  LaneTells'
<1>1. /\ turns' = turns
      /\ \A r \in Reqs : \A a : Retried(r, a) => a \in 1..MaxAttempts /\ streak'[r] <= a
  BY TurnsSame, StreakDown, OpensSteps, CountedDown
<1>2. LaneTells /\ StartupTells
  BY DEF Counted
<1>3. CASE lane' = Idle
  BY <1>3 DEF Idle, LaneTells, InTurn
<1>4. CASE TakeLock /\ lane'.pc = "locked" /\ ~lane'.resumed
  BY <1>4 DEF LaneTells, InTurn
<1>5. CASE /\ StartResume /\ lane'.pc = "restore" /\ lane'.resumed
           /\ lane'.req = startup.req /\ lane'.attempt = startup.attempt
  <2>1. startup.pc = "resume" /\ startup'.pc = "resuming"
    BY <1>5 DEF StartResume, Typed, StartupTyped, Startups
  <2>2. startup.req \in Reqs /\ Retried(startup.req, startup.attempt)
    BY <1>2, <2>1 DEF StartupTells, Typed, StartupTyped, Reqs, Dispatched
  <2>3. lane'.attempt \in 1..MaxAttempts /\ streak'[lane'.req] <= lane'.attempt
    BY <1>1, <1>5, <2>2
  <2>4. QED
    BY <1>5, <2>1, <2>3 DEF LaneTells, Retried, InTurn
<1>6. CASE LaneOn /\ lane' # Idle
  <2>1. lane'.pc \in InTurn => turns'[lane'.turn].req = lane'.req
    BY <1>1, <1>2, <1>6 DEF LaneOn, LaneTells, InTurn
  <2>2. lane'.pc \in {"locked", "begin"} => ~lane'.resumed
    BY <1>2, <1>6 DEF LaneOn, LaneTells, InTurn
  <2>3. lane'.resumed => startup'.pc = "resuming"
    <3> SUFFICES ASSUME lane'.resumed PROVE startup'.pc = "resuming"
      OBVIOUS
    <3>1. lane.resumed /\ startup.pc = "resuming"
      BY <1>2, <1>6 DEF LaneOn, LaneTells
    <3>2. ~Crash /\ ~PublishClosed /\ ~(lane.resumed /\ ModelPanics)
      BY <1>6 DEF Crash, PublishClosed, ModelPanics
    <3>3. QED
      BY <3>1, <3>2, StartupFields
  <2>4. ASSUME lane'.resumed, lane'.pc \in {"restore", "restoring", "resume"}
        PROVE  lane'.attempt \in 1..MaxAttempts /\ streak'[lane'.req] <= lane'.attempt
    <3>1. /\ lane.resumed /\ lane'.req = lane.req /\ lane'.attempt = lane.attempt
          /\ lane.pc \in {"restore", "restoring", "resume"}
      BY <1>2, <1>6, <2>4 DEF LaneOn, LaneTells, InTurn
    <3>2. Retried(lane.req, lane.attempt) /\ lane.req \in Reqs
      BY <1>2, <3>1 DEF LaneTells, Typed, LaneTyped, Reqs, Dispatched
    <3>3. QED
      BY <1>1, <3>1, <3>2
  <2>5. QED
    BY <2>1, <2>2, <2>3, <2>4 DEF LaneTells, Retried
<1>7. QED
  BY <1>3, <1>4, <1>5, <1>6, LaneMoves

LEMMA TriesHaveTurnStep ==
    ASSUME Typed, OpenTurns, Counted, [Next]_vars, ~BeginTurn, ~RestoreTurn
    PROVE  TriesHaveTurn'
<1>0. /\ streak \in [Reqs -> Nat] /\ turns' = turns
      /\ \A r \in Reqs : streak'[r] <= streak[r]
  BY TurnsSame, StreakDown DEF Typed, CountsTyped
<1>1. \A r \in Reqs : streak'[r] \in Nat => (streak'[r] > 0 => streak[r] > 0)
  BY <1>0
<1>2. streak' \in [Reqs -> Nat]
  BY TypedStep DEF Typed, CountsTyped
<1> SUFFICES ASSUME NEW r \in Reqs, streak'[r] > 0 PROVE HasOpen(r)' \/ Merging(r)'
  BY DEF TriesHaveTurn
<1>3. HasOpen(r) \/ Merging(r)
  BY <1>1, <1>2 DEF Counted, TriesHaveTurn
<1>4. CASE EndTurn
  <2>1. streak' = [streak EXCEPT ![lane.req] = 0] /\ lane.pc = "end"
    BY <1>4 DEF EndTurn
  <2>2. turns[lane.turn].req = lane.req /\ ToRestore(journal) \subseteq {lane.turn}
    BY <2>1 DEF Counted, LaneTells, InTurn, OpenTurns
  <2>3. r = lane.req
    BY <1>3, <2>1, <2>2 DEF HasOpen, Merging
  <2>4. QED
    BY <1>0, <2>1, <2>3
<1>5. CASE ~EndTurn
  <2>1. ToRestore(journal) \subseteq ToRestore(journal')
    BY <1>5, OpensSteps
  <2>2. HasOpen(r) => HasOpen(r)'
    BY <1>0, <2>1 DEF HasOpen
  <2>3. ASSUME Merging(r), ~HasOpen(r) PROVE Merging(r)'
    <3>1. lane.resumed /\ lane.req = r /\ lane.pc \in {"restoring", "resume"}
      BY <2>3 DEF Merging
    <3>2. ~FindFinalAnswer
      BY <1>0, <3>1 DEF FindFinalAnswer
    <3>3. ~Crash
      <4> SUFFICES ASSUME Crash PROVE FALSE
        OBVIOUS
      <4>1. AttemptsLost
        BY <2>3, <3>1 DEF AttemptsLost, HasOpen
      <4>2. streak' = [streak EXCEPT ![r] = 0]
        BY <3>1, <4>1 DEF Crash
      <4>3. QED
        BY <1>0, <4>2
    <3>4. ~MarkDone /\ ~PublishClosed /\ ~ModelPanics /\ ~Aborted
      BY <3>1 DEF MarkDone, PublishClosed, ModelPanics, Aborted
    <3>5. LaneOn
      BY <3>1, <3>3, <3>4, LaneMoves
    <3>6. QED
      BY <3>1, <3>2, <3>5 DEF LaneOn, Merging, InTurn
  <2>4. QED
    BY <1>3, <2>2, <2>3
<1>6. QED
  BY <1>4, <1>5

(* What startup plans to resume was tried as often as its turn says. *)
LEMMA PlanTells ==
    ASSUME Typed, OpenTurns, Counted, PlanResumes
    PROVE  StartupTells'
<1>0. /\ N \in Nat /\ DOMAIN turns = 1..N /\ journal \in Seq(Recs(N)) /\ startup \in Startups(N)
      /\ turns \in Seq([req : Prompts, attempt : Nat]) /\ streak \in [Reqs -> Nat]
  BY NIsNat DEF Typed, StoresTyped, StartupTyped, CountsTyped
<1> SUFFICES ASSUME startup'.pc = "resume"
             PROVE  startup'.attempt \in 1..MaxAttempts /\ streak'[startup'.req] <= startup'.attempt
  BY DEF StartupTells, Retried
<1> DEFINE t == First1(ToResume(journal))
           start == StartOf(journal, t)
<1>1. ToResume(journal) # {}
  BY <1>0 DEF PlanResumes, Startups
<1>2. startup' = [startup EXCEPT !.pc = "resume", !.turn = t, !.req = start.req,
                                 !.attempt = start.attempt + 1]
  BY <1>1 DEF PlanResumes
<1>3. t \in ToResume(journal) /\ t \in Unfinished(journal) /\ t \in 1..N /\ t \in TurnsWith(journal, "turn_start")
  BY <1>0, <1>1, PlansTyped, TurnsTyped
<1>4. start.attempt < MaxAttempts
  BY <1>3 DEF ToResume, CanResume
<1> HIDE DEF t
<1>5. <<t, start.req, start.attempt>> \in StartsIn(journal)
  <2>1. PICK i \in DOMAIN journal : start = journal[i] /\ journal[i].kind = "turn_start" /\ journal[i].turn = t
    BY <1>0, <1>3, StartOfFacts
  <2>2. journal[i] \in ToSet(journal)
    BY DEF ToSet
  <2>3. QED
    BY <2>1, <2>2 DEF StartsIn
<1>6. start \in StartRecs(N)
  BY <1>0, <1>3, TurnsTyped
<1>7. start.attempt \in Nat /\ start.req \in Reqs
  BY <1>6 DEF StartRecs, Reqs, Dispatched
<1> HIDE DEF start
<1>8. turns[t] = [req |-> start.req, attempt |-> start.attempt]
  BY <1>5 DEF Counted, StartsTell
<1>9. streak[start.req] <= start.attempt + 1
  BY <1>3, <1>8 DEF Counted, TurnsTellTries
<1>10. startup'.req = start.req /\ startup'.attempt = start.attempt + 1 /\ streak' = streak
  BY <1>0, <1>2 DEF Startups, PlanResumes, history
<1>11. QED
  BY <1>4, <1>7, <1>9, <1>10, LimitsAssumption

LEMMA CountedStep ==
    ASSUME Typed, OpenTurns, Counted, [Next]_vars
    PROVE  Counted'
<1>0. Typed'
  BY TypedStep
<1>1. CASE BeginTurn
  BY <1>1, CountedBegin
<1>2. CASE RestoreTurn
  BY <1>0, <1>2, CountedMerge
<1>3. CASE ~BeginTurn /\ ~RestoreTurn
  <2>1. /\ turns' = turns
        /\ \A r \in Reqs : streak'[r] <= streak[r]
    BY <1>3, TurnsSame, StreakDown
  <2>2. /\ Unfinished(journal') \subseteq Unfinished(journal)
        /\ StartsIn(journal') \subseteq StartsIn(journal)
    BY <1>3, OpensSteps
  <2>3. /\ StartsTell' /\ TurnsTellTries' /\ TriesBounded'
        /\ ~PlanResumes => StartupTells'
    BY <1>0, <2>1, <2>2, CountedDown
  <2>4. StartupTells'
    BY <2>3, PlanTells
  <2>5. LaneTells'
    BY <1>0, <1>3, LaneTellsStep
  <2>6. TriesHaveTurn'
    BY <1>3, TriesHaveTurnStep
  <2>7. QED
    BY <2>3, <2>4, <2>5, <2>6 DEF Counted
<1>4. QED
  BY <1>1, <1>2, <1>3

LEMMA CountsHold == Spec => [](OpenTurns /\ Counted)
<1>1. Init => Counted
  <2> SUFFICES ASSUME Init PROVE Counted
    OBVIOUS
  <2>1. ToSet(journal) = {} /\ TurnsWith(journal, "turn_start") = {}
    BY DEF Init, ToSet, TurnsWith, Records
  <2>2. lane.pc = "idle" /\ lane.resumed = FALSE /\ startup.pc = "done"
    BY DEF Init, Idle, NoTurn
  <2>3. \A r \in Reqs : streak[r] = 0
    BY DEF Init
  <2>4. QED
    BY <2>1, <2>2, <2>3, LimitsAssumption
       DEF Counted, StartsTell, StartsIn, TriesHaveTurn, TurnsTellTries, LaneTells, StartupTells,
           TriesBounded, Unfinished, InTurn
<1>2. Init => OpenTurns
  BY DEF Init, OpenTurns, Idle, ToRestore, TurnsWith, Records
<1>3. Typed /\ OpenTurns /\ Counted /\ [Next]_vars => OpenTurns' /\ Counted'
  BY OpenTurnsStep, CountedStep
<1>4. QED
  BY <1>1, <1>2, <1>3, TypesHold, PTL DEF Spec

(* A turn that keeps killing the process is given up after maxResumeAttempts
   resumes, for any number of kills: whatever the startup task, other messages,
   /stop, /new and panics do in between, only a merge that forgets the open
   turn starts the count again. *)
THEOREM TurnsGivenUp == Spec => []CrashLoopBounded
<1>1. Counted => CrashLoopBounded
  BY DEF Counted, TriesBounded, CrashLoopBounded, Reqs, Dispatched
<1>2. QED
  BY <1>1, CountsHold, PTL

--------------------------------------------------------------------------------
(* What a step does to the ledger entry of a request. *)

EntrySame(r) == SameEntry(journal, journal', r)
EntryClosed(r) == Standing(journal', r) = "done" /\ ~HasMessage(journal', r) /\ IsLive(journal', r)
EntryGone(r) == Standing(journal', r) = "unknown" /\ ~HasMessage(journal', r) /\ ~IsLive(journal', r)
Pends(r) == Standing(journal, r) \notin {"unknown", "done"}
NextToDo == Head(startup.todo)
Closes(r) ==
    \/ MarkDone /\ lane.req = r
    \/ CloseRequest /\ lane.req = r /\ (lane.resumed => InLedger(journal, r))
    \/ RedriveEntry /\ NextToDo.action = "close" /\ NextToDo.entry.req = r
    \/ ConsumeStop /\ Pends(r)
Marks(r) == MarkProcessing /\ lane.req = r

LEMMA StandingTyped ==
    ASSUME Typed, NEW r
    PROVE  /\ Standing(journal, r) \in InboxStates \cup {"unknown"}
           /\ InLedger(journal, r) <=> Standing(journal, r) # "unknown"
           /\ IsPending(r) <=> Pends(r)
<1>0. N \in Nat /\ journal \in Seq(Recs(N))
  BY NIsNat DEF Typed, StoresTyped
<1>1. CASE RecordsOf(journal, r) = {}
  BY <1>1, NoEntry DEF IsPending, Pends
<1>2. CASE RecordsOf(journal, r) # {}
  <2>1. PICK l \in RecordsOf(journal, r) : \A k \in RecordsOf(journal, r) : k <= l
    BY <1>0, <1>2, LastRecord
  <2>2. InLedger(journal, r) /\ Standing(journal, r) = journal[l].state
    BY <1>0, <2>1, EntryIs
  <2>3. l \in DOMAIN journal /\ journal[l].kind = "inbox"
    BY <1>0, RecordsFinite
  <2>4. journal[l] \in Recs(N)
    BY <1>0, <2>3, SeqElements
  <2>5. journal[l].state \in InboxStates
    BY <2>3, <2>4 DEF Recs, InboxRecs, StartRecs, StepRecs, EndRecs, RestoredRecs
  <2>6. QED
    BY <2>2, <2>5 DEF InboxStates, IsPending, Pends, Standing
<1>3. QED
  BY <1>1, <1>2

LEMMA EntryUnwritten == ASSUME UNCHANGED journal, NEW r PROVE EntrySame(r)
BY DEF EntrySame, SameEntry

LEMMA EntryWritten ==
    ASSUME Typed, NEW r
    PROVE  /\ \A rec : Write(rec) /\ (rec.kind # "inbox" \/ rec.req # r) => EntrySame(r)
           /\ \A s, o : \A m \in BOOLEAN : Write(Inbox(r, s, o, m)) =>
                 /\ Standing(journal', r) = s /\ IsLive(journal', r)
                 /\ HasMessage(journal', r) <=> s # "done" /\ (m \/ HasMessage(journal, r))
<1>0. journal \in Seq(Recs(N))
  BY DEF Typed, StoresTyped
<1>1. ASSUME NEW rec PROVE journal \in Seq(Recs(N) \cup {rec})
  BY <1>0, SeqMonotone
<1>2. ASSUME NEW rec, Write(rec), rec.kind # "inbox" \/ rec.req # r PROVE EntrySame(r)
  <2>1. journal \in Seq(Recs(N) \cup {rec}) /\ rec \in Recs(N) \cup {rec}
    BY <1>1
  <2>2. SameEntry(journal, Append(journal, rec), r)
    BY <1>2, <2>1, AppendOther
  <2>3. QED
    BY <1>2, <2>2 DEF EntrySame, Write
<1>3. ASSUME NEW s, NEW o, NEW m \in BOOLEAN, Write(Inbox(r, s, o, m))
      PROVE  /\ Standing(journal', r) = s /\ IsLive(journal', r)
             /\ HasMessage(journal', r) <=> s # "done" /\ (m \/ HasMessage(journal, r))
  <2> DEFINE A == Recs(N) \cup {Inbox(r, s, o, m)}
  <2>1. journal \in Seq(A) /\ Inbox(r, s, o, m) \in A
    BY <1>1
  <2> HIDE DEF A
  <2>2. /\ Standing(Append(journal, Inbox(r, s, o, m)), r) = s
        /\ IsLive(Append(journal, Inbox(r, s, o, m)), r)
        /\ HasMessage(Append(journal, Inbox(r, s, o, m)), r) <=> s # "done" /\ (m \/ HasMessage(journal, r))
    BY <2>1, AppendEntry
  <2>3. QED
    BY <1>3, <2>2 DEF Write
<1>4. QED
  BY <1>2, <1>3

(* Records of turns are not about requests of the ledger. *)
LEMMA EntryTurnRecord ==
    ASSUME Typed, NEW r
    PROVE  /\ \A t, q, a, u : Write(TurnStart(t, q, a, u)) => EntrySame(r)
           /\ \A t, p : Write(StepCheckpoint(t, p)) => EntrySame(r)
           /\ \A t, o : Write(TurnEnd(t, o)) => EntrySame(r)
           /\ \A t : Write(TurnRestored(t)) => EntrySame(r)
<1>1. /\ \A t, q, a, u : TurnStart(t, q, a, u).kind # "inbox"
      /\ \A t, p : StepCheckpoint(t, p).kind # "inbox"
      /\ \A t, o : TurnEnd(t, o).kind # "inbox"
      /\ \A t : TurnRestored(t).kind # "inbox"
  BY DEF TurnStart, StepCheckpoint, TurnEnd, TurnRestored
<1>2. \A rec : Write(rec) /\ rec.kind # "inbox" => EntrySame(r)
  BY EntryWritten
<1>3. QED
  BY <1>1, <1>2

LEMMA EntryInbox ==
    ASSUME Typed, NEW r, NEW q, NEW s, NEW o, NEW m \in BOOLEAN, Write(Inbox(q, s, o, m))
    PROVE  /\ q # r => EntrySame(r)
           /\ q = r => /\ Standing(journal', r) = s /\ IsLive(journal', r)
                       /\ HasMessage(journal', r) <=> s # "done" /\ (m \/ HasMessage(journal, r))
<1>1. Inbox(q, s, o, m).req = q
  BY DEF Inbox
<1>2. q # r => EntrySame(r)
  BY <1>1, EntryWritten
<1>3. QED
  BY <1>2, EntryWritten

LEMMA EntryKilled ==
    ASSUME Typed, journal' = Killed(journal), NEW r
    PROVE  /\ Standing(journal', r) = Standing(journal, r)
           /\ HasMessage(journal', r) <=> HasMessage(journal, r)
           /\ ~IsLive(journal', r)
<1>0. N \in Nat /\ journal \in Seq(Recs(N))
  BY NIsNat DEF Typed, StoresTyped
<1> DEFINE k == Killed(journal)
<1>1. /\ k \in Seq(Recs(N)) /\ DOMAIN k = DOMAIN journal
      /\ \A i \in DOMAIN journal : k[i] = [journal[i] EXCEPT !.live = FALSE] /\ journal[i] \in Recs(N)
  BY <1>0, KilledTyped
<1> HIDE DEF k
<1>2. ASSUME NEW i \in DOMAIN journal
      PROVE  /\ k[i].kind = journal[i].kind /\ k[i].live = FALSE
             /\ journal[i].kind = "inbox" => /\ k[i].req = journal[i].req /\ k[i].state = journal[i].state
                                             /\ k[i].message = journal[i].message
  <2> DEFINE a == journal[i]
  <2>1. a \in Recs(N) /\ k[i] = [a EXCEPT !.live = FALSE]
    BY <1>1
  <2> HIDE DEF a
  <2>2. /\ k[i].kind = a.kind /\ k[i].live = FALSE
        /\ a.kind = "inbox" => k[i].req = a.req /\ k[i].state = a.state /\ k[i].message = a.message
    BY <2>1, KilledRec
  <2>3. QED
    BY <2>2 DEF a
<1>3. /\ \A i : i \in RecordsOf(k, r) <=> i \in DOMAIN k /\ k[i].kind = "inbox" /\ k[i].req = r
      /\ \A i : i \in RecordsOf(journal, r) <=>
                   i \in DOMAIN journal /\ journal[i].kind = "inbox" /\ journal[i].req = r
  BY <1>0, <1>1, RecordsFinite
<1>4. RecordsOf(k, r) = RecordsOf(journal, r)
  <2>1. DOMAIN k = DOMAIN journal
    BY <1>1
  <2>2. ASSUME NEW i \in RecordsOf(k, r) PROVE i \in RecordsOf(journal, r)
    <3>1. i \in DOMAIN journal /\ k[i].kind = "inbox" /\ k[i].req = r
      BY <1>3, <2>1
    <3>2. journal[i].kind = "inbox" /\ journal[i].req = r
      BY <1>2, <3>1
    <3>3. QED
      BY <1>3, <3>1, <3>2
  <2>3. ASSUME NEW i \in RecordsOf(journal, r) PROVE i \in RecordsOf(k, r)
    <3>1. i \in DOMAIN journal /\ journal[i].kind = "inbox" /\ journal[i].req = r
      BY <1>3
    <3>2. k[i].kind = "inbox" /\ k[i].req = r
      BY <1>2, <3>1
    <3>3. QED
      BY <1>3, <2>1, <3>1, <3>2
  <2>4. QED
    BY <2>2, <2>3
<1>5. /\ \A i \in RecordsOf(journal, r) : k[i].state = journal[i].state /\ k[i].message = journal[i].message
      /\ \A i \in RecordsOf(journal, r) : k[i].live = FALSE
  BY <1>2, <1>3
<1>6. k \in Seq(Recs(N))
  BY <1>1
<1>7. Standing(k, r) = Standing(journal, r) /\ (HasMessage(k, r) <=> HasMessage(journal, r)) /\ ~IsLive(k, r)
  BY <1>0, <1>4, <1>5, <1>6, CarriedInPlace
<1>8. QED
  BY <1>7 DEF k

(* /stop closes what is pending, and nothing else. *)
LEMMA EntryStopped ==
    ASSUME Typed, journal' = journal \o Closing(Pending(journal)), NEW r
    PROVE  /\ Pends(r) => EntryClosed(r)
           /\ ~Pends(r) => EntrySame(r)
<1> DEFINE p == Pending(journal)
           e == Closing(p)
<1>0. N \in Nat /\ journal \in Seq(Recs(N))
  BY NIsNat DEF Typed, StoresTyped
<1>1. /\ p \in Seq({x \in EntriesOf(journal) : x.state # "done"})
      /\ \A q \in LedgerReqs(journal) :
            Entry(journal, q).state # "done" => \E n \in DOMAIN p : p[n] = Entry(journal, q)
  BY <1>0, PendingFacts
<1>2. \A n \in DOMAIN p : p[n] \in EntriesOf(journal) /\ p[n].state # "done"
  <2>1. \A n \in DOMAIN p : p[n] \in {x \in EntriesOf(journal) : x.state # "done"}
    BY <1>1, SeqElements
  <2>2. QED
    BY <2>1
<1>3. e \in Seq(Recs(N))
  <2>1. e \in Seq(InboxRecs(N))
    BY <1>0, ClosingFacts
  <2>2. QED
    BY <2>1, SeqMonotone DEF Recs
<1> HIDE DEF p
<1>4. /\ DOMAIN e = DOMAIN p
      /\ \A n \in DOMAIN p : /\ e[n].kind = "inbox" /\ e[n].state = "done" /\ e[n].live = TRUE
                             /\ e[n].req = p[n].req
  BY DEF Closing, Inbox
<1> HIDE DEF e
<1>5. journal' = journal \o e
  BY DEF e, p
<1>6. ASSUME Pends(r) PROVE EntryClosed(r)
  <2>1. InLedger(journal, r) /\ Entry(journal, r).state # "done" /\ Entry(journal, r).req = r
    BY <1>6 DEF Pends, Standing, Entry
  <2>2. PICK h \in DOMAIN p : p[h] = Entry(journal, r)
    BY <1>1, <2>1, InLedgerIs
  <2>3. h \in DOMAIN e /\ e[h].req = r
    BY <1>4, <2>1, <2>2
  <2>4. SayDone(e)
    BY <1>4 DEF SayDone
  <2>5. Standing(journal \o e, r) = "done" /\ IsLive(journal \o e, r) /\ ~HasMessage(journal \o e, r)
    BY <1>0, <1>3, <2>3, <2>4, ConcatDone
  <2>6. QED
    BY <1>5, <2>5 DEF EntryClosed
<1>7. ASSUME ~Pends(r) PROVE EntrySame(r)
  <2>1. ASSUME NEW n \in DOMAIN e PROVE e[n].req # r
    <3>1. e[n].req = p[n].req /\ p[n] \in EntriesOf(journal) /\ p[n].state # "done"
      BY <1>2, <1>4
    <3>2. /\ InLedger(journal, p[n].req) /\ Standing(journal, p[n].req) = p[n].state
      BY <3>1, EntriesAre
    <3>3. Standing(journal, p[n].req) # "unknown"
      BY <3>2, StandingTyped
    <3>4. QED
      BY <1>7, <3>1, <3>2, <3>3 DEF Pends
  <2>2. SameEntry(journal, journal \o e, r)
    BY <1>0, <1>3, <2>1, ConcatOther
  <2>3. QED
    BY <1>5, <2>2 DEF EntrySame
<1>8. QED
  BY <1>6, <1>7

LEMMA LedgerOpened ==
    ASSUME Typed, NEW r
    PROVE  /\ PublishNew(r) => /\ Standing(journal, r) = "unknown" /\ Standing(journal', r) = "queued"
                               /\ HasMessage(journal', r) /\ IsLive(journal', r)
           /\ Marks(r) => /\ Standing(journal', r) = "processing" /\ IsLive(journal', r)
                          /\ HasMessage(journal', r) <=> HasMessage(journal, r)
<1>1. ASSUME PublishNew(r)
      PROVE  /\ Standing(journal, r) = "unknown" /\ Standing(journal', r) = "queued"
             /\ HasMessage(journal', r) /\ IsLive(journal', r)
  <2>1. ~InLedger(journal, r) /\ Write(Inbox(r, "queued", NoOutcome, TRUE))
    BY <1>1 DEF PublishNew
  <2>2. Standing(journal, r) = "unknown"
    BY <2>1 DEF Standing
  <2>3. /\ Standing(journal', r) = "queued" /\ IsLive(journal', r)
        /\ HasMessage(journal', r) <=> "queued" # "done" /\ (TRUE \/ HasMessage(journal, r))
    BY <2>1, EntryInbox
  <2>4. QED
    BY <2>2, <2>3
<1>2. ASSUME Marks(r)
      PROVE  /\ Standing(journal', r) = "processing" /\ IsLive(journal', r)
             /\ HasMessage(journal', r) <=> HasMessage(journal, r)
  <2>1. Write(Inbox(r, "processing", NoOutcome, FALSE))
    BY <1>2 DEF Marks, MarkProcessing
  <2>2. /\ Standing(journal', r) = "processing" /\ IsLive(journal', r)
        /\ HasMessage(journal', r) <=> "processing" # "done" /\ (FALSE \/ HasMessage(journal, r))
    BY <2>1, EntryInbox
  <2>3. QED
    BY <2>2
<1>3. QED
  BY <1>1, <1>2

LEMMA LedgerClosed ==
    ASSUME Typed, NEW r, Closes(r)
    PROVE  EntryClosed(r)
<1>1. \A o : Write(Inbox(r, "done", o, FALSE)) => EntryClosed(r)
  BY EntryWritten DEF EntryClosed
<1>2. CASE MarkDone /\ lane.req = r
  BY <1>1, <1>2 DEF MarkDone
<1>3. CASE CloseRequest /\ lane.req = r /\ (lane.resumed => InLedger(journal, r))
  BY <1>1, <1>3 DEF CloseRequest
<1>4. CASE RedriveEntry /\ NextToDo.action = "close" /\ NextToDo.entry.req = r
  BY <1>1, <1>4 DEF RedriveEntry, NextToDo
<1>5. CASE ConsumeStop /\ Pends(r)
  <2>1. journal' = journal \o Closing(Pending(journal))
    BY <1>5 DEF ConsumeStop, PendingClosed, Closing
  <2>2. QED
    BY <1>5, <2>1, EntryStopped
<1>6. QED
  BY <1>2, <1>3, <1>4, <1>5 DEF Closes

LEMMA LedgerKilled ==
    ASSUME Typed, Crash, NEW r
    PROVE  /\ Standing(journal', r) = Standing(journal, r)
           /\ HasMessage(journal', r) <=> HasMessage(journal, r)
           /\ ~IsLive(journal', r)
<1>1. journal' = Killed(journal)
  BY DEF Crash, Killed
<1>2. QED
  BY <1>1, EntryKilled

LEMMA LedgerRewritten ==
    ASSUME Typed, NEW r
    PROVE  /\ CompactLedger => EntrySame(r) \/ (Standing(journal, r) = "done" /\ EntryGone(r))
           /\ NewSession => EntryGone(r)
           /\ PruneJournal => EntrySame(r)
<1>0. journal \in Seq(Recs(N))
  BY DEF Typed, StoresTyped
<1>1. CompactLedger => EntrySame(r) \/ (Standing(journal, r) = "done" /\ EntryGone(r))
  BY <1>0, CompactedStands DEF CompactLedger, EntrySame, EntryGone
<1>2. PruneJournal => EntrySame(r)
  BY <1>0, PrunedStands DEF PruneJournal, EntrySame
<1>3. NewSession => EntryGone(r)
  <2> SUFFICES ASSUME NewSession PROVE EntryGone(r)
    OBVIOUS
  <2>1. journal' = <<>>
    BY DEF NewSession
  <2>2. RecordsOf(journal', r) = {}
    BY <2>1 DEF RecordsOf, Records
  <2>3. QED
    BY <2>2, NoEntry DEF EntryGone
<1>4. QED
  BY <1>1, <1>2, <1>3

LEMMA LedgerAbandoned ==
    ASSUME Typed, NEW r, NEW S \in SUBSET (1..N), journal' = journal \o Abandon(S)
    PROVE  EntrySame(r)
<1>0. N \in Nat /\ journal \in Seq(Recs(N))
  BY NIsNat DEF Typed, StoresTyped
<1> DEFINE e == Abandon(S)
<1>1. e \in Seq(EndRecs(N))
  BY <1>0, AbandonFacts
<1>2. \A i \in DOMAIN e : e[i] \in EndRecs(N)
  BY <1>1, SeqElements
<1>3. e \in Seq(Recs(N))
  BY <1>1, SeqMonotone DEF Recs
<1> HIDE DEF e
<1>4. \A i \in DOMAIN e : e[i].kind # "inbox"
  BY <1>2 DEF EndRecs
<1>5. SameEntry(journal, journal \o e, r)
  BY <1>0, <1>3, <1>4, ConcatOther
<1>6. QED
  BY <1>5 DEF e, EntrySame

(* Only these actions write the entry of a request. *)
Writes(r) == Crash \/ PublishNew(r) \/ Marks(r) \/ Closes(r) \/ CompactLedger \/ NewSession

LEMMA LedgerUntouched ==
    ASSUME Typed, [Next]_vars, NEW r \in Reqs, ~Writes(r)
    PROVE  EntrySame(r)
<1>0. N \in Nat /\ journal \in Seq(Recs(N))
  BY NIsNat DEF Typed, StoresTyped
<1>1. UNCHANGED journal => EntrySame(r)
  BY EntryUnwritten
<1>2. \A q, s, o : \A m \in BOOLEAN : Write(Inbox(q, s, o, m)) /\ q # r => EntrySame(r)
  BY EntryInbox
<1>3. /\ \A t, q, a, u : Write(TurnStart(t, q, a, u)) => EntrySame(r)
      /\ \A t, p : Write(StepCheckpoint(t, p)) => EntrySame(r)
      /\ \A t, o : Write(TurnEnd(t, o)) => EntrySame(r)
      /\ \A t : Write(TurnRestored(t)) => EntrySame(r)
  BY EntryTurnRecord
<1>4. /\ ~Crash /\ ~PublishNew(r) /\ ~Marks(r) /\ ~Closes(r) /\ ~CompactLedger /\ ~NewSession
  BY DEF Writes
<1>5. ASSUME NEW q \in Reqs, PublishNew(q) \/ PublishDuplicate(q) PROVE EntrySame(r)
  <2>1. CASE PublishDuplicate(q)
    BY <1>1, <2>1 DEF PublishDuplicate
  <2>2. CASE PublishNew(q)
    <3>1. q # r
      BY <1>4, <2>2
    <3>2. Write(Inbox(q, "queued", NoOutcome, TRUE))
      BY <2>2 DEF PublishNew
    <3>3. QED
      BY <1>2, <3>1, <3>2
  <2>3. QED
    BY <1>5, <2>1, <2>2
<1>6. CASE Consume
  <2>1. CASE ConsumeStop
    <3>1. journal' = journal \o Closing(Pending(journal))
      BY <2>1 DEF ConsumeStop, PendingClosed, Closing
    <3>2. ~Pends(r)
      BY <1>4, <2>1 DEF Closes
    <3>3. QED
      BY <3>1, <3>2, EntryStopped
  <2>2. QED
    BY <1>1, <1>6, <2>1 DEF Consume, ConsumePrompt, ConsumeStatus, stores
<1>7. CASE LaneStep
  <2>1. CASE MarkProcessing
    BY <1>2, <1>4, <2>1 DEF MarkProcessing, Marks
  <2>2. CASE MarkDone
    BY <1>2, <1>4, <2>2 DEF MarkDone, Closes
  <2>3. CASE CloseRequest
    BY <1>1, <1>2, <1>4, <2>3 DEF CloseRequest, Closes
  <2>4. CASE CheckpointPreModel \/ ModelAnswers \/ RestoreTurn \/ EndTurn
    BY <1>3, <2>4 DEF CheckpointPreModel, ModelAnswers, RestoreTurn, EndTurn
  <2>5. CASE Aborted
    BY <1>1, <1>3, <2>5 DEF Aborted
  <2>6. CASE TakeLock \/ SaveRestored \/ FindFinalAnswer \/ ModelFails \/ ModelPanics \/ PersistTurn
              \/ PublishReply \/ PublishClosed
    BY <1>1, <2>6
       DEF TakeLock, SaveRestored, FindFinalAnswer, ModelFails, ModelPanics, PersistTurn,
           PublishReply, PublishClosed, stores
  <2>7. CASE BeginTurn
    <3>1. PICK s : Begin(s)
      BY <2>7, BeginTurnIs
    <3>2. QED
      BY <1>3, <3>1 DEF Begin
  <2>8. CASE PruneJournal
    BY <2>8, LedgerRewritten
  <2>9. QED
    BY <1>4, <1>7, <2>1, <2>2, <2>3, <2>4, <2>5, <2>6, <2>7, <2>8 DEF LaneStep
<1>8. CASE StartupStep
  <2>1. Interrupted(journal) \in SUBSET (1..N) /\ ToAbandon(journal) \in SUBSET (1..N)
    BY <1>0, PlansTyped
  <2>2. CASE PlanResumes
    <3>1. journal' = journal \o Abandon(ToAbandon(journal))
      BY <2>2 DEF PlanResumes, Abandon
    <3>2. QED
      BY <2>1, <3>1, LedgerAbandoned
  <2>3. CASE PlanStale
    <3>1. journal' = journal \o Abandon(Interrupted(journal) \ {Newest(Interrupted(journal))})
      BY <2>3 DEF PlanStale, Abandon
    <3>2. Interrupted(journal) \ {Newest(Interrupted(journal))} \in SUBSET (1..N)
      BY <2>1
    <3>3. QED
      BY <3>1, <3>2, LedgerAbandoned
  <2>4. CASE RedriveEntry
    BY <1>1, <1>2, <1>4, <2>4 DEF RedriveEntry, Closes, NextToDo
  <2>5. CASE StartResume \/ PlanRedrive \/ RedriveFinished
    BY <1>1, <2>5 DEF StartResume, PlanRedrive, RedriveFinished, stores
  <2>6. QED
    BY <1>8, <2>2, <2>3, <2>4, <2>5 DEF StartupStep
<1>9. CASE UNCHANGED vars
  BY <1>1, <1>9 DEF vars, stores
<1>10. QED
  BY <1>4, <1>5, <1>6, <1>7, <1>8, <1>9 DEF Next, Publish, SystemStep

--------------------------------------------------------------------------------
(* The queues: no request twice, and what a step does to them. *)

Inj(s) == \A i, k \in DOMAIN s : s[i] = s[k] => i = k

LEMMA AppendApart ==
    ASSUME NEW A, NEW s \in Seq(A), NEW x \in A
    PROVE  /\ ToSet(Append(s, x)) = ToSet(s) \cup {x}
           /\ Inj(s) /\ x \notin ToSet(s) => Inj(Append(s, x))
<1> DEFINE c == Append(s, x)
           n == Len(s) + 1
<1>1. /\ DOMAIN c = DOMAIN s \cup {n} /\ c[n] = x /\ ToSet(c) = ToSet(s) \cup {x}
      /\ \A i \in DOMAIN s : c[i] = s[i]
  BY AppendFacts
<1> HIDE DEF c, n
<1>2. ASSUME Inj(s), x \notin ToSet(s) PROVE Inj(c)
  <2> SUFFICES ASSUME NEW i \in DOMAIN c, NEW k \in DOMAIN c, c[i] = c[k] PROVE i = k
    BY DEF Inj
  <2>1. \A m \in DOMAIN s : c[m] # x
    BY <1>1, <1>2, ToSetIs
  <2>2. QED
    BY <1>1, <1>2, <2>1 DEF Inj
<1>3. QED
  BY <1>1, <1>2 DEF c

LEMMA TailApart ==
    ASSUME NEW A, NEW s \in Seq(A), s # <<>>
    PROVE  /\ Head(s) \in ToSet(s) /\ Head(s) = s[1]
           /\ \A x : x \in ToSet(s) <=> x = Head(s) \/ x \in ToSet(Tail(s))
           /\ \A i \in DOMAIN Tail(s) : i + 1 \in DOMAIN s /\ i + 1 # 1 /\ Tail(s)[i] = s[i + 1]
           /\ Inj(s) => Inj(Tail(s)) /\ Head(s) \notin ToSet(Tail(s))
<1> DEFINE t == Tail(s)
<1>1. /\ Len(s) \in Nat \ {0} /\ DOMAIN s = 1..Len(s) /\ Head(s) = s[1]
      /\ DOMAIN t = 1..(Len(s) - 1) /\ \A i \in DOMAIN t : t[i] = s[i + 1]
  <2>1. Len(s) \in Nat /\ DOMAIN s = 1..Len(s) /\ Len(s) # 0
    BY SeqElements, EmptySeq
  <2>2. /\ t \in Seq(A) /\ Len(t) = Len(s) - 1 /\ Head(s) = s[1]
        /\ \A i \in 1..Len(t) : t[i] = s[i + 1]
    BY HeadTailProperties
  <2>3. DOMAIN t = 1..Len(t)
    BY <2>2, SeqElements
  <2>4. QED
    BY <2>1, <2>2, <2>3
<1> HIDE DEF t
<1>2. \A i \in DOMAIN t : i + 1 \in DOMAIN s /\ i + 1 # 1 /\ t[i] = s[i + 1]
  BY <1>1
<1>3. Head(s) \in ToSet(s)
  BY <1>1 DEF ToSet
<1>4. ASSUME NEW x PROVE x \in ToSet(s) <=> x = Head(s) \/ x \in ToSet(t)
  <2>1. ASSUME x \in ToSet(s), x # Head(s) PROVE x \in ToSet(t)
    <3>1. PICK k \in DOMAIN s : s[k] = x
      BY <2>1 DEF ToSet
    <3>2. k - 1 \in DOMAIN t /\ (k - 1) + 1 = k
      BY <1>1, <2>1, <3>1
    <3>3. t[k - 1] = x
      BY <1>1, <3>1, <3>2
    <3>4. QED
      BY <3>2, <3>3 DEF ToSet
  <2>2. x \in ToSet(t) => x \in ToSet(s)
    BY <1>2 DEF ToSet
  <2>3. QED
    BY <1>3, <2>1, <2>2
<1>5. ASSUME Inj(s) PROVE Inj(t) /\ Head(s) \notin ToSet(t)
  <2>1. ASSUME NEW i \in DOMAIN t, NEW k \in DOMAIN t, t[i] = t[k] PROVE i = k
    <3>1. i + 1 = k + 1
      BY <1>2, <1>5, <2>1 DEF Inj
    <3>2. QED
      BY <1>1, <3>1
  <2>2. \A i \in DOMAIN t : t[i] # s[1]
    BY <1>1, <1>2, <1>5 DEF Inj
  <2>3. QED
    BY <1>1, <2>1, <2>2 DEF Inj, ToSet
<1>6. QED
  BY <1>1, <1>2, <1>3, <1>4, <1>5 DEF t

LEMMA RemoveIs ==
    ASSUME NEW A, NEW s \in Seq(A), NEW n \in DOMAIN s
    PROVE  /\ RemoveAt(s, n) \in Seq(A) /\ DOMAIN RemoveAt(s, n) = 1..(Len(s) - 1)
           /\ \A i \in 1..(Len(s) - 1) : RemoveAt(s, n)[i] = s[IF i < n THEN i ELSE i + 1]
<1> DEFINE c == RemoveAt(s, n)
           L == Len(s)
<1>1. L \in Nat /\ n \in 1..L /\ DOMAIN s = 1..L
  BY SeqElements
<1>2. /\ c \in Seq(A) /\ DOMAIN c = 1..(L - 1)
      /\ \A i \in 1..(L - 1) : c[i] = s[IF i < n THEN i ELSE i + 1]
  <2> DEFINE a == SubSeq(s, 1, n - 1)
             b == SubSeq(s, n + 1, L)
  <2>1. a \in Seq(A) /\ Len(a) = n - 1 /\ \A i \in 1..(n - 1) : a[i] = s[i]
    BY <1>1, SubSeqProperties
  <2>2. b \in Seq(A) /\ Len(b) = L - n /\ \A i \in 1..(L - n) : b[i] = s[n + i]
    BY <1>1, SubSeqProperties
  <2>3. c = a \o b
    BY DEF RemoveAt
  <2> HIDE DEF a, b, c
  <2>4. /\ c \in Seq(A) /\ Len(c) = Len(a) + Len(b)
        /\ \A i \in 1..(Len(a) + Len(b)) : c[i] = IF i <= Len(a) THEN a[i] ELSE b[i - Len(a)]
    BY <2>1, <2>2, <2>3, ConcatProperties
  <2>5. DOMAIN c = 1..(L - 1)
    BY <1>1, <2>1, <2>2, <2>4, SeqElements
  <2>6. ASSUME NEW i \in 1..(L - 1) PROVE c[i] = s[IF i < n THEN i ELSE i + 1]
    <3>1. c[i] = IF i <= n - 1 THEN a[i] ELSE b[i - (n - 1)]
      BY <1>1, <2>1, <2>2, <2>4
    <3>2. CASE i < n
      BY <1>1, <2>1, <3>1, <3>2
    <3>3. CASE ~(i < n)
      <4>1. i - (n - 1) \in 1..(L - n) /\ n + (i - (n - 1)) = i + 1
        BY <1>1, <3>3
      <4>2. b[i - (n - 1)] = s[i + 1]
        BY <2>2, <4>1
      <4>3. QED
        BY <1>1, <3>1, <3>3, <4>2
    <3>4. QED
      BY <3>2, <3>3
  <2>7. QED
    BY <2>4, <2>5, <2>6
<1>3. QED
  BY <1>2

LEMMA RemoveApart ==
    ASSUME NEW A, NEW s \in Seq(A), NEW n \in DOMAIN s
    PROVE  /\ s[n] \in ToSet(s)
           /\ \A x : x \in ToSet(s) <=> x = s[n] \/ x \in ToSet(RemoveAt(s, n))
           /\ Inj(s) => Inj(RemoveAt(s, n)) /\ s[n] \notin ToSet(RemoveAt(s, n))
<1> DEFINE c == RemoveAt(s, n)
           L == Len(s)
<1>1. L \in Nat /\ n \in 1..L /\ DOMAIN s = 1..L
  BY SeqElements
<1>2. /\ DOMAIN c = 1..(L - 1)
      /\ \A i \in 1..(L - 1) : c[i] = s[IF i < n THEN i ELSE i + 1]
  BY RemoveIs
<1> HIDE DEF c
<1> DEFINE f(i) == IF i < n THEN i ELSE i + 1
<1>3. ASSUME NEW i \in DOMAIN c PROVE f(i) \in DOMAIN s /\ f(i) # n /\ c[i] = s[f(i)]
  BY <1>1, <1>2
<1>4. ASSUME NEW k \in DOMAIN s, k # n PROVE \E i \in DOMAIN c : f(i) = k
  <2>1. CASE k < n
    BY <1>1, <1>2, <2>1
  <2>2. CASE k > n
    <3>1. k - 1 \in DOMAIN c /\ f(k - 1) = k
      BY <1>1, <1>2, <2>2
    <3>2. QED
      BY <3>1
  <2>3. QED
    BY <1>1, <1>4, <2>1, <2>2
<1>5. \A i, k \in DOMAIN c : f(i) = f(k) => i = k
  BY <1>1, <1>2
<1> HIDE DEF f
<1>6. s[n] \in ToSet(s)
  BY DEF ToSet
<1>7. ASSUME NEW x PROVE x \in ToSet(s) <=> x = s[n] \/ x \in ToSet(c)
  <2>1. ASSUME x \in ToSet(s), x # s[n] PROVE x \in ToSet(c)
    <3>1. PICK k \in DOMAIN s : s[k] = x
      BY <2>1 DEF ToSet
    <3>2. PICK i \in DOMAIN c : f(i) = k
      BY <1>4, <2>1, <3>1
    <3>3. QED
      BY <1>3, <3>1, <3>2 DEF ToSet
  <2>2. x \in ToSet(c) => x \in ToSet(s)
    BY <1>3 DEF ToSet
  <2>3. QED
    BY <1>6, <2>1, <2>2
<1>8. ASSUME Inj(s) PROVE Inj(c) /\ s[n] \notin ToSet(c)
  <2>1. \A i, k \in DOMAIN c : c[i] = c[k] => i = k
    BY <1>3, <1>5, <1>8 DEF Inj
  <2>2. \A i \in DOMAIN c : c[i] # s[n]
    BY <1>3, <1>8 DEF Inj
  <2>3. QED
    BY <2>1, <2>2 DEF Inj, ToSet
<1>9. QED
  BY <1>6, <1>7, <1>8 DEF c

LEMMA BusMoves ==
    ASSUME Typed, [Next]_vars
    PROVE  \/ bus' = bus
           \/ bus' = <<>> /\ Crash
           \/ bus # <<>> /\ bus' = Tail(bus) /\ Consume
           \/ \E r \in Reqs : PublishNew(r) /\ bus' = Append(bus, r)
           \/ /\ RedriveEntry /\ startup.pc = "redriving" /\ startup.todo # <<>>
              /\ NextToDo.action = "redrive" /\ bus' = Append(bus, NextToDo.entry.req)
<1>1. CASE Publish
  BY <1>1 DEF Publish, PublishNew, PublishDuplicate
<1>2. CASE Consume
  BY <1>2 DEF Consume, ConsumePrompt, ConsumeStatus, ConsumeStop
<1>3. CASE LaneStep
  BY <1>3
     DEF LaneStep, TakeLock, MarkProcessing, RestoreTurn, SaveRestored, FindFinalAnswer, BeginTurn, Begin,
         NewSession, CheckpointPreModel, ModelAnswers, ModelFails, ModelPanics, EndTurn, PruneJournal,
         CompactLedger, PersistTurn, PublishReply, MarkDone, CloseRequest, PublishClosed, Aborted,
         laneOnly, queues
<1>4. CASE StartupStep
  BY <1>4
     DEF StartupStep, PlanResumes, PlanStale, StartResume, PlanRedrive, RedriveEntry, RedriveFinished,
         queues, NextToDo
<1>5. CASE Crash \/ UNCHANGED vars
  BY <1>5 DEF Crash, vars, queues
<1>6. QED
  BY <1>1, <1>2, <1>3, <1>4, <1>5 DEF Next, SystemStep

LEMMA WaitingMoves ==
    ASSUME Typed, [Next]_vars
    PROVE  \/ waiting' = waiting
           \/ waiting' = <<>> /\ (Crash \/ ConsumeStop)
           \/ /\ ConsumePrompt /\ bus # <<>> /\ bus' = Tail(bus)
              /\ waiting' = Append(waiting, Head(bus)) /\ Head(bus) \in Dispatched
           \/ /\ TakeLock
              /\ \E n \in DOMAIN waiting : /\ waiting' = RemoveAt(waiting, n)
                                           /\ lane'.req = waiting[n]
<1>1. CASE Publish
  BY <1>1 DEF Publish, PublishNew, PublishDuplicate, Deliver
<1>2. CASE Consume
  BY <1>2 DEF Consume, ConsumePrompt, ConsumeStatus, ConsumeStop
<1>3. CASE LaneStep
  <2>1. CASE TakeLock
    BY <2>1 DEF TakeLock, Idle
  <2>2. CASE ~TakeLock
    BY <1>3, <2>2
       DEF LaneStep, MarkProcessing, RestoreTurn, SaveRestored, FindFinalAnswer, BeginTurn, Begin,
           NewSession, CheckpointPreModel, ModelAnswers, ModelFails, ModelPanics, EndTurn, PruneJournal,
           CompactLedger, PersistTurn, PublishReply, MarkDone, CloseRequest, PublishClosed, Aborted,
           laneOnly, queues
  <2>3. QED
    BY <2>1, <2>2
<1>4. CASE StartupStep
  BY <1>4
     DEF StartupStep, PlanResumes, PlanStale, StartResume, PlanRedrive, RedriveEntry, RedriveFinished,
         queues
<1>5. CASE Crash \/ UNCHANGED vars
  BY <1>5 DEF Crash, vars, queues
<1>6. QED
  BY <1>1, <1>2, <1>3, <1>4, <1>5 DEF Next, SystemStep

LEMMA TodoMoves ==
    ASSUME Typed, [Next]_vars
    PROVE  \/ startup'.todo = startup.todo
           \/ startup'.todo = <<>>
           \/ /\ RedriveEntry /\ startup.pc = "redriving" /\ startup.todo # <<>>
              /\ startup'.todo = Tail(startup.todo)
           \/ PlanRedrive /\ startup'.todo = RedrivePlan(journal)
<1>0. startup \in Startups(N)
  BY DEF Typed, StartupTyped
<1>1. CASE startup' = startup
  BY <1>1
<1>2. CASE Crash \/ RedriveFinished
  BY <1>2 DEF Crash, RedriveFinished, NoTurn
<1>3. CASE ModelPanics \/ PublishClosed
  BY <1>0, <1>3 DEF ModelPanics, PublishClosed, Startups
<1>4. CASE PlanResumes
  <2>1. CASE ToResume(journal) = {}
    BY <1>0, <1>4, <2>1 DEF PlanResumes, Startups
  <2>2. CASE ToResume(journal) # {}
    <3>1. PICK t, q, a : startup' = [startup EXCEPT !.pc = "resume", !.turn = t, !.req = q, !.attempt = a]
      BY <1>4, <2>2 DEF PlanResumes
    <3>2. QED
      BY <1>0, <3>1 DEF Startups
  <2>3. QED
    BY <2>1, <2>2
<1>5. CASE PlanStale \/ StartResume
  BY <1>0, <1>5 DEF PlanStale, StartResume, Startups
<1>6. CASE RedriveEntry
  <2>1. startup' = [startup EXCEPT !.todo = Tail(@)] /\ startup.pc = "redriving" /\ startup.todo # <<>>
    BY <1>6 DEF RedriveEntry
  <2>2. QED
    BY <1>0, <1>6, <2>1 DEF Startups
<1>7. CASE PlanRedrive
  BY <1>7 DEF PlanRedrive, NoTurn
<1>8. QED
  BY <1>1, <1>2, <1>3, <1>4, <1>5, <1>6, <1>7, StartupSame DEF StartupStep

--------------------------------------------------------------------------------
(* No prompt is lost: what was not started or answered yet is pending with its
   message.  The ledger says done only of a request that was. *)

Touched(r) == TurnsFor(r) # {} \/ RepliesTo(r) # {}
InBus(r) == r \in ToSet(bus)
InWait(r) == r \in ToSet(waiting)
ToDoSteps == ToSet(startup.todo)

KeptInLedger ==
    \A r \in Prompts :
        admitted[r] > 0 /\ ~Touched(r) => Pends(r) /\ HasMessage(journal, r)
LaneHasRun ==
    /\ lane.pc = "mark_done" => RepliesTo(lane.req) # {}
    /\ lane.resumed \/ lane.pc \in InTurn \cup {"close"} => TurnsFor(lane.req) # {}
    /\ startup.pc = "resume" => TurnsFor(startup.req) # {}
ClosesTouched ==
    \A s \in ToDoSteps : s.entry.req \in Prompts /\ s.action = "close" => Touched(s.entry.req)
Known(r) == Standing(journal, r) # "unknown"
OnlyAccepted ==
    /\ \A r \in Reqs : InBus(r) \/ InWait(r) \/ Known(r) => admitted[r] > 0
    /\ lane.pc # "idle" => admitted[lane.req] > 0
    /\ \A s \in ToDoSteps : admitted[s.entry.req] > 0
    /\ \A t \in DOMAIN turns : admitted[turns[t].req] > 0
PromptsSafe == KeptInLedger /\ LaneHasRun /\ ClosesTouched /\ OnlyAccepted

LEMMA RepliesSame ==
    ASSUME [Next]_vars, ~ConsumeStatus, ~ConsumeStop, ~PublishReply, ~PublishClosed,
           \A r \in Reqs : ~PublishDuplicate(r)
    PROVE  replies' = replies
BY DEF Next, vars, history, Publish, PublishNew, SystemStep, Consume, ConsumePrompt,
       LaneStep, TakeLock, MarkProcessing, RestoreTurn, SaveRestored, FindFinalAnswer, BeginTurn, Begin,
       NewSession, CheckpointPreModel, ModelAnswers, ModelFails, ModelPanics, EndTurn, PruneJournal,
       CompactLedger, PersistTurn, MarkDone, CloseRequest, Aborted, StartupStep, PlanResumes, PlanStale,
       StartResume, PlanRedrive, RedriveEntry, RedriveFinished, Crash

(* A reply is published by the agent, or is a stored one. *)
FromAgent(q) == \/ (ConsumeStatus \/ ConsumeStop) /\ q = Head(bus)
                \/ (PublishReply \/ PublishClosed) /\ q = lane.req

LEMMA RepliesGrow ==
    ASSUME Typed, [Next]_vars
    PROVE  \/ replies' = replies
           \/ \E q \in Reqs, t \in Nat : FromAgent(q) /\ Reply(q, t, FALSE)
           \/ \E q \in Reqs, t \in Nat : PublishDuplicate(q) /\ Reply(q, t, TRUE)
<1>1. CASE ConsumeStatus \/ ConsumeStop
  <2>1. Head(bus) \in Reqs /\ 0 \in Nat
    BY <1>1, TailTyped DEF ConsumeStatus, ConsumeStop, Typed, QueuesTyped
  <2>2. Reply(Head(bus), 0, FALSE)
    BY <1>1 DEF ConsumeStatus, ConsumeStop, ReplyWith
  <2>3. QED
    BY <1>1, <2>1, <2>2 DEF FromAgent
<1>2. CASE PublishReply \/ PublishClosed
  <2>1. lane.req \in Reqs /\ lane.turn \in Nat
    BY <1>2, NIsNat DEF PublishReply, PublishClosed, Typed, LaneTyped, Lanes, Reqs
  <2>2. Reply(lane.req, lane.turn, FALSE)
    BY <1>2 DEF PublishReply, PublishClosed, ReplyWith
  <2>3. QED
    BY <1>2, <2>1, <2>2 DEF FromAgent
<1>3. ASSUME NEW q \in Reqs, PublishDuplicate(q)
      PROVE  replies' = replies \/ \E t \in Nat : Reply(q, t, TRUE)
  BY <1>3, StoredReply
<1>4. QED
  BY <1>1, <1>2, <1>3, RepliesSame

LEMMA TouchedStays ==
    ASSUME Typed, [Next]_vars, NEW r
    PROVE  /\ TurnsFor(r) # {} => TurnsFor(r)' # {}
           /\ RepliesTo(r) # {} => RepliesTo(r)' # {}
           /\ Touched(r) => Touched(r)'
<1>1. turns \in Seq([req : Prompts, attempt : Nat]) /\ replies \in Seq(ReplyRecs)
  BY DEF Typed, CountsTyped
<1>2. \A t \in DOMAIN turns : t \in DOMAIN turns' /\ turns'[t] = turns[t]
  <2>1. CASE BeginTurn
    <3>1. PICK s \in Seq(MsgsTo(N)) : Begin(s)
      BY <2>1, BeginTurnIs
    <3>2. turns' = Append(turns, [req |-> lane.req, attempt |-> lane.attempt])
      BY <3>1 DEF Begin
    <3>3. lane.req \in Prompts /\ lane.attempt \in Nat
      BY <2>1 DEF BeginTurn, Typed, LaneTyped, Lanes
    <3>4. [req |-> lane.req, attempt |-> lane.attempt] \in [req : Prompts, attempt : Nat]
      BY <3>3
    <3>5. QED
      BY <1>1, <3>2, <3>4, AppendFacts
  <2>2. CASE ~BeginTurn
    BY <2>2, TurnsSame
  <2>3. QED
    BY <2>1, <2>2
<1>3. \A n \in DOMAIN replies : n \in DOMAIN replies' /\ replies'[n] = replies[n]
  <2>1. ASSUME NEW q \in Reqs, NEW t \in Nat, NEW again \in BOOLEAN, Reply(q, t, again)
        PROVE  \A n \in DOMAIN replies : n \in DOMAIN replies' /\ replies'[n] = replies[n]
    <3>1. [req |-> q, turn |-> t, redelivered |-> again] \in ReplyRecs
      BY DEF ReplyRecs
    <3>2. QED
      BY <1>1, <2>1, <3>1, AppendFacts DEF Reply
  <2>2. QED
    BY <2>1, RepliesGrow
<1>4. TurnsFor(r) # {} => TurnsFor(r)' # {}
  BY <1>2 DEF TurnsFor
<1>5. RepliesTo(r) # {} => RepliesTo(r)' # {}
  BY <1>3 DEF RepliesTo
<1>6. QED
  BY <1>4, <1>5 DEF Touched

LEMMA AdmittedSteps ==
    ASSUME Typed, [Next]_vars, NEW r \in Reqs
    PROVE  /\ PublishNew(r) => admitted'[r] = admitted[r] + 1
           /\ ~PublishNew(r) => admitted'[r] = admitted[r]
           /\ admitted[r] \in Nat /\ admitted'[r] \in Nat /\ admitted'[r] >= admitted[r]
<1>0. admitted \in [Reqs -> Nat]
  BY DEF Typed, CountsTyped
<1>1. \A q \in Reqs : PublishNew(q) => /\ admitted'[q] = admitted[q] + 1
                                       /\ \A p \in Reqs \ {q} : admitted'[p] = admitted[p]
  BY <1>0 DEF PublishNew
<1>2. CASE \E q \in Reqs : PublishNew(q)
  BY <1>0, <1>1, <1>2
<1>3. CASE \A q \in Reqs : ~PublishNew(q)
  <2>1. admitted' = admitted
    BY <1>3
       DEF Next, vars, history, Publish, PublishDuplicate, SystemStep, Consume,
           ConsumePrompt, ConsumeStatus, ConsumeStop, LaneStep, TakeLock, MarkProcessing, RestoreTurn,
           SaveRestored, FindFinalAnswer, BeginTurn, Begin, NewSession, CheckpointPreModel, ModelAnswers,
           ModelFails, ModelPanics, EndTurn, PruneJournal, CompactLedger, PersistTurn, PublishReply,
           MarkDone, CloseRequest, PublishClosed, Aborted, StartupStep, PlanResumes, PlanStale,
           StartResume, PlanRedrive, RedriveEntry, RedriveFinished, Crash
  <2>2. QED
    BY <1>0, <1>3, <2>1
<1>4. QED
  BY <1>2, <1>3

(* The turn that startup is about to resume is the newest of the interrupted
   ones, and its request is the one the turn was started for. *)
LEMMA PlanPicks ==
    ASSUME Typed, Counted, PlanResumes, startup'.pc = "resume"
    PROVE  \E t \in DOMAIN turns :
               /\ t \in ToResume(journal) /\ t \in Interrupted(journal) /\ t \in Unfinished(journal)
               /\ startup'.req = turns[t].req /\ startup'.attempt = turns[t].attempt + 1
<1>0. /\ N \in Nat /\ DOMAIN turns = 1..N /\ journal \in Seq(Recs(N)) /\ startup \in Startups(N)
  BY NIsNat DEF Typed, StoresTyped, StartupTyped, CountsTyped
<1> DEFINE t == First1(ToResume(journal))
           start == StartOf(journal, t)
<1>1. ToResume(journal) # {}
  BY <1>0 DEF PlanResumes, Startups
<1>2. startup' = [startup EXCEPT !.pc = "resume", !.turn = t, !.req = start.req,
                                 !.attempt = start.attempt + 1]
  BY <1>1 DEF PlanResumes
<1>3. t \in ToResume(journal) /\ t \in Unfinished(journal) /\ t \in 1..N /\ t \in TurnsWith(journal, "turn_start")
  BY <1>0, <1>1, PlansTyped, TurnsTyped
<1> HIDE DEF t
<1>4. t \in Interrupted(journal)
  BY <1>3 DEF ToResume
<1>5. <<t, start.req, start.attempt>> \in StartsIn(journal)
  <2>1. PICK i \in DOMAIN journal : start = journal[i] /\ journal[i].kind = "turn_start" /\ journal[i].turn = t
    BY <1>0, <1>3, StartOfFacts
  <2>2. journal[i] \in ToSet(journal)
    BY DEF ToSet
  <2>3. QED
    BY <2>1, <2>2 DEF StartsIn
<1> HIDE DEF start
<1>6. turns[t] = [req |-> start.req, attempt |-> start.attempt]
  BY <1>5 DEF Counted, StartsTell
<1>7. startup'.req = start.req /\ startup'.attempt = start.attempt + 1
  BY <1>0, <1>2 DEF Startups
<1>8. QED
  BY <1>0, <1>3, <1>4, <1>6, <1>7

LEMMA KeptInLedgerStep ==
    ASSUME Stops = {}, Resets = {}, Typed, PromptsSafe, [Next]_vars
    PROVE  KeptInLedger'
<1> SUFFICES ASSUME NEW r \in Prompts, admitted'[r] > 0, ~Touched(r)'
             PROVE  Pends(r)' /\ HasMessage(journal', r)
  BY DEF KeptInLedger
<1>0. r \in Reqs /\ ~Touched(r)
  BY TouchedStays DEF Reqs, Dispatched
<1>1. CASE PublishNew(r)
  BY <1>1, LedgerOpened DEF Pends
<1>2. CASE ~PublishNew(r)
  <2>1. admitted[r] > 0
    BY <1>0, <1>2, AdmittedSteps
  <2>2. Pends(r) /\ HasMessage(journal, r)
    BY <1>0, <2>1 DEF PromptsSafe, KeptInLedger
  <2>3. ~Closes(r)
    <3>1. ~(MarkDone /\ lane.req = r) /\ ~(CloseRequest /\ lane.req = r)
      BY <1>0 DEF MarkDone, CloseRequest, PromptsSafe, LaneHasRun, Touched
    <3>2. ~(RedriveEntry /\ NextToDo.action = "close" /\ NextToDo.entry.req = r)
      <4> SUFFICES ASSUME RedriveEntry, NextToDo.action = "close", NextToDo.entry.req = r
                   PROVE  FALSE
        OBVIOUS
      <4>1. startup.todo \in Seq(Steps(N)) /\ startup.todo # <<>>
        BY DEF RedriveEntry, Typed, StartupTyped, Startups
      <4>2. NextToDo \in ToDoSteps
        BY <4>1, TailApart DEF NextToDo, ToDoSteps
      <4>3. QED
        BY <1>0, <4>2 DEF PromptsSafe, ClosesTouched
    <3>3. ~ConsumeStop
      BY DEF ConsumeStop
    <3>4. QED
      BY <3>1, <3>2, <3>3 DEF Closes
  <2>4. ~NewSession
    BY DEF NewSession
  <2>5. CASE Crash
    BY <2>2, <2>5, LedgerKilled DEF Pends
  <2>6. CASE Marks(r)
    BY <2>2, <2>6, LedgerOpened DEF Pends
  <2>7. CASE CompactLedger
    BY <2>2, <2>7, LedgerRewritten DEF Pends, EntrySame, SameEntry
  <2>8. CASE ~Writes(r)
    BY <1>0, <2>2, <2>8, LedgerUntouched DEF Pends, EntrySame, SameEntry
  <2>9. QED
    BY <1>2, <2>3, <2>4, <2>5, <2>6, <2>7, <2>8 DEF Writes
<1>3. QED
  BY <1>1, <1>2

LEMMA LaneHasRunStep ==
    ASSUME Typed, Typed', OpenTurns, Counted, LaneHasRun, [Next]_vars
    PROVE  LaneHasRun'
<1>0. lane \in Lanes(N)
  BY DEF Typed, LaneTyped
<1>1. PICK q, p, u, v : q = lane.req /\ p = lane'.req /\ u = startup.req /\ v = startup'.req
  OBVIOUS
<1>2. /\ lane.pc = "mark_done" => RepliesTo(q) # {}
      /\ lane.resumed \/ lane.pc \in InTurn \cup {"close"} => TurnsFor(q) # {}
      /\ startup.pc = "resume" => TurnsFor(u) # {}
  BY <1>1 DEF LaneHasRun
<1>3. SUFFICES /\ lane'.pc = "mark_done" => RepliesTo(p)' # {}
               /\ lane'.resumed \/ lane'.pc \in InTurn \cup {"close"} => TurnsFor(p)' # {}
               /\ startup'.pc = "resume" => TurnsFor(v)' # {}
  BY <1>1 DEF LaneHasRun, RepliesTo, TurnsFor
<1>4. startup'.pc = "resume" => TurnsFor(v)' # {}
  <2> SUFFICES ASSUME startup'.pc = "resume" PROVE TurnsFor(v)' # {}
    OBVIOUS
  <2>1. CASE PlanResumes
    <3>1. PICK t \in DOMAIN turns : v = turns[t].req
      BY <1>1, <2>1, PlanPicks
    <3>2. turns' = turns
      BY <2>1 DEF PlanResumes, history
    <3>3. QED
      BY <3>1, <3>2 DEF TurnsFor
  <2>2. CASE startup.pc = "resume" /\ v = u
    BY <1>2, <2>2, TouchedStays
  <2>3. QED
    BY <1>1, <2>1, <2>2, StartupFields
<1>5. CASE lane' = Idle
  BY <1>4, <1>5 DEF Idle, InTurn
<1>6. CASE TakeLock /\ lane'.pc = "locked" /\ ~lane'.resumed
  BY <1>4, <1>6 DEF InTurn
<1>7. CASE StartResume /\ lane'.pc = "restore" /\ lane'.resumed /\ lane'.req = startup.req
  <2>1. TurnsFor(u)' # {}
    BY <1>2, <1>7, TouchedStays DEF StartResume
  <2>2. QED
    BY <1>1, <1>4, <1>7, <2>1
<1>8. CASE LaneOn
  <2>1. p = q /\ lane'.resumed = lane.resumed
    BY <1>1, <1>8 DEF LaneOn
  <2>2. lane'.pc = "mark_done" => RepliesTo(q)' # {}
    <3>1. CASE PublishReply
      <4> DEFINE rep == [req |-> q, turn |-> lane.turn, redelivered |-> FALSE]
                 c == Append(replies, rep)
      <4>1. replies' = c
        BY <1>1, <3>1 DEF PublishReply, ReplyWith, Reply
      <4>2. replies \in Seq(ReplyRecs)
        BY DEF Typed, CountsTyped
      <4>3. rep \in ReplyRecs /\ rep.req = q
        BY <1>1, <3>1, NIsNat DEF PublishReply, Typed, LaneTyped, Lanes, Reqs, ReplyRecs
      <4>4. Len(replies) + 1 \in DOMAIN c /\ c[Len(replies) + 1] = rep
        BY <4>2, <4>3, AppendFacts
      <4> HIDE DEF rep, c
      <4>5. QED
        BY <4>1, <4>3, <4>4 DEF RepliesTo
    <3>2. CASE ~PublishReply
      <4>1. lane'.pc = "mark_done" => lane.pc = "mark_done"
        BY <1>8, <3>2 DEF LaneOn, InTurn
      <4>2. QED
        BY <1>2, <4>1, TouchedStays
    <3>3. QED
      BY <3>1, <3>2
  <2>3. ASSUME lane'.resumed \/ lane'.pc \in InTurn \cup {"close"} PROVE TurnsFor(q)' # {}
    <3>1. CASE BeginTurn
      <4>1. PICK s \in Seq(MsgsTo(N)) : Begin(s)
        BY <3>1, BeginTurnIs
      <4> DEFINE rec == [req |-> q, attempt |-> lane.attempt]
                 c == Append(turns, rec)
      <4>2. turns' = c /\ rec.req = q
        BY <1>1, <4>1 DEF Begin
      <4>3. q \in Prompts /\ lane.attempt \in Nat
        BY <1>1, <3>1 DEF BeginTurn, Typed, LaneTyped, Lanes
      <4>4. rec \in [req : Prompts, attempt : Nat] /\ turns \in Seq([req : Prompts, attempt : Nat])
        BY <4>3 DEF Typed, CountsTyped
      <4>5. Len(turns) + 1 \in DOMAIN c /\ c[Len(turns) + 1] = rec
        BY <4>4, AppendFacts
      <4> HIDE DEF rec, c
      <4>6. QED
        BY <4>2, <4>5 DEF TurnsFor
    <3>2. CASE ~BeginTurn
      <4>1. lane.resumed \/ lane.pc \in InTurn \cup {"close"}
        BY <1>8, <2>1, <2>3, <3>2 DEF LaneOn, InTurn, Typed, LaneTyped
      <4>2. QED
        BY <1>2, <4>1, TouchedStays
    <3>3. QED
      BY <3>1, <3>2
  <2>4. QED
    BY <1>4, <2>1, <2>2, <2>3
<1>9. QED
  BY <1>5, <1>6, <1>7, <1>8, LaneMoves

LEMMA KnownSteps ==
    ASSUME Typed, [Next]_vars, NEW r \in Reqs, Known(r)'
    PROVE  Known(r) \/ PublishNew(r) \/ Marks(r) \/ Closes(r)
<1>1. CASE Crash
  BY <1>1, LedgerKilled DEF Known
<1>2. CASE CompactLedger \/ NewSession
  BY <1>2, LedgerRewritten DEF Known, EntrySame, SameEntry, EntryGone
<1>3. CASE ~Writes(r)
  BY <1>3, LedgerUntouched DEF Known, EntrySame, SameEntry
<1>4. QED
  BY <1>1, <1>2, <1>3 DEF Writes

LEMMA RedriveSteps ==
    ASSUME Typed
    PROVE  /\ \A s \in ToDoSteps : s.entry.req \in Reqs
           /\ RedriveEntry => NextToDo \in ToDoSteps
           /\ \A x : startup.todo # <<>> /\ x \in ToSet(Tail(startup.todo)) => x \in ToDoSteps
<1>1. startup.todo \in Seq(Steps(N))
  BY DEF Typed, StartupTyped, Startups
<1>2. RedriveEntry => startup.todo # <<>>
  BY DEF RedriveEntry
<1>3. \A s \in ToDoSteps : s \in Steps(N)
  BY <1>1, ToSetIs DEF ToDoSteps
<1>4. \A s \in ToDoSteps : s.entry.req \in Reqs
  BY <1>3 DEF Steps, Entries
<1>5. QED
  BY <1>1, <1>2, <1>4, TailApart DEF NextToDo, ToDoSteps

LEMMA NewSteps ==
    ASSUME Typed, [Next]_vars, NEW s \in ToSet(startup'.todo)
    PROVE  s \in ToDoSteps \/ (PlanRedrive /\ startup'.todo = RedrivePlan(journal))
<1>1. CASE startup'.todo = startup.todo
  BY <1>1 DEF ToDoSteps
<1>2. CASE startup'.todo = <<>>
  BY <1>2 DEF ToSet
<1>3. CASE startup.todo # <<>> /\ startup'.todo = Tail(startup.todo)
  BY <1>3, RedriveSteps
<1>4. QED
  BY <1>1, <1>2, <1>3, TodoMoves

LEMMA StartTells ==
    ASSUME Counted, NEW i \in DOMAIN journal, journal[i].kind = "turn_start"
    PROVE  /\ journal[i].turn \in DOMAIN turns
           /\ turns[journal[i].turn].req = journal[i].req
           /\ turns[journal[i].turn].attempt = journal[i].attempt
<1> DEFINE a == journal[i]
           s == <<a.turn, a.req, a.attempt>>
<1>1. a \in ToSet(journal)
  BY DEF ToSet
<1> HIDE DEF a
<1>2. s \in StartsIn(journal)
  BY <1>1 DEF StartsIn, a
<1>3. s[1] = a.turn /\ s[2] = a.req /\ s[3] = a.attempt
  OBVIOUS
<1> HIDE DEF s
<1>4. s[1] \in DOMAIN turns /\ turns[s[1]] = [req |-> s[2], attempt |-> s[3]]
  BY <1>2 DEF Counted, StartsTell
<1>5. QED
  BY <1>3, <1>4 DEF a

LEMMA ClosesTouchedStep ==
    ASSUME Typed, Counted, PromptsSafe, [Next]_vars
    PROVE  ClosesTouched'
<1> SUFFICES ASSUME NEW s \in ToSet(startup'.todo), s.entry.req \in Prompts, s.action = "close"
             PROVE  Touched(s.entry.req)'
  BY DEF ClosesTouched, ToDoSteps
<1>0. journal \in Seq(Recs(N))
  BY DEF Typed, StoresTyped
<1>1. CASE s \in ToDoSteps
  BY <1>1, TouchedStays DEF PromptsSafe, ClosesTouched
<1>2. CASE PlanRedrive /\ startup'.todo = RedrivePlan(journal)
  <2>1. PICK n \in DOMAIN RedrivePlan(journal) : s = RedrivePlan(journal)[n]
    BY <1>2 DEF ToSet
  <2> DEFINE r == s.entry.req
  <2>2. /\ InLedger(journal, r)
        /\ s.entry.message <=> HasMessage(journal, r)
        /\ s.action = RedriveAction(journal, s.entry)
    BY <1>0, <2>1, RedrivePlanFacts
  <2>3. CASE TurnsOf(journal, r) = {}
    <3>1. ~HasMessage(journal, r)
      BY <2>2, <2>3 DEF RedriveAction
    <3>2. Known(r) /\ r \in Reqs
      BY <2>2, StandingTyped DEF Known, Reqs, Dispatched
    <3>3. admitted[r] > 0
      BY <3>2 DEF PromptsSafe, OnlyAccepted
    <3>4. Touched(r)
      BY <3>1, <3>3 DEF PromptsSafe, KeptInLedger
    <3>5. QED
      BY <3>4, TouchedStays
  <2>4. CASE TurnsOf(journal, r) # {}
    <3>1. PICK i \in DOMAIN journal : journal[i].kind = "turn_start" /\ journal[i].req = r
      BY <2>4 DEF TurnsOf, Records, Is
    <3>2. journal[i].turn \in DOMAIN turns /\ turns[journal[i].turn].req = r
      BY <3>1, StartTells
    <3>3. TurnsFor(r) # {}
      BY <3>2 DEF TurnsFor
    <3>4. QED
      BY <3>3, TouchedStays DEF Touched
  <2>5. QED
    BY <2>3, <2>4
<1>3. QED
  BY <1>1, <1>2, NewSteps

LEMMA OnlyAcceptedStep ==
    ASSUME Typed, Counted, LaneHasRun, OnlyAccepted, [Next]_vars
    PROVE  OnlyAccepted'
<1>0. /\ OnlyAccepted /\ bus \in Seq(Reqs) /\ waiting \in Seq(Dispatched)
      /\ journal \in Seq(Recs(N)) /\ N \in Nat /\ DOMAIN turns = 1..N
      /\ turns \in Seq([req : Prompts, attempt : Nat])
  BY NIsNat DEF Typed, QueuesTyped, StoresTyped, CountsTyped
<1>1. \A r \in Reqs : admitted[r] > 0 => admitted'[r] > 0
  BY AdmittedSteps
<1>2. \A r \in Reqs : PublishNew(r) => admitted'[r] > 0
  BY AdmittedSteps
<1>3. /\ \A r \in Reqs : InBus(r) \/ InWait(r) \/ Known(r) => admitted'[r] > 0
      /\ lane.pc # "idle" => lane.req \in Reqs /\ admitted'[lane.req] > 0
      /\ \A s \in ToDoSteps : s.entry.req \in Reqs /\ admitted'[s.entry.req] > 0
      /\ \A t \in DOMAIN turns : turns[t].req \in Reqs /\ admitted'[turns[t].req] > 0
  <2>1. lane.pc # "idle" => lane.req \in Reqs
    BY DEF Typed, LaneTyped, Reqs
  <2>2. \A t \in DOMAIN turns : turns[t].req \in Reqs
    <3>1. \A t \in DOMAIN turns : turns[t] \in [req : Prompts, attempt : Nat]
      BY <1>0, SeqElements
    <3>2. QED
      BY <3>1 DEF Reqs, Dispatched
  <2>3. \A s \in ToDoSteps : s.entry.req \in Reqs
    BY RedriveSteps
  <2>4. QED
    BY <1>0, <1>1, <2>1, <2>2, <2>3 DEF OnlyAccepted
<1>4. ASSUME NEW r \in Reqs, r \in ToSet(bus') PROVE admitted'[r] > 0
  <2>1. CASE bus' = bus
    BY <1>3, <1>4, <2>1 DEF InBus
  <2>2. CASE bus' = <<>>
    BY <1>4, <2>2 DEF ToSet
  <2>3. CASE bus # <<>> /\ bus' = Tail(bus)
    <3>1. r \in ToSet(bus)
      BY <1>0, <1>4, <2>3, TailApart
    <3>2. QED
      BY <1>3, <3>1 DEF InBus
  <2>4. ASSUME NEW q \in Reqs, admitted'[q] > 0, bus' = Append(bus, q) PROVE admitted'[r] > 0
    <3>1. r \in ToSet(bus) \/ r = q
      BY <1>0, <1>4, <2>4, AppendApart
    <3>2. QED
      BY <1>3, <2>4, <3>1 DEF InBus
  <2>5. RedriveEntry => NextToDo.entry.req \in Reqs /\ admitted'[NextToDo.entry.req] > 0
    BY <1>3, RedriveSteps
  <2>6. QED
    BY <1>2, <2>1, <2>2, <2>3, <2>4, <2>5, BusMoves
<1>5. ASSUME NEW r \in Reqs, r \in ToSet(waiting') PROVE admitted'[r] > 0
  <2>1. CASE waiting' = waiting
    BY <1>3, <1>5, <2>1 DEF InWait
  <2>2. CASE waiting' = <<>>
    BY <1>5, <2>2 DEF ToSet
  <2>3. CASE bus # <<>> /\ waiting' = Append(waiting, Head(bus)) /\ Head(bus) \in Dispatched
    <3>1. Head(bus) \in ToSet(bus) /\ Head(bus) \in Reqs
      BY <1>0, <2>3, TailApart, TailTyped
    <3>2. r \in ToSet(waiting) \/ r = Head(bus)
      BY <1>0, <1>5, <2>3, AppendApart
    <3>3. QED
      BY <1>3, <3>1, <3>2 DEF InWait, InBus
  <2>4. ASSUME NEW n \in DOMAIN waiting, waiting' = RemoveAt(waiting, n) PROVE admitted'[r] > 0
    <3>1. r \in ToSet(waiting)
      BY <1>0, <1>5, <2>4, RemoveApart
    <3>2. QED
      BY <1>3, <3>1 DEF InWait
  <2>5. QED
    BY <2>1, <2>2, <2>3, <2>4, WaitingMoves
<1>6. ASSUME NEW r \in Reqs, Known(r)' PROVE admitted'[r] > 0
  <2>1. CASE Closes(r)
    <3>1. \/ lane.pc # "idle" /\ lane.req = r
          \/ RedriveEntry /\ NextToDo.entry.req = r
          \/ Known(r)
      BY <2>1 DEF Closes, MarkDone, CloseRequest, Pends, Known
    <3>2. QED
      BY <1>3, <3>1, RedriveSteps
  <2>2. CASE Marks(r)
    BY <1>3, <2>2 DEF Marks, MarkProcessing
  <2>3. QED
    BY <1>2, <1>3, <1>6, <2>1, <2>2, KnownSteps
<1>7. ASSUME lane'.pc # "idle" PROVE admitted'[lane'.req] > 0
  <2>1. CASE lane' = Idle
    BY <1>7, <2>1 DEF Idle
  <2>2. CASE TakeLock
    <3>1. PICK n \in DOMAIN waiting : lane'.req = waiting[n]
      BY <2>2 DEF TakeLock, Idle
    <3>2. waiting[n] \in ToSet(waiting) /\ waiting[n] \in Reqs
      BY <1>0, SeqElements, ToSetIs DEF Reqs
    <3>3. QED
      BY <1>3, <3>1, <3>2 DEF InWait
  <2>3. CASE StartResume /\ lane'.req = startup.req
    <3>1. PICK t \in DOMAIN turns : turns[t].req = startup.req
      BY <2>3 DEF StartResume, LaneHasRun, TurnsFor
    <3>2. QED
      BY <1>3, <2>3, <3>1
  <2>4. CASE LaneOn
    <3>1. lane'.req = lane.req /\ lane.pc # "idle"
      BY <1>7, <2>4 DEF LaneOn, InTurn
    <3>2. QED
      BY <1>3, <3>1
  <2>5. QED
    BY <2>1, <2>2, <2>3, <2>4, LaneMoves
<1>8. ASSUME NEW s \in ToSet(startup'.todo) PROVE admitted'[s.entry.req] > 0
  <2>1. CASE s \in ToDoSteps
    BY <1>3, <2>1
  <2>2. CASE startup'.todo = RedrivePlan(journal)
    <3>1. PICK n \in DOMAIN RedrivePlan(journal) : s = RedrivePlan(journal)[n]
      BY <2>2 DEF ToSet
    <3>2. InLedger(journal, s.entry.req)
      BY <1>0, <3>1, RedrivePlanFacts
    <3>3. Known(s.entry.req) /\ s.entry.req \in LedgerReqs(journal)
      BY <3>2, StandingTyped, InLedgerIs DEF Known
    <3>4. s.entry.req \in Reqs
      BY <1>0, <3>3, EntryTyped
    <3>5. QED
      BY <1>3, <3>3, <3>4
  <2>3. QED
    BY <2>1, <2>2, NewSteps
<1>9. ASSUME NEW t \in DOMAIN turns' PROVE admitted'[turns'[t].req] > 0
  <2>1. CASE BeginTurn
    <3>1. PICK s \in Seq(MsgsTo(N)) : Begin(s)
      BY <2>1, BeginTurnIs
    <3> DEFINE rec == [req |-> lane.req, attempt |-> lane.attempt]
    <3>2. turns' = Append(turns, rec)
      BY <3>1 DEF Begin
    <3>3. lane.req \in Prompts /\ lane.attempt \in Nat /\ lane.pc # "idle" /\ rec.req = lane.req
      BY <2>1 DEF BeginTurn, Typed, LaneTyped, Lanes
    <3>4. rec \in [req : Prompts, attempt : Nat]
      BY <3>3
    <3>5. turns'[t] = rec \/ (t \in DOMAIN turns /\ turns'[t] = turns[t])
      BY <1>0, <1>9, <3>2, <3>4, AppendFacts
    <3>6. QED
      BY <1>3, <3>3, <3>5
  <2>2. CASE ~BeginTurn
    BY <1>3, <1>9, <2>2, TurnsSame
  <2>3. QED
    BY <2>1, <2>2
<1>10. QED
  BY <1>4, <1>5, <1>6, <1>7, <1>8, <1>9 DEF OnlyAccepted, InBus, InWait, ToDoSteps

(* "No queued message is lost": a prompt that was accepted and not yet started,
   answered or stopped is pending in the ledger with its message, so that a
   restart feeds it back, whatever kills, priority commands, panics, merges,
   prunes, compactions and re-drives come in between.  Without /stop and /new,
   which close or delete ledger entries on purpose. *)
THEOREM PromptsNotLost ==
    ASSUME Stops = {}, Resets = {}
    PROVE  Spec => []QueuedNeverLost
<1>1. Init => PromptsSafe
  <2> SUFFICES ASSUME Init PROVE PromptsSafe
    OBVIOUS
  <2>1. /\ lane.pc = "idle" /\ lane.resumed = FALSE /\ startup.pc = "done" /\ startup.todo = <<>>
        /\ bus = <<>> /\ waiting = <<>> /\ turns = <<>>
    BY DEF Init, Idle, NoTurn
  <2>2. \A r \in Reqs : admitted[r] = 0
    BY DEF Init
  <2>3. \A r : ~Known(r)
    BY DEF Init, Known, Standing, InLedger, RecordsOf, Records
  <2>4. ToDoSteps = {} /\ \A r : ~InBus(r) /\ ~InWait(r)
    BY <2>1 DEF ToDoSteps, InBus, InWait, ToSet
  <2>5. KeptInLedger
    BY <2>2 DEF KeptInLedger, Reqs, Dispatched
  <2>6. LaneHasRun
    BY <2>1 DEF LaneHasRun, InTurn
  <2>7. OnlyAccepted
    BY <2>1, <2>3, <2>4 DEF OnlyAccepted
  <2>8. QED
    BY <2>4, <2>5, <2>6, <2>7 DEF PromptsSafe, ClosesTouched
<1>2. Typed /\ Typed' /\ OpenTurns /\ Counted /\ PromptsSafe /\ [Next]_vars => PromptsSafe'
  BY KeptInLedgerStep, LaneHasRunStep, ClosesTouchedStep, OnlyAcceptedStep DEF PromptsSafe
<1>3. Typed /\ PromptsSafe => QueuedNeverLost
  <2> SUFFICES ASSUME Typed, PromptsSafe, NEW r \in Prompts, admitted[r] > 0,
                      TurnsFor(r) = {}, RepliesTo(r) = {}
               PROVE  IsPending(r) /\ Entry(journal, r).message
    BY DEF QueuedNeverLost
  <2>1. Pends(r) /\ HasMessage(journal, r)
    BY DEF PromptsSafe, KeptInLedger, Touched
  <2>2. QED
    BY <2>1, StandingTyped DEF HasMessage
<1>4. QED
  BY <1>1, <1>2, <1>3, TypesHold, CountsHold, PTL DEF Spec

--------------------------------------------------------------------------------
(* Who holds a request.  Without /stop, /new and panics, one task at a time is
   to answer a request: it is on the bus, with a dispatch task, with the lane,
   or startup is about to resume or to re-drive it, and meanwhile it pends. *)

Busy(r) == lane.pc \notin {"idle", "publish"} /\ lane.req = r
Resumes(r) == startup.pc = "resume" /\ startup.req = r
ToDo(r) == \E s \in ToDoSteps : s.action # "keep" /\ s.entry.req = r
Held(r) == InBus(r) \/ InWait(r) \/ Busy(r) \/ Resumes(r) \/ ToDo(r)
Fresh(r) == InBus(r) \/ InWait(r) \/ (Busy(r) /\ ~lane.resumed)
Starting == startup.pc \in {"plan", "resume", "resuming", "redrive"}

OneHolder(r) ==
    /\ InBus(r) => ~InWait(r) /\ ~Busy(r) /\ ~Resumes(r) /\ ~ToDo(r)
    /\ InWait(r) => ~Busy(r) /\ ~Resumes(r) /\ ~ToDo(r)
    /\ Busy(r) => ~Resumes(r) /\ ~ToDo(r)
    /\ Resumes(r) => ~ToDo(r)
TodoOnce ==
    /\ \A i, k \in DOMAIN startup.todo :
          startup.todo[i].entry.req = startup.todo[k].entry.req => i = k
    /\ startup.pc # "redriving" => startup.todo = <<>>
OnceEach == Inj(bus) /\ Inj(waiting) /\ TodoOnce
(* What was accepted before the kill is not live; startup tells by it what this
   process has been given. *)
HeldLive == Starting => \A r \in Reqs : Fresh(r) => IsLive(journal, r)
OpenPends == \A t \in Unfinished(journal) : Pends(turns[t].req)
OldStart(a) == a.kind = "turn_start" /\ a.live = FALSE
OldStarts(j) == {a.turn : a \in {b \in ToSet(j) : OldStart(b)}}
OldNotLive ==
    startup.pc = "plan" =>
        \A t \in Unfinished(journal) \cap OldStarts(journal) : ~IsLive(journal, turns[t].req)
ToDoUnstarted == \A r \in Reqs : ToDo(r) => \A t \in Unfinished(journal) : turns[t].req # r
LaneAfter ==
    /\ lane.pc \in {"reply", "mark_done", "close", "publish"} => Unfinished(journal) = {}
    /\ lane.pc = "publish" => Standing(journal, lane.req) = "done"
HeldOnce ==
    /\ \A r \in Reqs : OneHolder(r)
    /\ \A r \in Reqs : Held(r) => Pends(r)
    /\ OnceEach /\ HeldLive /\ OpenPends /\ OldNotLive /\ ToDoUnstarted /\ LaneAfter

(* Only a kill makes a record old. *)
NoneOlder == \A a \in ToSet(journal') : OldStart(a) => a \in ToSet(journal)

LEMMA OldSteps ==
    ASSUME Typed, [Next]_vars, ~Crash
    PROVE  OldStarts(journal') \subseteq OldStarts(journal)
<1> SUFFICES NoneOlder
  BY DEF NoneOlder, OldStarts
<1>0. N \in Nat /\ journal \in Seq(Recs(N))
  BY NIsNat DEF Typed, StoresTyped
<1>1. UNCHANGED journal => NoneOlder
  BY DEF NoneOlder
<1>2. \A rec : Write(rec) /\ ~OldStart(rec) => NoneOlder
  <2> TAKE rec
  <2>1. journal \in Seq(Recs(N) \cup {rec})
    BY <1>0, SeqMonotone
  <2>2. ToSet(Append(journal, rec)) = ToSet(journal) \cup {rec}
    BY <2>1, AppendFacts
  <2>3. QED
    BY <2>2 DEF Write, NoneOlder
<1>3. \A r, s, o, m : Write(Inbox(r, s, o, m)) => NoneOlder
  <2> TAKE r, s, o, m
  <2>1. ~OldStart(Inbox(r, s, o, m))
    BY DEF Inbox, OldStart
  <2>2. QED
    BY <1>2, <2>1
<1>4. /\ \A t, p : Write(StepCheckpoint(t, p)) => NoneOlder
      /\ \A t, o : Write(TurnEnd(t, o)) => NoneOlder
      /\ \A t : Write(TurnRestored(t)) => NoneOlder
      /\ \A t, r, a, u : Write(TurnStart(t, r, a, u)) => NoneOlder
  <2>1. /\ \A t, p : ~OldStart(StepCheckpoint(t, p))
        /\ \A t, o : ~OldStart(TurnEnd(t, o))
        /\ \A t : ~OldStart(TurnRestored(t))
        /\ \A t, r, a, u : ~OldStart(TurnStart(t, r, a, u))
    BY DEF StepCheckpoint, TurnEnd, TurnRestored, TurnStart, OldStart
  <2>2. QED
    BY <1>2, <2>1
<1>5. \A E : ToSet(journal') = ToSet(journal) \cup E /\ (\A a \in E : ~OldStart(a)) => NoneOlder
  BY DEF NoneOlder
<1>6. CASE PruneJournal \/ CompactLedger \/ NewSession
  <2>1. CASE PruneJournal
    <3>1. PrunedAt(journal) \subseteq DOMAIN journal
      BY DEF PrunedAt
    <3>2. ToSet(journal') = {journal[i] : i \in PrunedAt(journal)}
      BY <1>0, <2>1, <3>1, PrunedIs, ElementsOfPart DEF PruneJournal
    <3>3. QED
      BY <3>1, <3>2 DEF ToSet, NoneOlder
  <2>2. CASE CompactLedger
    <3>1. ToSet(journal') \subseteq {journal[i] : i \in OthersAt(journal)}
                                        \cup {EntryRecord(e) : e \in EntriesOf(journal)}
      BY <1>0, <2>2, CompactedRecords DEF CompactLedger
    <3>2. \A e : EntryRecord(e).kind = "inbox"
      BY EntryRecordIs
    <3>3. QED
      BY <3>1, <3>2 DEF OthersAt, ToSet, NoneOlder, OldStart
  <2>3. CASE NewSession
    BY <2>3 DEF NewSession, ToSet, NoneOlder
  <2>4. QED
    BY <1>6, <2>1, <2>2, <2>3
<1>7. CASE Publish
  BY <1>1, <1>3, <1>7 DEF Publish, PublishNew, PublishDuplicate
<1>8. CASE Consume
  <2>1. CASE ConsumeStop
    <3> DEFINE E == ToSet(Closing(Pending(journal)))
    <3>1. journal' = journal \o Closing(Pending(journal))
      BY <2>1 DEF ConsumeStop, PendingClosed, Closing
    <3>2. Closing(Pending(journal)) \in Seq(InboxRecs(N))
      BY <1>0, ClosingFacts
    <3>3. Closing(Pending(journal)) \in Seq(Recs(N)) /\ E \subseteq InboxRecs(N)
      BY <3>2, SeqMonotone, ToSetIs DEF Recs
    <3>4. \A a \in E : ~OldStart(a)
      BY <3>3 DEF InboxRecs, OldStart
    <3>5. ToSet(journal') = ToSet(journal) \cup E
      BY <1>0, <3>1, <3>3, ConcatFacts
    <3> HIDE DEF E
    <3>6. QED
      BY <1>5, <3>4, <3>5
  <2>2. QED
    BY <1>1, <1>8, <2>1 DEF Consume, ConsumePrompt, ConsumeStatus, stores
<1>9. CASE LaneStep
  <2>1. CASE MarkProcessing \/ MarkDone \/ CloseRequest
    BY <1>1, <1>3, <2>1 DEF MarkProcessing, MarkDone, CloseRequest
  <2>2. CASE CheckpointPreModel \/ ModelAnswers \/ RestoreTurn \/ EndTurn
    BY <1>4, <2>2 DEF CheckpointPreModel, ModelAnswers, RestoreTurn, EndTurn
  <2>3. CASE Aborted
    BY <1>1, <1>4, <2>3 DEF Aborted
  <2>4. CASE TakeLock \/ SaveRestored \/ FindFinalAnswer \/ ModelFails \/ ModelPanics \/ PersistTurn
              \/ PublishReply \/ PublishClosed
    BY <1>1, <2>4
       DEF TakeLock, SaveRestored, FindFinalAnswer, ModelFails, ModelPanics, PersistTurn,
           PublishReply, PublishClosed, stores
  <2>5. CASE BeginTurn
    <3>1. PICK s : Begin(s)
      BY <2>5, BeginTurnIs
    <3>2. QED
      BY <1>4, <3>1 DEF Begin
  <2>6. QED
    BY <1>6, <1>9, <2>1, <2>2, <2>3, <2>4, <2>5 DEF LaneStep
<1>10. CASE StartupStep
  <2>1. ASSUME NEW S \in SUBSET (1..N), journal' = journal \o Abandon(S) PROVE NoneOlder
    <3> DEFINE E == {TurnEnd(t, "abandoned") : t \in S}
    <3>1. ToSet(journal') = ToSet(journal) \cup E
      BY <1>0, <2>1, AbandonFacts
    <3>2. \A a \in E : ~OldStart(a)
      BY DEF TurnEnd, OldStart
    <3> HIDE DEF E
    <3>3. QED
      BY <1>5, <3>1, <3>2
  <2>2. Interrupted(journal) \in SUBSET (1..N) /\ ToAbandon(journal) \in SUBSET (1..N)
    BY <1>0, PlansTyped
  <2>3. CASE PlanResumes
    <3>1. journal' = journal \o Abandon(ToAbandon(journal))
      BY <2>3 DEF PlanResumes, Abandon
    <3>2. QED
      BY <2>1, <2>2, <3>1
  <2>4. CASE PlanStale
    <3>1. journal' = journal \o Abandon(Interrupted(journal) \ {Newest(Interrupted(journal))})
      BY <2>4 DEF PlanStale, Abandon
    <3>2. Interrupted(journal) \ {Newest(Interrupted(journal))} \in SUBSET (1..N)
      BY <2>2
    <3>3. QED
      BY <2>1, <3>1, <3>2
  <2>5. CASE RedriveEntry
    BY <1>1, <1>3, <2>5 DEF RedriveEntry
  <2>6. CASE StartResume \/ PlanRedrive \/ RedriveFinished
    BY <1>1, <2>6 DEF StartResume, PlanRedrive, RedriveFinished, stores
  <2>7. QED
    BY <1>10, <2>3, <2>4, <2>5, <2>6 DEF StartupStep
<1>11. CASE UNCHANGED vars
  BY <1>1, <1>11 DEF vars, stores
<1>12. QED
  BY <1>7, <1>8, <1>9, <1>10, <1>11 DEF Next, SystemStep

(* Startup takes on a turn that the kill cut short, and with it its request. *)
Cut(r) ==
    /\ startup.pc = "plan"
    /\ \E t \in Unfinished(journal) \cap OldStarts(journal) : turns[t].req = r

LEMMA ResumesCut ==
    ASSUME Typed, Counted, PlanResumes, NEW r, Resumes(r)'
    PROVE  Cut(r)
<1>0. journal \in Seq(Recs(N)) /\ startup.pc = "plan"
  BY DEF Typed, StoresTyped, PlanResumes
<1>1. startup'.pc = "resume" /\ startup'.req = r
  BY DEF Resumes
<1>2. PICK t \in DOMAIN turns : /\ t \in Interrupted(journal) /\ t \in Unfinished(journal)
                                /\ startup'.req = turns[t].req
  BY <1>1, PlanPicks
<1>3. t \in OldStarts(journal)
  <2>1. t \in TurnsWith(journal, "turn_start") /\ ~StartOf(journal, t).live
    BY <1>2 DEF Interrupted, Unfinished
  <2>2. PICK i \in DOMAIN journal :
           StartOf(journal, t) = journal[i] /\ journal[i].kind = "turn_start" /\ journal[i].turn = t
    BY <1>0, <2>1, StartOfFacts
  <2> DEFINE a == journal[i]
  <2>3. a \in ToSet(journal) /\ a \in Recs(N)
    BY <1>0, SeqElements DEF ToSet
  <2>4. a.kind = "turn_start" /\ a.turn = t /\ ~a.live
    BY <2>1, <2>2
  <2> HIDE DEF a
  <2>5. a.live = FALSE
    BY <2>3, <2>4, RecKinds
  <2>6. QED
    BY <2>3, <2>4, <2>5 DEF OldStarts, OldStart
<1>4. QED
  BY <1>0, <1>1, <1>2, <1>3 DEF Cut

(* Nobody else holds such a request, or one that startup re-drives. *)
LEMMA ResumesOld ==
    ASSUME Typed, Counted, HeldOnce, PlanResumes, NEW r, Resumes(r)'
    PROVE  Pends(r) /\ ~IsLive(journal, r)
BY ResumesCut DEF Cut, HeldOnce, OpenPends, OldNotLive

LEMMA RedrivesOld ==
    ASSUME Typed, Counted, PlanRedrive, NEW r, ToDo(r)'
    PROVE  /\ Pends(r) /\ ~IsLive(journal, r)
           /\ \A t \in Unfinished(journal) : turns[t].req # r
<1>0. journal \in Seq(Recs(N))
  BY DEF Typed, StoresTyped
<1>1. startup'.todo = RedrivePlan(journal)
  BY DEF PlanRedrive, NoTurn
<1>2. PICK n \in DOMAIN RedrivePlan(journal) : /\ RedrivePlan(journal)[n].action # "keep"
                                               /\ RedrivePlan(journal)[n].entry.req = r
  BY <1>1 DEF ToDo, ToDoSteps, ToSet
<1>3. /\ InLedger(journal, r) /\ Standing(journal, r) # "done" /\ ~IsLive(journal, r)
      /\ RedriveAction(journal, RedrivePlan(journal)[n].entry) # "keep"
  BY <1>0, <1>2, RedrivePlanFacts
<1>4. Pends(r)
  BY <1>3, StandingTyped DEF Pends
<1>5. TurnsOf(journal, r) \subseteq Ended(journal)
  BY <1>2, <1>3 DEF RedriveAction
<1>6. ASSUME NEW t \in Unfinished(journal) PROVE turns[t].req # r
  <2>1. t \in TurnsWith(journal, "turn_start") /\ t \notin Ended(journal)
    BY DEF Unfinished
  <2>2. PICK i \in DOMAIN journal : journal[i].kind = "turn_start" /\ journal[i].turn = t
    BY <2>1 DEF TurnsWith, Records, Is
  <2>3. turns[t].req = journal[i].req
    BY <2>2, StartTells
  <2>4. journal[i].req = r => t \in TurnsOf(journal, r)
    BY <2>2 DEF TurnsOf, Records, Is
  <2>5. QED
    BY <1>5, <2>1, <2>3, <2>4
<1>7. QED
  BY <1>3, <1>4, <1>6

(* The steps that bring a request to a place; no two of them are one step. *)
LEMMA OneGives ==
    ASSUME Typed
    PROVE  /\ \A r \in Reqs : PublishNew(r) =>
                 ~ConsumePrompt /\ ~TakeLock /\ ~StartResume /\ ~PlanResumes /\ ~PlanRedrive /\ ~RedriveEntry
           /\ ConsumePrompt => ~TakeLock /\ ~StartResume /\ ~PlanResumes /\ ~PlanRedrive /\ ~RedriveEntry
           /\ TakeLock => ~StartResume /\ ~PlanResumes /\ ~PlanRedrive /\ ~RedriveEntry
           /\ StartResume => ~PlanResumes /\ ~PlanRedrive /\ ~RedriveEntry
           /\ PlanResumes => ~PlanRedrive /\ ~RedriveEntry
           /\ PlanRedrive => ~RedriveEntry
<1>1. /\ bus \in Seq(Reqs) /\ delivered \in [Reqs -> Nat]
      /\ startup \in Startups(N) /\ lane \in Lanes(N)
  BY DEF Typed, QueuesTyped, CountsTyped, StartupTyped, LaneTyped
<1>2. ASSUME NEW r \in Reqs, PublishNew(r) PROVE delivered' # delivered
  BY <1>1, <1>2 DEF PublishNew, Deliver
<1>3. ConsumePrompt => bus' # bus
  <2>1. SUFFICES ASSUME ConsumePrompt PROVE Len(Tail(bus)) # Len(bus)
    BY DEF ConsumePrompt
  <2>2. bus # <<>>
    BY <2>1 DEF ConsumePrompt
  <2>3. QED
    BY <1>1, <2>2
<1>4. RedriveEntry => startup' # startup
  <2>1. SUFFICES ASSUME RedriveEntry PROVE Len(startup'.todo) # Len(startup.todo)
    OBVIOUS
  <2>2. startup.todo # <<>> /\ startup'.todo = Tail(startup.todo) /\ startup.todo \in Seq(Steps(N))
    BY <1>1, <2>1 DEF RedriveEntry, Startups
  <2>3. QED
    BY <2>2
<1>5. /\ TakeLock => lane.pc = "idle" /\ lane'.pc = "locked"
      /\ StartResume => lane.pc = "idle" /\ lane'.pc = "restore"
  BY <1>1 DEF TakeLock, StartResume, Idle
<1>6. /\ ConsumePrompt => UNCHANGED <<lane, startup, delivered>>
      /\ TakeLock => UNCHANGED <<bus, startup, delivered>>
      /\ StartResume => UNCHANGED <<bus, delivered>> /\ startup.pc = "resume"
      /\ PlanResumes => UNCHANGED <<bus, lane, delivered>> /\ startup.pc = "plan"
      /\ PlanRedrive => UNCHANGED <<bus, lane, delivered>> /\ startup.pc = "redrive"
      /\ RedriveEntry => UNCHANGED <<lane, delivered>> /\ startup.pc = "redriving"
  BY DEF ConsumePrompt, TakeLock, StartResume, PlanResumes, PlanRedrive, RedriveEntry, queues
<1>7. ASSUME NEW r \in Reqs, PublishNew(r)
      PROVE  ~ConsumePrompt /\ ~TakeLock /\ ~StartResume /\ ~PlanResumes /\ ~PlanRedrive /\ ~RedriveEntry
  BY <1>2, <1>6, <1>7
<1>8. ConsumePrompt => ~TakeLock /\ ~StartResume /\ ~PlanResumes /\ ~PlanRedrive /\ ~RedriveEntry
  BY <1>3, <1>4, <1>6
<1>9. TakeLock => ~StartResume /\ ~PlanResumes /\ ~PlanRedrive /\ ~RedriveEntry
  <2>1. TakeLock => lane' # lane
    BY <1>5
  <2>2. QED
    BY <1>4, <1>5, <1>6, <2>1
<1>10. StartResume => ~PlanResumes /\ ~PlanRedrive /\ ~RedriveEntry
  BY <1>6
<1>11. PlanResumes => ~PlanRedrive /\ ~RedriveEntry
  BY <1>6
<1>12. PlanRedrive => ~RedriveEntry
  BY <1>6
<1>13. QED
  BY <1>7, <1>8, <1>9, <1>10, <1>11, <1>12

KeptBus(r) == InBus(r)' => InBus(r)
KeptWait(r) == InWait(r)' => InWait(r)
KeptLane(r) == Busy(r)' => Busy(r) /\ lane'.resumed = lane.resumed
KeptResumes(r) == Resumes(r)' => Resumes(r)
KeptToDo(r) == ToDo(r)' => ToDo(r)

(* Every other step only takes a request from its place. *)
LEMMA PlacesKept ==
    ASSUME Typed, [Next]_vars, NEW r \in Reqs
    PROVE  /\ ~PublishNew(r) /\ ~RedriveEntry => KeptBus(r)
           /\ RedriveEntry => KeptBus(r) \/ (NextToDo.action = "redrive" /\ NextToDo.entry.req = r)
           /\ ~ConsumePrompt => KeptWait(r)
           /\ ~TakeLock /\ ~StartResume => KeptLane(r)
           /\ ~PlanResumes => KeptResumes(r)
           /\ ~PlanRedrive => KeptToDo(r)
<1>0. bus \in Seq(Reqs) /\ waiting \in Seq(Dispatched) /\ Reqs # {}
  BY DEF Typed, QueuesTyped
<1>1. KeptBus(r) \/ PublishNew(r) \/ (/\ RedriveEntry /\ NextToDo.action = "redrive"
                                      /\ NextToDo.entry.req = r)
  <2>1. CASE bus' = bus
    BY <2>1 DEF KeptBus, InBus
  <2>2. CASE bus' = <<>>
    BY <2>2 DEF KeptBus, InBus, ToSet
  <2>3. CASE bus # <<>> /\ bus' = Tail(bus)
    BY <1>0, <2>3, TailApart DEF KeptBus, InBus
  <2>4. ASSUME NEW q \in Reqs, bus' = Append(bus, q), q # r PROVE KeptBus(r)
    BY <1>0, <2>4, AppendApart DEF KeptBus, InBus
  <2>5. RedriveEntry => NextToDo.entry.req \in Reqs
    BY RedriveSteps
  <2>6. QED
    BY <2>1, <2>2, <2>3, <2>4, <2>5, BusMoves
<1>2. KeptWait(r) \/ ConsumePrompt
  <2>1. CASE waiting' = waiting
    BY <2>1 DEF KeptWait, InWait
  <2>2. CASE waiting' = <<>>
    BY <2>2 DEF KeptWait, InWait, ToSet
  <2>3. ASSUME NEW n \in DOMAIN waiting, waiting' = RemoveAt(waiting, n) PROVE KeptWait(r)
    BY <1>0, <2>3, RemoveApart DEF KeptWait, InWait
  <2>4. QED
    BY <2>1, <2>2, <2>3, WaitingMoves
<1>3. KeptLane(r) \/ TakeLock \/ StartResume
  BY LaneMoves DEF KeptLane, Busy, LaneOn, Idle, InTurn
<1>4. KeptResumes(r) \/ PlanResumes
  BY StartupFields DEF KeptResumes, Resumes
<1>5. KeptToDo(r) \/ PlanRedrive
  BY NewSteps DEF KeptToDo, ToDo, ToDoSteps
<1>6. ~RedriveEntry \/ ~PublishNew(r)
  BY OneGives
<1>7. QED
  BY <1>1, <1>2, <1>3, <1>4, <1>5, <1>6

(* An entry that startup has dealt with is off its list. *)
LEMMA TodoTaken ==
    ASSUME Typed, TodoOnce, NEW r, RedriveEntry, NextToDo.entry.req = r
    PROVE  ~ToDo(r)'
<1>0. startup \in Startups(N) /\ startup.todo \in Seq(Steps(N))
  BY DEF Typed, StartupTyped, Startups
<1>1. startup.todo # <<>> /\ startup'.todo = Tail(startup.todo)
  BY <1>0 DEF RedriveEntry, Startups
<1>2. startup.todo[1].entry.req = r
  BY <1>0, <1>1, TailApart DEF NextToDo
<1>3. \A i \in DOMAIN startup'.todo : startup'.todo[i].entry.req # r
  BY <1>0, <1>1, <1>2, TailApart, SeqElements DEF TodoOnce
<1>4. QED
  BY <1>3 DEF ToDo, ToDoSteps, ToSet

(* A request that comes to a place has left the one it was at. *)
LEMMA PlacesLeft ==
    ASSUME Typed, OnceEach, [Next]_vars, NEW r \in Reqs
    PROVE  /\ ConsumePrompt /\ ~KeptWait(r) => InBus(r) /\ ~InBus(r)'
           /\ TakeLock /\ ~KeptLane(r) => InWait(r) /\ ~InWait(r)'
           /\ StartResume /\ ~KeptLane(r) => Resumes(r) /\ ~Resumes(r)'
           /\ RedriveEntry /\ ~KeptBus(r) => ToDo(r) /\ ~ToDo(r)'
           /\ RedriveEntry /\ NextToDo.entry.req = r => ~ToDo(r)'
           /\ StartResume => lane'.resumed
<1>0. /\ bus \in Seq(Reqs) /\ waiting \in Seq(Dispatched) /\ startup \in Startups(N)
      /\ lane \in Lanes(N) /\ startup.todo \in Seq(Steps(N))
  BY DEF Typed, QueuesTyped, StartupTyped, LaneTyped, Startups
<1>1. ASSUME ConsumePrompt, ~KeptWait(r) PROVE InBus(r) /\ ~InBus(r)'
  <2>1. /\ bus # <<>> /\ bus' = Tail(bus) /\ waiting' = Append(waiting, Head(bus))
        /\ Head(bus) \in Dispatched
    BY <1>1 DEF ConsumePrompt
  <2>2. r = Head(bus)
    BY <1>0, <1>1, <2>1, AppendApart DEF KeptWait, InWait
  <2>3. QED
    BY <1>0, <2>1, <2>2, TailApart DEF InBus, OnceEach
<1>2. ASSUME TakeLock, ~KeptLane(r) PROVE InWait(r) /\ ~InWait(r)'
  <2>1. Busy(r)'
    BY <1>2 DEF KeptLane
  <2>2. PICK n \in DOMAIN waiting : /\ waiting' = RemoveAt(waiting, n)
                                    /\ lane' = [Idle EXCEPT !.pc = "locked", !.req = waiting[n]]
    BY <1>2 DEF TakeLock
  <2>3. r = waiting[n]
    BY <2>1, <2>2 DEF Busy, Idle
  <2>4. QED
    BY <1>0, <2>2, <2>3, RemoveApart DEF InWait, OnceEach
<1>3. ASSUME StartResume PROVE /\ lane'.resumed
                               /\ ~KeptLane(r) => Resumes(r) /\ ~Resumes(r)'
  BY <1>0, <1>3 DEF StartResume, KeptLane, Busy, Resumes, Idle, Startups
<1>4. ASSUME RedriveEntry, NextToDo.entry.req = r PROVE ~ToDo(r)'
  BY <1>4, TodoTaken DEF OnceEach
<1>5. ASSUME RedriveEntry, ~KeptBus(r) PROVE ToDo(r) /\ ~ToDo(r)'
  <2>1. NextToDo.action = "redrive" /\ NextToDo.entry.req = r
    BY <1>5, PlacesKept
  <2>2. NextToDo \in ToDoSteps
    BY <1>5, RedriveSteps
  <2>3. QED
    BY <1>4, <1>5, <2>1, <2>2 DEF ToDo
<1>6. QED
  BY <1>1, <1>2, <1>3, <1>4, <1>5

(* One task at a time is still to answer each request. *)
LEMMA HolderSteps ==
    ASSUME Stops = {}, Typed, Counted, HeldOnce, [Next]_vars, ~Crash, NEW r \in Reqs
    PROVE  /\ OneHolder(r)'
           /\ Held(r)' => Pends(r) \/ PublishNew(r)
           /\ Fresh(r)' => Fresh(r) \/ PublishNew(r) \/ RedriveEntry
           /\ ToDo(r)' => ToDo(r) \/ PlanRedrive
           /\ Closes(r) => ~Held(r)'
<1>0. /\ OneHolder(r) /\ OnceEach /\ (Held(r) => Pends(r)) /\ HeldLive
      /\ lane.resumed => startup.pc = "resuming"
  BY DEF HeldOnce, Counted, LaneTells
<1> DEFINE Places == /\ OneHolder(r)'
                     /\ Held(r)' => Pends(r) \/ PublishNew(r)
                     /\ Fresh(r)' => Fresh(r) \/ PublishNew(r) \/ RedriveEntry
                     /\ ToDo(r)' => ToDo(r) \/ PlanRedrive
<1>1. Places
  <2>1. CASE KeptBus(r) /\ KeptWait(r) /\ KeptLane(r) /\ KeptResumes(r) /\ KeptToDo(r)
    BY <1>0, <2>1 DEF KeptBus, KeptWait, KeptLane, KeptResumes, KeptToDo, OneHolder, Held, Fresh
  <2>2. CASE PublishNew(r)
    <3>1. ~Held(r)
      BY <1>0, <2>2, LedgerOpened DEF Pends
    <3>2. KeptWait(r) /\ KeptLane(r) /\ KeptResumes(r) /\ KeptToDo(r)
      BY <2>2, OneGives, PlacesKept
    <3>3. QED
      BY <2>2, <3>1, <3>2 DEF KeptWait, KeptLane, KeptResumes, KeptToDo, OneHolder, Held
  <2>3. CASE ConsumePrompt /\ ~KeptWait(r)
    <3>1. KeptLane(r) /\ KeptResumes(r) /\ KeptToDo(r) /\ InBus(r) /\ ~InBus(r)'
      BY <2>3, OneGives, PlacesKept, PlacesLeft, <1>0
    <3>2. QED
      BY <1>0, <3>1 DEF KeptLane, KeptResumes, KeptToDo, OneHolder, Held, Fresh
  <2>4. CASE TakeLock /\ ~KeptLane(r)
    <3>1. KeptBus(r) /\ KeptResumes(r) /\ KeptToDo(r) /\ InWait(r) /\ ~InWait(r)'
      BY <2>4, OneGives, PlacesKept, PlacesLeft, <1>0
    <3>2. QED
      BY <1>0, <3>1 DEF KeptBus, KeptResumes, KeptToDo, OneHolder, Held, Fresh
  <2>5. CASE StartResume /\ ~KeptLane(r)
    <3>1. /\ KeptBus(r) /\ KeptWait(r) /\ KeptToDo(r) /\ Resumes(r) /\ ~Resumes(r)'
          /\ lane'.resumed
      BY <2>5, OneGives, PlacesKept, PlacesLeft, <1>0
    <3>2. QED
      BY <1>0, <3>1 DEF KeptBus, KeptWait, KeptToDo, OneHolder, Held, Fresh
  <2>6. CASE RedriveEntry /\ ~KeptBus(r)
    <3>1. KeptWait(r) /\ KeptLane(r) /\ KeptResumes(r) /\ ToDo(r) /\ ~ToDo(r)'
      BY <2>6, OneGives, PlacesKept, PlacesLeft, <1>0
    <3>2. QED
      BY <1>0, <2>6, <3>1 DEF KeptWait, KeptLane, KeptResumes, OneHolder, Held
  <2>7. CASE PlanResumes /\ ~KeptResumes(r)
    <3>1. KeptBus(r) /\ KeptWait(r) /\ KeptLane(r) /\ KeptToDo(r) /\ Resumes(r)'
      BY <2>7, OneGives, PlacesKept DEF KeptResumes
    <3>2. Pends(r) /\ ~IsLive(journal, r)
      BY <2>7, <3>1, ResumesOld
    <3>3. startup.pc = "plan"
      BY <2>7 DEF PlanResumes
    <3>4. ~Fresh(r) /\ ~lane.resumed
      BY <1>0, <3>2, <3>3 DEF HeldLive, Starting
    <3>5. ~ToDo(r)
      BY <1>0, <3>3 DEF OnceEach, TodoOnce, ToDo, ToDoSteps, ToSet
    <3>6. QED
      BY <3>1, <3>2, <3>4, <3>5
         DEF KeptBus, KeptWait, KeptLane, KeptToDo, OneHolder, Fresh, Busy
  <2>8. CASE PlanRedrive /\ ~KeptToDo(r)
    <3>1. KeptBus(r) /\ KeptWait(r) /\ KeptLane(r) /\ KeptResumes(r) /\ ToDo(r)'
      BY <2>8, OneGives, PlacesKept DEF KeptToDo
    <3>2. Pends(r) /\ ~IsLive(journal, r)
      BY <2>8, <3>1, RedrivesOld
    <3>3. startup.pc = "redrive"
      BY <2>8 DEF PlanRedrive
    <3>4. ~Fresh(r) /\ ~lane.resumed /\ ~Resumes(r)
      BY <1>0, <3>2, <3>3 DEF HeldLive, Starting, Resumes
    <3>5. QED
      BY <2>8, <3>1, <3>2, <3>4
         DEF KeptBus, KeptWait, KeptLane, KeptResumes, OneHolder, Fresh, Busy
  <2>9. QED
    BY <2>1, <2>2, <2>3, <2>4, <2>5, <2>6, <2>7, <2>8, PlacesKept
<1>2. Closes(r) => ~Held(r)'
  <2>1. ~ConsumeStop
    BY DEF ConsumeStop
  <2>2. CASE (MarkDone \/ CloseRequest) /\ lane.req = r
    <3>1. Busy(r) /\ ~Busy(r)' /\ UNCHANGED <<queues, startup>>
      BY <2>2, LaneFields DEF MarkDone, CloseRequest, Busy, laneOnly
    <3>2. ~InBus(r) /\ ~InWait(r) /\ ~Resumes(r) /\ ~ToDo(r)
      BY <1>0, <3>1 DEF OneHolder
    <3>3. QED
      BY <3>1, <3>2 DEF Held, queues, InBus, InWait, Resumes, ToDo, ToDoSteps
  <2>3. CASE RedriveEntry /\ NextToDo.action = "close" /\ NextToDo.entry.req = r
    <3>1. ToDo(r) /\ ~ToDo(r)'
      BY <1>0, <2>3, RedriveSteps, PlacesLeft DEF ToDo
    <3>2. KeptBus(r) /\ KeptWait(r) /\ KeptLane(r) /\ KeptResumes(r)
      BY <2>3, OneGives, PlacesKept
    <3>3. QED
      BY <1>0, <3>1, <3>2 DEF KeptBus, KeptWait, KeptLane, KeptResumes, OneHolder, Held
  <2>4. QED
    BY <2>1, <2>2, <2>3 DEF Closes
<1>3. QED
  BY <1>1, <1>2

(* A request pends until it is closed, and what this process wrote of it while
   it pends stays. *)
LEMMA PendsSteps ==
    ASSUME Resets = {}, Typed, [Next]_vars, NEW r \in Reqs
    PROVE  /\ Pends(r) /\ ~Closes(r) => Pends(r)'
           /\ PublishNew(r) => ~Pends(r) /\ Pends(r)' /\ IsLive(journal', r)
           /\ Pends(r) /\ Closes(r) => Standing(journal', r) = "done"
           /\ IsLive(journal, r) /\ Pends(r)' /\ ~Crash => IsLive(journal', r)
           /\ Pends(r) /\ IsLive(journal', r) => IsLive(journal, r) \/ Marks(r) \/ Closes(r)
           /\ Pends(r)' => Pends(r) \/ PublishNew(r) \/ Marks(r)
<1>1. ~NewSession
  BY DEF NewSession
<1>2. CASE EntrySame(r)
  <2>1. ~PublishNew(r)
    BY <1>2, LedgerOpened DEF EntrySame, SameEntry
  <2>2. Closes(r) => Standing(journal', r) = "done"
    BY LedgerClosed DEF EntryClosed
  <2>3. QED
    BY <1>2, <2>1, <2>2 DEF EntrySame, SameEntry, Pends
<1>3. CASE Crash
  <2>1. /\ Standing(journal', r) = Standing(journal, r) /\ ~IsLive(journal', r)
    BY <1>3, LedgerKilled
  <2>2. ~PublishNew(r)
    BY <2>1, LedgerOpened
  <2>3. Closes(r) => Standing(journal', r) = "done"
    BY LedgerClosed DEF EntryClosed
  <2>4. QED
    BY <1>3, <2>1, <2>2, <2>3 DEF Pends
<1>4. CASE PublishNew(r)
  <2>1. /\ Standing(journal, r) = "unknown" /\ Standing(journal', r) = "queued"
        /\ IsLive(journal', r)
    BY <1>4, LedgerOpened
  <2>2. QED
    BY <2>1, <1>4 DEF Pends
<1>5. CASE Marks(r)
  <2>1. Standing(journal', r) = "processing" /\ IsLive(journal', r)
    BY <1>5, LedgerOpened
  <2>2. ~PublishNew(r)
    BY <2>1, LedgerOpened
  <2>3. ~Closes(r)
    BY <2>1, LedgerClosed DEF EntryClosed
  <2>4. QED
    BY <1>5, <2>1, <2>2, <2>3 DEF Pends
<1>6. CASE Closes(r)
  <2>1. EntryClosed(r)
    BY <1>6, LedgerClosed
  <2>2. ~PublishNew(r)
    BY <2>1, LedgerOpened DEF EntryClosed
  <2>3. QED
    BY <1>6, <2>1, <2>2 DEF EntryClosed, Pends
<1>7. CASE CompactLedger /\ ~EntrySame(r)
  <2>1. Standing(journal, r) = "done" /\ EntryGone(r)
    BY <1>7, LedgerRewritten
  <2>2. ~PublishNew(r)
    BY <2>1, LedgerOpened DEF EntryGone
  <2>3. QED
    BY <2>1, <2>2 DEF EntryGone, Pends
<1>8. QED
  BY <1>1, <1>2, <1>3, <1>4, <1>5, <1>6, <1>7, LedgerUntouched DEF Writes

(* Startup begins again only after a kill. *)
LEMMA StartingSteps ==
    ASSUME Typed, Counted, [Next]_vars, ~Crash
    PROVE  /\ Starting' => Starting /\ ~RedriveEntry
           /\ startup'.pc = "plan" => startup.pc = "plan"
<1>1. startup \in Startups(N) /\ lane \in Lanes(N) /\ (lane.resumed => startup.pc = "resuming")
  BY DEF Typed, StartupTyped, LaneTyped, Counted, LaneTells
<1>2. CASE startup' = startup
  <2>1. ~RedriveEntry \/ ~Starting
    BY DEF RedriveEntry, Starting
  <2>2. QED
    BY <1>2, <2>1 DEF Starting
<1>3. CASE StartupStep
  <2>1. PlanResumes => startup.pc = "plan" /\ startup'.pc \in {"resume", "redrive"}
    BY <1>1 DEF PlanResumes, Startups
  <2>2. PlanStale => startup.pc = "plan" /\ startup'.pc = "redrive"
    BY <1>1 DEF PlanStale, Startups
  <2>3. StartResume => startup.pc = "resume" /\ startup'.pc = "resuming"
    BY <1>1 DEF StartResume, Startups
  <2>4. PlanRedrive => startup.pc = "redrive" /\ startup'.pc = "redriving"
    BY DEF PlanRedrive, NoTurn
  <2>5. RedriveEntry => startup.pc = "redriving" /\ startup'.pc = "redriving"
    BY <1>1 DEF RedriveEntry, Startups
  <2>6. RedriveFinished => startup'.pc = "done"
    BY DEF RedriveFinished, NoTurn
  <2>7. QED
    BY <1>3, <2>1, <2>2, <2>3, <2>4, <2>5, <2>6 DEF StartupStep, Starting
<1>4. CASE ModelPanics \/ PublishClosed
  <2>1. ~RedriveEntry \/ ~Starting
    BY DEF RedriveEntry, Starting
  <2>2. QED
    BY <1>1, <1>4, <2>1 DEF ModelPanics, PublishClosed, Starting, Startups
<1>5. QED
  BY <1>2, <1>3, <1>4, StartupSame

(* The open turns after a step. *)
LEMMA UnfinishedSteps ==
    ASSUME Typed, OpenTurns, Counted, [Next]_vars, NEW t \in Unfinished(journal')
    PROVE  \/ ~BeginTurn /\ t \in Unfinished(journal) /\ t \in DOMAIN turns /\ turns' = turns
           \/ BeginTurn /\ t = N + 1 /\ turns'[t].req = lane.req /\ lane.req \in Reqs
<1>0. /\ turns \in Seq([req : Prompts, attempt : Nat]) /\ N \in Nat /\ DOMAIN turns = 1..N
      /\ journal \in Seq(Recs(N))
  BY NIsNat DEF Typed, CountsTyped, StoresTyped
<1>1. CASE ~BeginTurn
  BY <1>0, <1>1, OpensSteps, TurnsSame, TurnsTyped
<1>2. CASE BeginTurn
  <2>1. t = N + 1
    <3>1. Unfinished(journal') \subseteq ToRestore(journal')
      BY TurnSets
    <3>2. QED
      BY <1>2, <3>1, BeginOpens
  <2>2. PICK s : Begin(s) /\ lane.req \in Prompts
    BY <1>2, BeginTurnIs
  <2>3. turns' = Append(turns, [req |-> lane.req, attempt |-> lane.attempt])
    BY <2>2 DEF Begin
  <2>4. lane.attempt \in Nat
    BY DEF Typed, LaneTyped, Lanes
  <2>5. turns'[N + 1].req = lane.req
    BY <1>0, <2>2, <2>3, <2>4 DEF N
  <2>6. QED
    BY <1>2, <2>1, <2>2, <2>5 DEF Reqs, Dispatched
<1>3. QED
  BY <1>1, <1>2

LEMMA KilledHolds ==
    ASSUME Typed, Typed', OpenTurns, Counted, HeldOnce, Crash
    PROVE  HeldOnce'
<1>1. /\ bus' = <<>> /\ waiting' = <<>> /\ lane' = Idle /\ startup'.pc = "plan"
      /\ startup'.todo = <<>> /\ turns' = turns
  BY DEF Crash, NoTurn
<1>2. \A r \in Reqs : ~Held(r)' /\ ~Fresh(r)' /\ ~ToDo(r)'
  BY <1>1 DEF Held, Fresh, InBus, InWait, Busy, Resumes, ToDo, ToDoSteps, ToSet, Idle
<1>3. \A r : Standing(journal', r) = Standing(journal, r) /\ ~IsLive(journal', r)
  BY LedgerKilled
<1>4. Unfinished(journal') \subseteq Unfinished(journal)
  <2>1. journal \in Seq(Recs(N)) /\ N \in Nat
    BY NIsNat DEF Typed, StoresTyped
  <2>2. journal' = Killed(journal)
    BY DEF Crash, Killed
  <2>3. QED
    BY <2>1, <2>2, OpensKilled
<1>5. OpenPends'
  BY <1>1, <1>3, <1>4 DEF HeldOnce, OpenPends, Pends
<1>6. OldNotLive' /\ HeldLive' /\ LaneAfter' /\ ToDoUnstarted'
  BY <1>1, <1>2, <1>3 DEF OldNotLive, HeldLive, LaneAfter, ToDoUnstarted, Idle
<1>7. OnceEach'
  BY <1>1 DEF OnceEach, TodoOnce, Inj
<1>8. \A r \in Reqs : OneHolder(r)'
  BY <1>2 DEF Held, OneHolder
<1>9. QED
  BY <1>2, <1>5, <1>6, <1>7, <1>8 DEF HeldOnce

LEMMA TodoOnceStep ==
    ASSUME Typed, Counted, TodoOnce, [Next]_vars
    PROVE  TodoOnce'
<1>0. /\ startup \in Startups(N) /\ startup.todo \in Seq(Steps(N)) /\ journal \in Seq(Recs(N))
      /\ lane.resumed => startup.pc = "resuming"
  BY DEF Typed, StartupTyped, Startups, StoresTyped, Counted, LaneTells
<1>1. \A i, k \in DOMAIN startup'.todo :
         startup'.todo[i].entry.req = startup'.todo[k].entry.req => i = k
  <2>1. CASE startup'.todo = startup.todo
    BY <1>0, <2>1 DEF TodoOnce
  <2>2. CASE startup'.todo = <<>>
    BY <2>2
  <2>3. CASE startup.todo # <<>> /\ startup'.todo = Tail(startup.todo)
    <3>1. \A i \in DOMAIN startup'.todo :
             i \in Nat /\ i + 1 \in DOMAIN startup.todo /\ startup'.todo[i] = startup.todo[i + 1]
      BY <1>0, <2>3, TailApart, SeqElements, TailTyped
    <3>2. ASSUME NEW i \in DOMAIN startup'.todo, NEW k \in DOMAIN startup'.todo,
                 startup'.todo[i].entry.req = startup'.todo[k].entry.req
          PROVE  i = k
      <4>1. /\ i \in Nat /\ i + 1 \in DOMAIN startup.todo /\ startup'.todo[i] = startup.todo[i + 1]
            /\ k \in Nat /\ k + 1 \in DOMAIN startup.todo /\ startup'.todo[k] = startup.todo[k + 1]
        BY <3>1
      <4>2. startup.todo[i + 1].entry.req = startup.todo[k + 1].entry.req
        BY <3>2, <4>1
      <4>3. i + 1 = k + 1
        BY <1>0, <4>1, <4>2 DEF TodoOnce
      <4>4. QED
        BY <4>1, <4>3
    <3>3. QED
      BY <3>2
  <2>4. CASE startup'.todo = RedrivePlan(journal)
    BY <1>0, <2>4, RedrivePlanFacts
  <2>5. QED
    BY <2>1, <2>2, <2>3, <2>4, TodoMoves
<1>2. startup'.pc # "redriving" => startup'.todo = <<>>
  <2>1. CASE startup' = startup
    BY <1>0, <2>1 DEF TodoOnce
  <2>2. CASE PlanResumes \/ PlanStale \/ StartResume \/ ModelPanics \/ PublishClosed
    <3>1. startup.pc # "redriving" \/ startup' = startup
      BY <1>0, <2>2 DEF PlanResumes, PlanStale, StartResume, ModelPanics, PublishClosed
    <3>2. startup'.todo = startup.todo
      <4>1. PlanResumes => startup'.todo = startup.todo
        BY <1>0 DEF PlanResumes, Startups
      <4>2. PlanStale \/ StartResume \/ ModelPanics \/ PublishClosed => startup'.todo = startup.todo
        BY <1>0 DEF PlanStale, StartResume, ModelPanics, PublishClosed, Startups
      <4>3. QED
        BY <2>2, <4>1, <4>2
    <3>3. QED
      BY <1>0, <2>1, <3>1, <3>2 DEF TodoOnce
  <2>3. CASE PlanRedrive \/ RedriveEntry
    <3>1. startup'.pc = "redriving"
      BY <1>0, <2>3 DEF PlanRedrive, RedriveEntry, NoTurn, Startups
    <3>2. QED
      BY <3>1
  <2>4. CASE RedriveFinished \/ Crash
    BY <2>4 DEF RedriveFinished, Crash, NoTurn
  <2>5. QED
    BY <2>1, <2>2, <2>3, <2>4, StartupSame DEF StartupStep
<1>3. QED
  BY <1>1, <1>2 DEF TodoOnce

LEMMA OnceEachSteps ==
    ASSUME Typed, Counted, OnceEach, [Next]_vars,
           \A r \in Reqs : PublishNew(r) => ~InBus(r),
           \A r \in Reqs : InBus(r) => ~InWait(r),
           RedriveEntry /\ NextToDo.action = "redrive" => ~InBus(NextToDo.entry.req)
    PROVE  OnceEach'
<1>0. bus \in Seq(Reqs) /\ waiting \in Seq(Dispatched) /\ Dispatched \subseteq Reqs
  BY DEF Typed, QueuesTyped, Reqs
<1>1. Inj(bus')
  <2>1. CASE bus' = bus
    BY <1>0, <2>1 DEF OnceEach
  <2>2. CASE bus' = <<>>
    BY <2>2 DEF Inj
  <2>3. CASE bus # <<>> /\ bus' = Tail(bus)
    BY <1>0, <2>3, TailApart DEF OnceEach
  <2>4. ASSUME NEW r \in Reqs, bus' = Append(bus, r), ~InBus(r) PROVE Inj(bus')
    BY <1>0, <2>4, AppendApart DEF OnceEach, InBus
  <2>5. RedriveEntry => NextToDo.entry.req \in Reqs
    BY RedriveSteps
  <2>6. QED
    BY <2>1, <2>2, <2>3, <2>4, <2>5, BusMoves
<1>2. Inj(waiting')
  <2>1. CASE waiting' = waiting
    BY <1>0, <2>1 DEF OnceEach
  <2>2. CASE waiting' = <<>>
    BY <2>2 DEF Inj
  <2>3. CASE bus # <<>> /\ waiting' = Append(waiting, Head(bus)) /\ Head(bus) \in Dispatched
    <3>1. ~InWait(Head(bus))
      BY <1>0, <2>3, TailApart DEF InBus
    <3>2. QED
      BY <1>0, <2>3, <3>1, AppendApart DEF OnceEach, InWait
  <2>4. ASSUME NEW n \in DOMAIN waiting, waiting' = RemoveAt(waiting, n) PROVE Inj(waiting')
    BY <1>0, <2>4, RemoveApart DEF OnceEach
  <2>5. QED
    BY <2>1, <2>2, <2>3, <2>4, WaitingMoves
<1>3. TodoOnce'
  BY TodoOnceStep DEF OnceEach
<1>4. QED
  BY <1>1, <1>2, <1>3 DEF OnceEach

LEMMA HeldOnceStep ==
    ASSUME Stops = {}, Resets = {}, TurnsPanic = FALSE,
           Typed, Typed', OpenTurns, Counted, HeldOnce, [Next]_vars
    PROVE  HeldOnce'
<1>1. CASE Crash
  BY <1>1, KilledHolds
<1>2. CASE ~Crash
  <2>0. /\ \A r \in Reqs : OneHolder(r) /\ (Held(r) => Pends(r))
        /\ OnceEach /\ HeldLive /\ OpenPends /\ OldNotLive /\ ToDoUnstarted /\ LaneAfter
        /\ N \in Nat /\ DOMAIN turns = 1..N /\ journal \in Seq(Recs(N))
        /\ turns \in Seq([req : Prompts, attempt : Nat]) /\ Prompts \subseteq Reqs
    BY NIsNat DEF HeldOnce, Typed, CountsTyped, StoresTyped, Reqs, Dispatched
  <2>1. \A t \in DOMAIN turns : turns[t].req \in Reqs
    <3>1. \A t \in DOMAIN turns : turns[t] \in [req : Prompts, attempt : Nat]
      BY <2>0, SeqElements
    <3>2. QED
      BY <2>0, <3>1
  <2>2. \A r \in Reqs : OneHolder(r)'
    BY <1>2, HolderSteps
  <2>3. \A r \in Reqs : Held(r)' => Pends(r)'
    BY <1>2, HolderSteps, PendsSteps
  <2>4. ASSUME NEW r \in Reqs, Starting', Fresh(r)' PROVE IsLive(journal', r)
    <3>1. Starting /\ ~RedriveEntry
      BY <1>2, <2>4, StartingSteps
    <3>2. Fresh(r) \/ PublishNew(r)
      BY <1>2, <2>4, <3>1, HolderSteps
    <3>3. Held(r)'
      BY <2>4 DEF Fresh, Held
    <3>4. QED
      BY <1>2, <2>0, <2>3, <3>1, <3>2, <3>3, PendsSteps DEF HeldLive
  <2>5. HeldLive'
    BY <2>4 DEF HeldLive
  <2>6. ASSUME NEW t \in Unfinished(journal), turns[t].req \in Reqs PROVE ~Closes(turns[t].req)
    <3>1. ~ConsumeStop
      BY DEF ConsumeStop
    <3>2. ~MarkDone /\ ~CloseRequest
      BY <2>0, <2>6 DEF LaneAfter, MarkDone, CloseRequest
    <3>3. ~(RedriveEntry /\ NextToDo.action = "close" /\ NextToDo.entry.req = turns[t].req)
      BY <2>0, <2>6, RedriveSteps DEF ToDoUnstarted, ToDo
    <3>4. QED
      BY <3>1, <3>2, <3>3 DEF Closes
  <2>7. ASSUME NEW t \in Unfinished(journal') PROVE Pends(turns[t].req)'
    <3>1. CASE BeginTurn
      <4>1. t = N + 1 /\ turns'[t].req = lane.req /\ lane.req \in Reqs
        BY <2>7, <3>1, UnfinishedSteps
      <4>2. lane'.pc = "pre_model" /\ lane'.req = lane.req
        <5>1. PICK s : Begin(s)
          BY <3>1, BeginTurnIs
        <5>2. QED
          BY <5>1 DEF Begin, Typed, LaneTyped, Lanes
      <4>3. PICK q \in Reqs : q = lane.req
        BY <4>1
      <4>4. Held(q)'
        BY <4>2, <4>3 DEF Held, Busy
      <4>5. QED
        BY <2>3, <4>1, <4>3, <4>4 DEF Pends
    <3>2. CASE ~BeginTurn
      <4>1. t \in Unfinished(journal) /\ t \in DOMAIN turns /\ turns' = turns
        BY <2>7, <3>2, UnfinishedSteps
      <4>2. PICK q \in Reqs : q = turns[t].req
        BY <2>1, <4>1
      <4>3. Pends(q) /\ ~Closes(q)
        BY <2>0, <2>6, <4>1, <4>2 DEF OpenPends
      <4>4. Pends(q)'
        BY <4>3, PendsSteps
      <4>5. QED
        BY <4>1, <4>2, <4>4 DEF Pends
    <3>3. QED
      BY <3>1, <3>2
  <2>8. OpenPends'
    BY <2>7 DEF OpenPends
  <2>9. ASSUME startup'.pc = "plan", NEW t \in Unfinished(journal'), t \in OldStarts(journal')
        PROVE  ~IsLive(journal', turns'[t].req)
    <3>1. startup.pc = "plan" /\ t \in OldStarts(journal)
      BY <1>2, <2>9, StartingSteps, OldSteps
    <3>2. t \in DOMAIN turns
      <4>1. PICK i \in DOMAIN journal : journal[i].kind = "turn_start" /\ journal[i].turn = t
        BY <3>1 DEF OldStarts, OldStart, ToSet
      <4>2. QED
        BY <4>1, StartTells
    <3>3. t \in Unfinished(journal) /\ turns' = turns
      BY <2>0, <2>9, <3>2, UnfinishedSteps
    <3>4. PICK q \in Reqs : q = turns[t].req
      BY <2>1, <3>2
    <3>5. Pends(q) /\ ~Closes(q) /\ ~IsLive(journal, q)
      BY <2>0, <2>6, <3>1, <3>3, <3>4 DEF OpenPends, OldNotLive
    <3>6. ~Marks(q)
      <4>1. Marks(q) => Fresh(q)
        BY DEF Marks, MarkProcessing, Fresh, Busy, Counted, LaneTells
      <4>2. QED
        BY <2>0, <3>1, <3>5, <4>1 DEF HeldLive, Starting
    <3>7. QED
      BY <3>3, <3>4, <3>5, <3>6, PendsSteps
  <2>10. OldNotLive'
    BY <2>9 DEF OldNotLive
  <2>11. ASSUME NEW r \in Reqs, ToDo(r)', NEW t \in Unfinished(journal') PROVE turns'[t].req # r
    <3>1. ToDo(r) \/ PlanRedrive
      BY <1>2, <2>11, HolderSteps
    <3>2. CASE PlanRedrive
      <4>1. UNCHANGED <<journal, turns>>
        BY <3>2 DEF PlanRedrive, stores, history
      <4>2. QED
        BY <2>11, <3>2, <4>1, RedrivesOld
    <3>3. CASE ToDo(r) /\ ~BeginTurn
      BY <2>0, <2>11, <3>3, UnfinishedSteps DEF ToDoUnstarted
    <3>4. CASE ToDo(r) /\ BeginTurn
      <4>1. turns'[t].req = lane.req
        BY <2>11, <3>4, UnfinishedSteps
      <4>2. lane.req = r => Busy(r)
        BY <3>4, BeginTurnIs DEF Busy
      <4>3. QED
        BY <2>0, <3>4, <4>1, <4>2 DEF OneHolder
    <3>5. QED
      BY <3>1, <3>2, <3>3, <3>4
  <2>12. ToDoUnstarted'
    BY <2>11 DEF ToDoUnstarted
  <2>13. ASSUME lane'.pc \in {"reply", "mark_done", "close", "publish"}
         PROVE  Unfinished(journal') = {}
    <3>1. ~BeginTurn
      BY <2>13, LaneFields, BeginTurnIs
    <3>2. Unfinished(journal') \subseteq Unfinished(journal)
      BY <3>1, OpensSteps
    <3>3. ~NewSession /\ ~ModelPanics
      BY DEF NewSession, ModelPanics
    <3>4. \/ lane'.pc = lane.pc
          \/ lane.pc \in {"resume", "persist", "reply", "close"}
      BY <2>13, <3>3, LaneMoves DEF LaneOn, Idle, InTurn
    <3>5. lane.pc \in {"resume", "persist"} => Unfinished(journal) = {}
      BY TurnSets DEF OpenTurns
    <3>6. QED
      BY <2>0, <2>13, <3>2, <3>4, <3>5 DEF LaneAfter
  <2>14. ASSUME lane'.pc = "publish" PROVE Standing(journal', lane'.req) = "done"
    <3>1. PICK q \in Reqs : q = lane.req /\ q = lane'.req /\ lane.pc \in {"close", "publish"}
                            /\ (lane.pc = "close" => CloseRequest)
      <4>1. /\ lane'.req = lane.req
            /\ \/ lane.pc = "publish"
               \/ lane.pc = "close" /\ CloseRequest
        BY <2>14, LaneMoves DEF LaneOn, Idle, InTurn
      <4>2. lane.req \in Reqs
        BY <4>1 DEF Typed, LaneTyped, Reqs
      <4>3. QED
        BY <4>1, <4>2
    <3>2. CASE CloseRequest
      <4>1. Busy(q)
        BY <3>1, <3>2 DEF CloseRequest, Busy
      <4>2. Closes(q)
        BY <2>0, <3>1, <3>2, <4>1, StandingTyped DEF Held, Pends, Closes
      <4>3. QED
        BY <3>1, <4>2, LedgerClosed DEF EntryClosed
    <3>3. CASE lane.pc = "publish"
      <4>1. Standing(journal, q) = "done"
        BY <2>0, <3>1, <3>3 DEF LaneAfter
      <4>2. ~PublishNew(q)
        BY <4>1, LedgerOpened
      <4>3. ~Marks(q) /\ ~CompactLedger /\ ~NewSession
        BY <3>3 DEF Marks, MarkProcessing, CompactLedger, NewSession
      <4>4. Closes(q) => Standing(journal', q) = "done"
        BY LedgerClosed DEF EntryClosed
      <4>5. EntrySame(q) => Standing(journal', q) = "done"
        BY <4>1 DEF EntrySame, SameEntry
      <4>6. QED
        BY <1>2, <3>1, <4>2, <4>3, <4>4, <4>5, LedgerUntouched DEF Writes
    <3>4. QED
      BY <3>1, <3>2, <3>3
  <2>15. LaneAfter'
    BY <2>13, <2>14 DEF LaneAfter
  <2>16. OnceEach'
    <3>1. \A r \in Reqs : PublishNew(r) => ~InBus(r)
      BY <2>0, LedgerOpened DEF Held, Pends
    <3>2. \A r \in Reqs : InBus(r) => ~InWait(r)
      BY <2>0 DEF OneHolder
    <3>3. RedriveEntry /\ NextToDo.action = "redrive" => ~InBus(NextToDo.entry.req)
      BY <2>0, RedriveSteps DEF ToDo, OneHolder
    <3>4. QED
      BY <2>0, <3>1, <3>2, <3>3, OnceEachSteps
  <2>17. QED
    BY <2>2, <2>3, <2>5, <2>8, <2>10, <2>12, <2>15, <2>16 DEF HeldOnce
<1>3. QED
  BY <1>1, <1>2

(* HeldOnce holds throughout. *)
Holding == Stops = {} /\ Resets = {} /\ TurnsPanic = FALSE

LEMMA InitHolds == Init => HeldOnce
<1> SUFFICES ASSUME Init PROVE HeldOnce
  OBVIOUS
<1>1. /\ bus = <<>> /\ waiting = <<>> /\ lane.pc = "idle" /\ startup.pc = "done"
      /\ startup.todo = <<>> /\ journal = <<>>
  BY DEF Init, Idle, NoTurn
<1>2. \A r \in Reqs : ~Held(r)
  BY <1>1 DEF Held, InBus, InWait, Busy, Resumes, ToDo, ToDoSteps, ToSet
<1>3. Unfinished(journal) = {}
  BY <1>1 DEF Unfinished, TurnsWith, Records
<1>4. \A r \in Reqs : ~Fresh(r) /\ ~ToDo(r) /\ OneHolder(r)
  BY <1>2 DEF Held, Fresh, OneHolder
<1>5. OnceEach
  BY <1>1 DEF OnceEach, TodoOnce, Inj
<1>6. QED
  BY <1>1, <1>2, <1>3, <1>4, <1>5
     DEF HeldOnce, HeldLive, OpenPends, OldNotLive, ToDoUnstarted, LaneAfter

LEMMA HoldsOnce ==
    ASSUME Holding
    PROVE  Spec => [](Typed /\ OpenTurns /\ Counted /\ HeldOnce)
<1>1. Init => HeldOnce
  BY InitHolds
<1>2. Typed /\ Typed' /\ OpenTurns /\ Counted /\ HeldOnce /\ [Next]_vars => HeldOnce'
  BY HeldOnceStep DEF Holding
<1>3. QED
  BY <1>1, <1>2, TypesHold, CountsHold, PTL DEF Spec

(* How the ledger's states read in the abstract life of a request. *)
Reads(s) == IF s = "unknown" THEN "unknown" ELSE IF s = "done" THEN "settled" ELSE "pending"

LEMMA StatusReads ==
    ASSUME NEW n \in Nat, NEW j \in Seq(Recs(n)), NEW r
    PROVE  Reads(Standing(j, r)) =
               IF ~InLedger(j, r) THEN "unknown"
               ELSE IF Entry(j, r).state # "done" THEN "pending" ELSE "settled"
<1>1. InLedger(j, r) => Entry(j, r).state \in InboxStates
  BY EntryTyped, InLedgerIs DEF Entries
<1>2. QED
  BY <1>1 DEF Reads, Standing, InboxStates

LEMMA StatusSteps ==
    ASSUME Typed, Typed', NEW r
    PROVE  /\ LedgerStatus(r) = Reads(Standing(journal, r))
           /\ LedgerStatus(r)' = Reads(Standing(journal', r))
<1>1. N \in Nat /\ journal \in Seq(Recs(N)) /\ N' \in Nat /\ journal' \in Seq(Recs(N'))
  <2>1. N \in Nat /\ journal \in Seq(Recs(N))
    BY NIsNat DEF Typed, StoresTyped
  <2>2. turns' \in Seq([req : Prompts, attempt : Nat])
    BY DEF Typed, CountsTyped
  <2>3. N' \in Nat
    BY <2>2 DEF N
  <2>4. journal' \in Seq(Recs(N'))
    BY DEF Typed, StoresTyped
  <2>5. QED
    BY <2>1, <2>3, <2>4
<1>2. LedgerStatus(r) = Reads(Standing(journal, r))
  BY <1>1, StatusReads DEF LedgerStatus, IsPending
<1>3. LedgerStatus(r)' = Reads(Standing(journal', r))
  BY <1>1, StatusReads DEF LedgerStatus, IsPending
<1>4. QED
  BY <1>2, <1>3

(* What one step does to the states of the requests: it moves a set of them. *)
Moved(S, from, to) ==
    /\ \A r \in S : Reads(Standing(journal, r)) = from
    /\ \A r \in Prompts : Reads(Standing(journal', r)) =
                             IF r \in S THEN to ELSE Reads(Standing(journal, r))
LifeMove ==
    \E S \in SUBSET Prompts :
        \/ Moved(S, "unknown", "pending") \/ Moved(S, "pending", "settled")
        \/ Moved(S, "settled", "unknown")

LEMMA LifeMoves ==
    ASSUME Holding, Typed, HeldOnce, [Next]_vars
    PROVE  LifeMove
<1>0. /\ \A r \in Reqs : Held(r) => Pends(r)
      /\ Prompts \subseteq Reqs /\ Dispatched \subseteq Reqs
  BY DEF HeldOnce, Reqs, Dispatched
<1>1. ASSUME \A r \in Prompts : Reads(Standing(journal', r)) = Reads(Standing(journal, r))
      PROVE  LifeMove
  <2>1. Moved({}, "unknown", "pending")
    BY <1>1 DEF Moved
  <2>2. QED
    BY <2>1 DEF LifeMove
<1>2. ASSUME NEW q \in Reqs, \A r \in Prompts \ {q} : EntrySame(r),
             \/ Standing(journal, q) = "unknown" /\ Pends(q)'
             \/ Pends(q) /\ Standing(journal', q) = "done"
             \/ Pends(q) /\ Pends(q)'
      PROVE  LifeMove
  <2> DEFINE S == {q} \cap Prompts
  <2>1. \A r \in Prompts \ {q} : Reads(Standing(journal', r)) = Reads(Standing(journal, r))
    BY <1>2 DEF EntrySame, SameEntry
  <2>2. CASE Standing(journal, q) = "unknown" /\ Pends(q)'
    <3>1. Moved(S, "unknown", "pending")
      BY <2>1, <2>2 DEF Moved, Reads, Pends
    <3>2. QED
      BY <3>1 DEF LifeMove
  <2>3. CASE Pends(q) /\ Standing(journal', q) = "done"
    <3>1. Moved(S, "pending", "settled")
      BY <2>1, <2>3 DEF Moved, Reads, Pends
    <3>2. QED
      BY <3>1 DEF LifeMove
  <2>4. CASE Pends(q) /\ Pends(q)'
    <3>1. \A r \in Prompts : Reads(Standing(journal', r)) = Reads(Standing(journal, r))
      BY <2>1, <2>4 DEF Reads, Pends
    <3>2. QED
      BY <1>1, <3>1
  <2>5. QED
    BY <1>2, <2>2, <2>3, <2>4
<1>3. ASSUME NEW q \in Reqs, NEW s, NEW o, NEW m \in BOOLEAN, Write(Inbox(q, s, o, m)),
             \/ Standing(journal, q) = "unknown" /\ s = "queued"
             \/ Pends(q) /\ s \in {"processing", "done"}
      PROVE  LifeMove
  <2>1. \A r \in Prompts \ {q} : EntrySame(r)
    BY <1>3, EntryInbox
  <2>2. Standing(journal', q) = s
    BY <1>3, EntryInbox
  <2>3. QED
    BY <1>2, <1>3, <2>1, <2>2 DEF Pends
<1>4. ASSUME \A r \in Prompts : EntrySame(r) PROVE LifeMove
  BY <1>1, <1>4 DEF EntrySame, SameEntry
<1>5. CASE Crash
  BY <1>1, <1>5, LedgerKilled
<1>6. ASSUME NEW q \in Reqs, PublishNew(q) PROVE LifeMove
  <2>1. Standing(journal, q) = "unknown"
    BY <1>6, LedgerOpened
  <2>2. QED
    BY <1>3, <1>6, <2>1 DEF PublishNew
<1>7. CASE MarkProcessing \/ MarkDone
  <2>1. PICK q \in Reqs : q = lane.req
    BY <1>7 DEF Typed, LaneTyped, Reqs, MarkProcessing, MarkDone
  <2>2. Pends(q)
    BY <1>0, <1>7, <2>1 DEF MarkProcessing, MarkDone, Held, Busy
  <2>3. QED
    BY <1>3, <1>7, <2>1, <2>2 DEF MarkProcessing, MarkDone
<1>8. CASE CloseRequest
  <2>1. PICK q \in Reqs : q = lane.req
    BY <1>8 DEF Typed, LaneTyped, Reqs, CloseRequest
  <2>2. Pends(q)
    BY <1>0, <1>8, <2>1 DEF CloseRequest, Held, Busy
  <2>3. CASE UNCHANGED journal
    BY <1>1, <2>3
  <2>4. QED
    BY <1>3, <1>8, <2>1, <2>2, <2>3 DEF CloseRequest
<1>9. CASE RedriveEntry
  <2>1. CASE UNCHANGED journal
    BY <1>1, <2>1
  <2>2. CASE NextToDo.action = "close" /\ Write(Inbox(NextToDo.entry.req, "done", NoOutcome, FALSE))
    <3>1. PICK q \in Reqs : q = NextToDo.entry.req /\ ToDo(q)
      BY <1>9, <2>2, RedriveSteps DEF ToDo
    <3>2. Pends(q)
      BY <1>0, <3>1 DEF Held
    <3>3. QED
      BY <1>3, <2>2, <3>1, <3>2
  <2>3. QED
    BY <1>9, <2>1, <2>2 DEF RedriveEntry, NextToDo
<1>10. CASE CompactLedger
  <2> DEFINE S == {r \in Prompts : Standing(journal, r) = "done" /\ EntryGone(r)}
  <2>1. \A r \in Prompts \ S : EntrySame(r)
    BY <1>10, LedgerRewritten
  <2>2. Moved(S, "settled", "unknown")
    BY <2>1 DEF Moved, Reads, EntryGone, EntrySame, SameEntry
  <2>3. QED
    BY <2>2 DEF LifeMove
<1>11. CASE /\ ~Crash /\ ~MarkProcessing /\ ~MarkDone /\ ~CloseRequest /\ ~RedriveEntry /\ ~CompactLedger
            /\ \A q \in Reqs : ~PublishNew(q)
  <2>1. ~ConsumeStop /\ ~NewSession
    BY DEF Holding, ConsumeStop, NewSession
  <2>2. \A r \in Reqs : ~Writes(r)
    BY <1>11, <2>1 DEF Writes, Marks, Closes
  <2>3. QED
    BY <1>0, <1>4, <2>2, LedgerUntouched
<1>12. QED
  BY <1>5, <1>6, <1>7, <1>8, <1>9, <1>10, <1>11

(* The inbox ledger implements RequestLife (Life is its refinement mapping): a
   prompt is accepted when the ledger does not know it, stays pending through
   merges, prunes, evictions and kills until it is settled, and is forgotten
   only after that.  /stop and /new close and delete entries on purpose, and a
   panic answers a request that its open turn still has to answer, so the
   session has none of them. *)
THEOREM LedgerRefines ==
    ASSUME Stops = {}, Resets = {}, TurnsPanic = FALSE
    PROVE  Spec => LedgerImplementsLife
<1>1. Init => Life!Init
  <2> SUFFICES ASSUME Init PROVE Life!Init
    OBVIOUS
  <2>1. \A r \in Prompts : LedgerStatus(r) = "unknown"
    BY DEF Init, LedgerStatus, InLedger, RecordsOf, Records
  <2>2. QED
    BY <2>1 DEF Life!Init
<1>2. ASSUME Typed, Typed', HeldOnce, [Next]_vars
      PROVE  [Life!Next]_([r \in Prompts |-> LedgerStatus(r)])
  <2>1. PICK S \in SUBSET Prompts :
           \/ Moved(S, "unknown", "pending") \/ Moved(S, "pending", "settled")
           \/ Moved(S, "settled", "unknown")
    BY <1>2, LifeMoves DEF LifeMove, Holding
  <2>2. ASSUME NEW from, NEW to, Moved(S, from, to) PROVE Life!Move(S, from, to)
    <3>1. \A r \in S : r \in Prompts /\ LedgerStatus(r) = from
      BY <1>2, <2>2, StatusSteps DEF Moved
    <3>2. \A r \in Prompts : LedgerStatus(r)' = IF r \in S THEN to ELSE LedgerStatus(r)
      BY <1>2, <2>2, StatusSteps DEF Moved
    <3>3. QED
      BY <3>1, <3>2 DEF Life!Move
  <2>3. Life!Next
    BY <2>1, <2>2 DEF Life!Next, Life!Accept, Life!Settle, Life!Forget
  <2>4. QED
    BY <2>3
<1>3. QED
  BY <1>1, <1>2, HoldsOnce, PTL DEF Holding, Spec, LedgerImplementsLife, Life!Spec

--------------------------------------------------------------------------------
(* A stopped request stays stopped.  Each request is at one place at most, what
   this process was given is live in the ledger while startup looks for the
   rest, and /stop forgets the messages of all it closes. *)

AtLane(r) == lane.pc # "idle" /\ lane.req = r /\ ~lane.resumed
Redriving(r) == \E s \in ToDoSteps : s.action = "redrive" /\ s.entry.req = r
OnePlace(r) ==
    /\ InBus(r) => ~InWait(r) /\ ~AtLane(r) /\ ~Redriving(r)
    /\ InWait(r) => ~AtLane(r) /\ ~Redriving(r)
    /\ AtLane(r) => ~Redriving(r)
OnTheWay(r) == InBus(r) \/ InWait(r) \/ AtLane(r)
GivenIsLive == Starting => \A r \in Reqs : OnTheWay(r) /\ Known(r) => IsLive(journal, r)
StoppedGone ==
    \A r \in stopped :
        admitted[r] > 0 /\ ~InBus(r) /\ ~HasMessage(journal, r) /\ ~Redriving(r)
AdmittedDelivered == \A r \in Reqs : admitted[r] <= delivered[r]
StopSafe ==
    /\ LaneHasRun /\ OnlyAccepted /\ AdmittedDelivered
    /\ OnceEach /\ (\A r \in Reqs : OnePlace(r)) /\ GivenIsLive /\ StoppedGone

(* The ledger learns of a message only when it accepts it, and what it learns of
   a request it learns live. *)
LEMMA MessageSteps ==
    ASSUME Typed, [Next]_vars, NEW r \in Reqs
    PROVE  /\ HasMessage(journal', r) => HasMessage(journal, r) \/ PublishNew(r)
           /\ ~Crash /\ Known(r)' =>
                 IsLive(journal', r) \/ (Known(r) /\ ~IsLive(journal, r))
<1>1. CASE EntrySame(r)
  BY <1>1 DEF EntrySame, SameEntry, Known
<1>2. CASE Crash
  BY <1>2, LedgerKilled
<1>3. CASE PublishNew(r)
  BY <1>3, LedgerOpened
<1>4. CASE Marks(r)
  BY <1>4, LedgerOpened
<1>5. CASE Closes(r)
  BY <1>5, LedgerClosed DEF EntryClosed
<1>6. CASE EntryGone(r)
  BY <1>6 DEF EntryGone, Known
<1>7. CompactLedger \/ NewSession => EntrySame(r) \/ EntryGone(r)
  BY LedgerRewritten
<1>8. QED
  BY <1>1, <1>2, <1>3, <1>4, <1>5, <1>6, <1>7, LedgerUntouched DEF Writes

LEMMA StopForgets ==
    ASSUME Typed, ConsumeStop, NEW r
    PROVE  ~HasMessage(journal', r)
<1>1. journal \in Seq(Recs(N))
  BY DEF Typed, StoresTyped
<1>2. journal' = journal \o Closing(Pending(journal))
  BY DEF ConsumeStop, PendingClosed, Closing
<1>3. CASE Pends(r)
  BY <1>2, <1>3, EntryStopped DEF EntryClosed
<1>4. CASE ~Pends(r)
  <2>1. EntrySame(r)
    BY <1>2, <1>4, EntryStopped
  <2>2. ~HasMessage(journal, r)
    <3>1. CASE Standing(journal, r) = "done"
      BY <1>1, <3>1, DoneIsSilent
    <3>2. CASE Standing(journal, r) = "unknown"
      BY <3>2, StandingTyped DEF HasMessage
    <3>3. QED
      BY <1>4, <3>1, <3>2 DEF Pends
  <2>3. QED
    BY <2>1, <2>2 DEF EntrySame, SameEntry
<1>5. QED
  BY <1>3, <1>4

LEMMA RedrivesKnown ==
    ASSUME Typed, PlanRedrive, NEW r, Redriving(r)'
    PROVE  Known(r) /\ ~IsLive(journal, r) /\ HasMessage(journal, r) /\ Starting
<1>0. journal \in Seq(Recs(N))
  BY DEF Typed, StoresTyped
<1>1. startup'.todo = RedrivePlan(journal) /\ startup.pc = "redrive"
  BY DEF PlanRedrive, NoTurn
<1>2. PICK n \in DOMAIN RedrivePlan(journal) : /\ RedrivePlan(journal)[n].action = "redrive"
                                               /\ RedrivePlan(journal)[n].entry.req = r
  BY <1>1 DEF Redriving, ToDoSteps, ToSet
<1>3. /\ InLedger(journal, r) /\ ~IsLive(journal, r)
      /\ RedrivePlan(journal)[n].entry.message <=> HasMessage(journal, r)
      /\ RedriveAction(journal, RedrivePlan(journal)[n].entry) = "redrive"
  BY <1>0, <1>2, RedrivePlanFacts
<1>4. HasMessage(journal, r)
  BY <1>3 DEF RedriveAction
<1>5. QED
  BY <1>1, <1>3, <1>4, StandingTyped DEF Known, Starting

(* Where a request can come from. *)
LEMMA GivenSteps ==
    ASSUME Typed, OnceEach, [Next]_vars, ~Crash, NEW r \in Reqs
    PROVE  /\ InBus(r)' => InBus(r) \/ PublishNew(r) \/ (RedriveEntry /\ Redriving(r) /\ ~Redriving(r)')
           /\ InWait(r)' => InWait(r) \/ (ConsumePrompt /\ InBus(r) /\ ~InBus(r)')
           /\ AtLane(r)' => AtLane(r) \/ (TakeLock /\ InWait(r) /\ ~InWait(r)')
           /\ Redriving(r)' => Redriving(r) \/ PlanRedrive
<1>1. ASSUME RedriveEntry, ~KeptBus(r) PROVE Redriving(r) /\ ~Redriving(r)'
  <2>1. NextToDo.action = "redrive" /\ NextToDo.entry.req = r
    BY <1>1, PlacesKept
  <2>2. NextToDo \in ToDoSteps /\ ~ToDo(r)'
    BY <1>1, <2>1, RedriveSteps, PlacesLeft
  <2>3. QED
    BY <2>1, <2>2 DEF Redriving, ToDo
<1>2. InBus(r)' => InBus(r) \/ PublishNew(r) \/ (RedriveEntry /\ Redriving(r) /\ ~Redriving(r)')
  BY <1>1, PlacesKept DEF KeptBus
<1>3. InWait(r)' => InWait(r) \/ (ConsumePrompt /\ InBus(r) /\ ~InBus(r)')
  BY PlacesKept, PlacesLeft DEF KeptWait
<1>4. ASSUME AtLane(r)', ~AtLane(r) PROVE TakeLock /\ InWait(r) /\ ~InWait(r)'
  <2>1. lane' # Idle /\ ~LaneOn
    BY <1>4 DEF AtLane, Idle, LaneOn, InTurn
  <2>2. TakeLock /\ lane.pc = "idle" /\ lane'.pc = "locked"
    BY <1>4, <2>1, LaneMoves DEF AtLane
  <2>3. ~KeptLane(r)
    BY <1>4, <2>2 DEF KeptLane, Busy, AtLane
  <2>4. QED
    BY <2>2, <2>3, PlacesLeft
<1>5. Redriving(r)' => Redriving(r) \/ PlanRedrive
  BY NewSteps DEF Redriving, ToDoSteps
<1>6. QED
  BY <1>2, <1>3, <1>4, <1>5

(* A request delivered for the first time is nowhere yet. *)
LEMMA NewIsNowhere ==
    ASSUME MaxDeliveries <= 1, Typed, StopSafe, NEW r \in Reqs, PublishNew(r)
    PROVE  /\ admitted[r] = 0 /\ ~OnTheWay(r) /\ ~Redriving(r) /\ r \notin stopped
           /\ lane.pc # "idle" => lane.req # r
<1>1. delivered[r] = 0
  <2>1. delivered[r] \in Nat /\ delivered[r] < MaxDeliveries
    BY DEF PublishNew, Deliver, Typed, CountsTyped
  <2>2. QED
    BY <2>1, BoundsAssumption
<1>2. admitted[r] = 0
  <2>1. admitted[r] \in Nat /\ admitted[r] <= delivered[r]
    BY DEF Typed, CountsTyped, StopSafe, AdmittedDelivered
  <2>2. QED
    BY <1>1, <2>1
<1>3. QED
  BY <1>2 DEF StopSafe, OnlyAccepted, StoppedGone, OnTheWay, Redriving, AtLane

LEMMA OnePlaceStep ==
    ASSUME MaxDeliveries <= 1, Typed, Counted, StopSafe, [Next]_vars, NEW r \in Reqs
    PROVE  OnePlace(r)'
<1>0. OnePlace(r) /\ OnceEach /\ GivenIsLive
  BY DEF StopSafe
<1>1. CASE Crash
  <2>1. bus' = <<>> /\ waiting' = <<>> /\ lane' = Idle /\ startup'.todo = <<>>
    BY <1>1 DEF Crash, NoTurn
  <2>2. QED
    BY <2>1 DEF OnePlace, InBus, InWait, AtLane, Idle, ToSet
<1>2. CASE ~Crash
  <2>1. CASE PublishNew(r)
    <3>1. ~ConsumePrompt /\ ~TakeLock /\ ~PlanRedrive
      BY <2>1, OneGives
    <3>2. ~InBus(r) /\ ~InWait(r) /\ ~AtLane(r) /\ ~Redriving(r)
      BY <2>1, NewIsNowhere DEF OnTheWay
    <3>3. QED
      BY <1>0, <1>2, <3>1, <3>2, GivenSteps DEF OnePlace
  <2>2. CASE PlanRedrive
    <3>1. ~ConsumePrompt /\ ~TakeLock /\ ~RedriveEntry /\ ~PublishNew(r)
      BY <2>2, OneGives
    <3>2. Redriving(r)' => ~OnTheWay(r)
      BY <1>0, <2>2, RedrivesKnown DEF GivenIsLive
    <3>3. QED
      BY <1>0, <1>2, <3>1, <3>2, GivenSteps DEF OnePlace, OnTheWay
  <2>3. CASE ~PublishNew(r) /\ ~PlanRedrive
    <3>1. ~(RedriveEntry /\ ConsumePrompt) /\ ~(RedriveEntry /\ TakeLock) /\ ~(ConsumePrompt /\ TakeLock)
      BY OneGives
    <3>2. QED
      BY <1>0, <1>2, <2>3, <3>1, GivenSteps DEF OnePlace
  <2>4. QED
    BY <2>1, <2>2, <2>3
<1>3. QED
  BY <1>1, <1>2

LEMMA GivenIsLiveStep ==
    ASSUME MaxDeliveries <= 1, Typed, Counted, StopSafe, [Next]_vars
    PROVE  GivenIsLive'
<1>0. OnceEach /\ GivenIsLive
  BY DEF StopSafe
<1>1. CASE Crash
  <2>1. bus' = <<>> /\ waiting' = <<>> /\ lane' = Idle
    BY <1>1 DEF Crash
  <2>2. \A r \in Reqs : ~OnTheWay(r)'
    BY <2>1 DEF OnTheWay, InBus, InWait, AtLane, Idle, ToSet
  <2>3. QED
    BY <2>2 DEF GivenIsLive
<1>2. ASSUME ~Crash, Starting', NEW r \in Reqs, OnTheWay(r)', Known(r)' PROVE IsLive(journal', r)
  <2>1. Starting /\ ~RedriveEntry
    BY <1>2, StartingSteps
  <2>2. OnTheWay(r) \/ PublishNew(r)
    BY <1>0, <1>2, <2>1, GivenSteps DEF OnTheWay
  <2>3. CASE PublishNew(r)
    BY <2>3, LedgerOpened
  <2>4. CASE OnTheWay(r)
    BY <1>0, <1>2, <2>1, <2>4, MessageSteps DEF GivenIsLive
  <2>5. QED
    BY <2>2, <2>3, <2>4
<1>3. QED
  BY <1>1, <1>2 DEF GivenIsLive

LEMMA StoppedSteps ==
    ASSUME Typed, [Next]_vars
    PROVE  \/ stopped' = stopped
           \/ /\ ConsumeStop /\ waiting' = <<>>
              /\ stopped' \subseteq stopped \cup ToSet(waiting) \cup {r \in Reqs : AtLane(r)}
<1>1. CASE ConsumeStop
  <2>1. Abortable => lane.req \in Reqs /\ AtLane(lane.req)
    BY DEF Abortable, AtLane, Typed, LaneTyped, Reqs
  <2>2. QED
    BY <1>1, <2>1 DEF ConsumeStop
<1>2. CASE ~ConsumeStop
  BY <1>2
     DEF Next, vars, Publish, PublishNew, PublishDuplicate, Deliver, SystemStep, Consume,
         ConsumePrompt, ConsumeStatus, laneOnly, history, LaneStep, TakeLock, MarkProcessing,
         RestoreTurn, SaveRestored, FindFinalAnswer, BeginTurn, Begin, NewSession, CheckpointPreModel,
         ModelAnswers, ModelFails, ModelPanics, EndTurn, PruneJournal, CompactLedger, PersistTurn,
         PublishReply, MarkDone, CloseRequest, PublishClosed, Aborted, StartupStep, PlanResumes,
         PlanStale, StartResume, PlanRedrive, RedriveEntry, RedriveFinished, Crash
<1>3. QED
  BY <1>1, <1>2

LEMMA StoppedGoneStep ==
    ASSUME MaxDeliveries <= 1, Typed, Counted, StopSafe, [Next]_vars
    PROVE  StoppedGone'
<1>0. /\ OnceEach /\ StoppedGone /\ OnlyAccepted /\ (\A r \in Reqs : OnePlace(r))
      /\ stopped \subseteq Reqs /\ bus \in Seq(Reqs)
      /\ waiting \in Seq(Dispatched) /\ Dispatched \subseteq Reqs
  BY DEF StopSafe, Typed, CountsTyped, QueuesTyped, Reqs
<1>1. ASSUME NEW r \in stopped
      PROVE  admitted'[r] > 0 /\ ~InBus(r)' /\ ~HasMessage(journal', r) /\ ~Redriving(r)'
  <2>1. r \in Reqs /\ admitted[r] > 0 /\ ~InBus(r) /\ ~HasMessage(journal, r) /\ ~Redriving(r)
    BY <1>0 DEF StoppedGone
  <2>2. ~PublishNew(r)
    BY <2>1, NewIsNowhere
  <2>3. admitted'[r] > 0
    BY <2>1, <2>2, AdmittedSteps
  <2>4. ~HasMessage(journal', r)
    BY <2>1, <2>2, MessageSteps
  <2>5. CASE Crash
    <3>1. bus' = <<>> /\ startup'.todo = <<>>
      BY <2>5 DEF Crash, NoTurn
    <3>2. QED
      BY <2>3, <2>4, <3>1 DEF InBus, Redriving, ToDoSteps, ToSet
  <2>6. CASE ~Crash
    <3>1. ~InBus(r)'
      BY <1>0, <2>1, <2>2, <2>6, GivenSteps
    <3>2. ~Redriving(r)'
      BY <1>0, <2>1, <2>6, GivenSteps, RedrivesKnown
    <3>3. QED
      BY <2>3, <2>4, <3>1, <3>2
  <2>7. QED
    BY <2>5, <2>6
<1>2. CASE stopped' = stopped
  BY <1>1, <1>2 DEF StoppedGone
<1>3. CASE /\ ConsumeStop /\ waiting' = <<>>
           /\ stopped' \subseteq stopped \cup ToSet(waiting) \cup {r \in Reqs : AtLane(r)}
  <2>1. ASSUME NEW r \in Reqs, InWait(r) \/ AtLane(r)
        PROVE  admitted'[r] > 0 /\ ~InBus(r)' /\ ~HasMessage(journal', r) /\ ~Redriving(r)'
    <3>1. admitted[r] > 0
      BY <1>0, <2>1 DEF OnlyAccepted, AtLane
    <3>2. ~InBus(r) /\ ~Redriving(r)
      BY <1>0, <2>1 DEF OnePlace
    <3>3. bus # <<>> /\ bus' = Tail(bus) /\ startup' = startup /\ admitted' = admitted
      BY <1>3 DEF ConsumeStop
    <3>4. ~InBus(r)'
      BY <1>0, <3>2, <3>3, TailApart DEF InBus
    <3>5. ~Redriving(r)'
      BY <3>2, <3>3 DEF Redriving, ToDoSteps
    <3>6. QED
      BY <1>3, <3>1, <3>3, <3>4, <3>5, StopForgets
  <2>2. ToSet(waiting) \subseteq Reqs
    BY <1>0, ToSetIs
  <2>3. ASSUME NEW r \in stopped'
        PROVE  admitted'[r] > 0 /\ ~InBus(r)' /\ ~HasMessage(journal', r) /\ ~Redriving(r)'
    <3>1. r \in stopped \/ (r \in Reqs /\ (InWait(r) \/ AtLane(r)))
      BY <1>3, <2>2, <2>3 DEF InWait
    <3>2. QED
      BY <1>1, <2>1, <3>1
  <2>4. QED
    BY <2>3 DEF StoppedGone
<1>4. QED
  BY <1>2, <1>3, StoppedSteps

LEMMA AdmittedDeliveredStep ==
    ASSUME Typed, AdmittedDelivered, [Next]_vars
    PROVE  AdmittedDelivered'
<1> SUFFICES ASSUME NEW r \in Reqs PROVE admitted'[r] <= delivered'[r]
  BY DEF AdmittedDelivered
<1>1. /\ delivered \in [Reqs -> Nat] /\ delivered[r] \in Nat /\ admitted[r] \in Nat
      /\ admitted[r] <= delivered[r]
  BY DEF Typed, CountsTyped, AdmittedDelivered
<1>2. ASSUME NEW q \in Reqs, Deliver(q)
      PROVE  delivered'[r] \in Nat /\ delivered[r] <= delivered'[r] /\ (q = r => delivered'[r] = delivered[r] + 1)
  BY <1>1, <1>2 DEF Deliver
<1>3. CASE PublishNew(r)
  BY <1>1, <1>2, <1>3, AdmittedSteps DEF PublishNew
<1>4. CASE ~PublishNew(r)
  <2>1. admitted'[r] = admitted[r]
    BY <1>4, AdmittedSteps
  <2>2. Publish \/ delivered' = delivered
    BY DEF Next, vars, SystemStep, Consume,
       ConsumePrompt, ConsumeStatus, ConsumeStop, laneOnly, LaneStep, TakeLock, MarkProcessing,
       RestoreTurn, SaveRestored, FindFinalAnswer, BeginTurn, Begin, NewSession, CheckpointPreModel,
       ModelAnswers, ModelFails, ModelPanics, EndTurn, PruneJournal, CompactLedger, PersistTurn,
       PublishReply, MarkDone, CloseRequest, PublishClosed, Aborted, StartupStep, PlanResumes,
       PlanStale, StartResume, PlanRedrive, RedriveEntry, RedriveFinished, Crash
  <2>3. Publish => delivered[r] <= delivered'[r] /\ delivered'[r] \in Nat
    BY <1>2 DEF Publish, PublishNew, PublishDuplicate
  <2>4. QED
    BY <1>1, <2>1, <2>2, <2>3
<1>5. QED
  BY <1>3, <1>4

LEMMA StopSafeStep ==
    ASSUME MaxDeliveries <= 1, Typed, Typed', OpenTurns, Counted, StopSafe, [Next]_vars
    PROVE  StopSafe'
<1>1. OnceEach'
  <2>1. \A r \in Reqs : PublishNew(r) => ~InBus(r)
    BY NewIsNowhere DEF OnTheWay
  <2>2. \A r \in Reqs : InBus(r) => ~InWait(r)
    BY DEF StopSafe, OnePlace
  <2>3. RedriveEntry /\ NextToDo.action = "redrive" => ~InBus(NextToDo.entry.req)
    <3>1. ASSUME RedriveEntry, NextToDo.action = "redrive"
          PROVE  NextToDo.entry.req \in Reqs /\ Redriving(NextToDo.entry.req)
      BY <3>1, RedriveSteps DEF Redriving
    <3>2. QED
      BY <3>1 DEF StopSafe, OnePlace
  <2>4. QED
    BY <2>1, <2>2, <2>3, OnceEachSteps DEF StopSafe
<1>2. LaneHasRun' /\ OnlyAccepted' /\ AdmittedDelivered'
  BY LaneHasRunStep, OnlyAcceptedStep, AdmittedDeliveredStep DEF StopSafe
<1>3. \A r \in Reqs : OnePlace(r)'
  BY OnePlaceStep
<1>4. QED
  BY <1>1, <1>2, <1>3, GivenIsLiveStep, StoppedGoneStep DEF StopSafe

(* "A stopped request must not be re-driven after a restart": a request whose
   task /stop aborted is on the bus no more, whatever kills, resumes, re-drives,
   further commands, resets and panics follow.  For requests that their channel
   delivers once: a second delivery, after the ledger has evicted the closed
   entry, is a new request. *)
THEOREM StoppedStays ==
    ASSUME MaxDeliveries <= 1
    PROVE  Spec => []StoppedNotRedriven
<1>1. Init => StopSafe
  <2> SUFFICES ASSUME Init PROVE StopSafe
    OBVIOUS
  <2>1. /\ lane.pc = "idle" /\ lane.resumed = FALSE /\ startup.pc = "done" /\ startup.todo = <<>>
        /\ bus = <<>> /\ waiting = <<>> /\ turns = <<>> /\ stopped = {}
    BY DEF Init, Idle, NoTurn
  <2>2. \A r \in Reqs : admitted[r] = 0 /\ delivered[r] = 0
    BY DEF Init
  <2>3. \A r : ~Known(r)
    BY DEF Init, Known, Standing, InLedger, RecordsOf, Records
  <2>4. ToDoSteps = {} /\ \A r : ~InBus(r) /\ ~InWait(r) /\ ~AtLane(r)
    BY <2>1 DEF ToDoSteps, InBus, InWait, AtLane, ToSet
  <2>5. LaneHasRun
    BY <2>1 DEF LaneHasRun, InTurn
  <2>6. OnlyAccepted
    BY <2>1, <2>3, <2>4 DEF OnlyAccepted
  <2>7. OnceEach
    BY <2>1 DEF OnceEach, TodoOnce, Inj
  <2>8. \A r \in Reqs : OnePlace(r)
    BY <2>4 DEF OnePlace
  <2>9. QED
    BY <2>1, <2>2, <2>5, <2>6, <2>7, <2>8 DEF StopSafe, AdmittedDelivered, GivenIsLive, Starting, StoppedGone
<1>2. Typed /\ Typed' /\ OpenTurns /\ Counted /\ StopSafe /\ [Next]_vars => StopSafe'
  BY StopSafeStep
<1>3. Typed /\ StopSafe => StoppedNotRedriven
  BY DEF StopSafe, StoppedGone, StoppedNotRedriven, InBus
<1>4. QED
  BY <1>1, <1>2, <1>3, TypesHold, CountsHold, PTL DEF Spec

--------------------------------------------------------------------------------
(* A kill costs a request one more turn and one more reply.  Beside those that
   were made, the bounds count those still to come: every place of the request in
   the queues, the lane that has it, and the one way in which it may come back
   after the kill.  Only a kill adds such a way, and it empties the queues. *)

(* How often a request is in a queue. *)
PlacesOf(s, x) == {i \in DOMAIN s : s[i] = x}
Heard(s, x) == Cardinality(PlacesOf(s, x))
Still(p) == IF p THEN 1 ELSE 0

LEMMA HeardTyped ==
    ASSUME NEW A, NEW s \in Seq(A), NEW y
    PROVE  IsFiniteSet(PlacesOf(s, y)) /\ Heard(s, y) \in Nat /\ Heard(<<>>, y) = 0
<1>1. PlacesOf(s, y) \in SUBSET DOMAIN s
  BY DEF PlacesOf
<1>2. IsFiniteSet(PlacesOf(s, y))
  BY <1>1, DomainFinite
<1>3. Heard(s, y) \in Nat
  BY <1>2, FS_CardinalityType DEF Heard
<1>4. PlacesOf(<<>>, y) = {}
  BY DEF PlacesOf
<1>5. Heard(<<>>, y) = 0
  BY <1>4, FS_EmptySet DEF Heard
<1>6. QED
  BY <1>2, <1>3, <1>5

LEMMA HeardAppend ==
    ASSUME NEW A, NEW s \in Seq(A), NEW x \in A, NEW y
    PROVE  Heard(Append(s, x), y) = Heard(s, y) + Still(x = y)
<1>1. /\ DOMAIN Append(s, x) = DOMAIN s \cup {Len(s) + 1} /\ Len(s) + 1 \notin DOMAIN s
      /\ \A i \in DOMAIN s : Append(s, x)[i] = s[i]
      /\ Append(s, x)[Len(s) + 1] = x
  BY AppendFacts, SeqElements
<1>2. IsFiniteSet(PlacesOf(s, y)) /\ Heard(s, y) \in Nat
  BY HeardTyped
<1>3. CASE x = y
  <2>1. PlacesOf(Append(s, x), y) = PlacesOf(s, y) \cup {Len(s) + 1}
    BY <1>1, <1>3 DEF PlacesOf
  <2>2. Len(s) + 1 \notin PlacesOf(s, y)
    BY <1>1 DEF PlacesOf
  <2>3. QED
    BY <1>2, <1>3, <2>1, <2>2, FS_AddElement DEF Heard, Still
<1>4. CASE x # y
  <2>1. PlacesOf(Append(s, x), y) = PlacesOf(s, y)
    BY <1>1, <1>4 DEF PlacesOf
  <2>2. QED
    BY <1>2, <1>4, <2>1 DEF Heard, Still
<1>5. QED
  BY <1>3, <1>4

(* Taking one element out of a sequence, the others keeping their order or not. *)
TakesOut(s, t, n, f) ==
    /\ f \in [DOMAIN t -> DOMAIN s \ {n}]
    /\ \A i, k \in DOMAIN t : f[i] = f[k] => i = k
    /\ \A k \in DOMAIN s \ {n} : \E i \in DOMAIN t : f[i] = k
    /\ \A i \in DOMAIN t : t[i] = s[f[i]]

LEMMA HeardLess ==
    ASSUME NEW A, NEW s \in Seq(A), NEW t \in Seq(A), NEW n \in DOMAIN s, NEW f,
           TakesOut(s, t, n, f), NEW y
    PROVE  Heard(s, y) = Heard(t, y) + Still(s[n] = y)
<1> DEFINE P == PlacesOf(t, y)
           Q == PlacesOf(s, y) \ {n}
           g == [i \in P |-> f[i]]
<1>1. IsFiniteSet(PlacesOf(s, y)) /\ IsFiniteSet(P) /\ Heard(s, y) \in Nat /\ Heard(t, y) \in Nat
  BY HeardTyped
<1>2. \A i \in P : i \in DOMAIN t /\ f[i] \in Q
  BY DEF TakesOut, PlacesOf
<1>3. \A k \in Q : \E i \in P : f[i] = k
  <2> SUFFICES ASSUME NEW k \in Q PROVE \E i \in P : f[i] = k
    OBVIOUS
  <2>1. k \in DOMAIN s \ {n} /\ s[k] = y
    BY DEF PlacesOf
  <2>2. PICK i \in DOMAIN t : f[i] = k
    BY <2>1 DEF TakesOut
  <2>3. t[i] = y
    BY <2>1, <2>2 DEF TakesOut
  <2>4. QED
    BY <2>2, <2>3 DEF PlacesOf
<1>4. \A i, k \in P : f[i] = f[k] => i = k
  BY <1>2 DEF TakesOut
<1> HIDE DEF P, Q
<1>5. g \in [P -> Q] /\ \A i \in P : g[i] = f[i]
  BY <1>2
<1> HIDE DEF g
<1>6. g \in Bijection(P, Q)
  BY <1>3, <1>4, <1>5 DEF Bijection, Injection, Surjection, IsInjective
<1>7. Cardinality(Q) = Cardinality(P)
  BY <1>1, <1>6, FS_Bijection DEF ExistsBijection
<1>8. Cardinality(Q) = IF n \in PlacesOf(s, y) THEN Heard(s, y) - 1 ELSE Heard(s, y)
  BY <1>1, FS_RemoveElement DEF Q, Heard
<1>9. n \in PlacesOf(s, y) <=> s[n] = y
  BY DEF PlacesOf
<1>10. QED
  BY <1>1, <1>7, <1>8, <1>9 DEF Heard, Still, P

LEMMA HeardTail ==
    ASSUME NEW A, NEW s \in Seq(A), s # <<>>, NEW y
    PROVE  Heard(s, y) = Heard(Tail(s), y) + Still(Head(s) = y)
<1> DEFINE t == Tail(s)
           f == [i \in DOMAIN t |-> i + 1]
<1>1. /\ Len(s) \in Nat \ {0} /\ DOMAIN s = 1..Len(s) /\ Head(s) = s[1] /\ t \in Seq(A)
      /\ DOMAIN t = 1..(Len(s) - 1) /\ \A i \in DOMAIN t : t[i] = s[i + 1]
  <2>1. Len(s) \in Nat /\ DOMAIN s = 1..Len(s) /\ Len(s) # 0
    BY SeqElements, EmptySeq
  <2>2. /\ t \in Seq(A) /\ Len(t) = Len(s) - 1 /\ Head(s) = s[1]
        /\ \A i \in 1..Len(t) : t[i] = s[i + 1]
    BY HeadTailProperties
  <2>3. DOMAIN t = 1..Len(t)
    BY <2>2, SeqElements
  <2>4. QED
    BY <2>1, <2>2, <2>3
<1> HIDE DEF t
<1>2. \A k \in DOMAIN s \ {1} : k - 1 \in DOMAIN t /\ f[k - 1] = k
  BY <1>1
<1>3. /\ f \in [DOMAIN t -> DOMAIN s \ {1}]
      /\ \A i, k \in DOMAIN t : f[i] = f[k] => i = k
      /\ \A i \in DOMAIN t : t[i] = s[f[i]]
  BY <1>1
<1> HIDE DEF f
<1>4. TakesOut(s, t, 1, f)
  BY <1>2, <1>3 DEF TakesOut
<1>5. 1 \in DOMAIN s
  BY <1>1
<1>6. Heard(s, y) = Heard(t, y) + Still(s[1] = y)
  BY <1>1, <1>4, <1>5, HeardLess
<1>7. s[1] = Head(s)
  BY <1>1
<1>8. QED
  BY <1>6, <1>7 DEF t

LEMMA HeardRemove ==
    ASSUME NEW A, NEW s \in Seq(A), NEW n \in DOMAIN s, NEW y
    PROVE  Heard(s, y) = Heard(RemoveAt(s, n), y) + Still(s[n] = y)
<1> DEFINE c == RemoveAt(s, n)
           f == [i \in DOMAIN c |-> IF i < n THEN i ELSE i + 1]
<1>1. Len(s) \in Nat /\ n \in 1..Len(s) /\ DOMAIN s = 1..Len(s)
  BY SeqElements
<1>2. /\ c \in Seq(A) /\ DOMAIN c = 1..(Len(s) - 1)
      /\ \A i \in 1..(Len(s) - 1) : c[i] = s[IF i < n THEN i ELSE i + 1]
  BY RemoveIs
<1> HIDE DEF c
<1>3. \A k \in DOMAIN s \ {n} : \E i \in DOMAIN c : f[i] = k
  <2> SUFFICES ASSUME NEW k \in DOMAIN s \ {n} PROVE \E i \in DOMAIN c : f[i] = k
    OBVIOUS
  <2>1. CASE k < n
    <3>1. k \in DOMAIN c /\ f[k] = k
      BY <1>1, <1>2, <2>1
    <3>2. QED
      BY <3>1
  <2>2. CASE k > n
    <3>1. k - 1 \in DOMAIN c /\ f[k - 1] = k
      BY <1>1, <1>2, <2>2
    <3>2. QED
      BY <3>1
  <2>3. QED
    BY <1>1, <2>1, <2>2
<1>4. /\ f \in [DOMAIN c -> DOMAIN s \ {n}]
      /\ \A i, k \in DOMAIN c : f[i] = f[k] => i = k
      /\ \A i \in DOMAIN c : c[i] = s[f[i]]
  BY <1>1, <1>2
<1> HIDE DEF f
<1>5. TakesOut(s, c, n, f)
  BY <1>3, <1>4 DEF TakesOut
<1>6. Heard(s, y) = Heard(c, y) + Still(s[n] = y)
  BY <1>2, <1>5, HeardLess
<1>7. QED
  BY <1>6 DEF c

(* How a request may come back: startup is about to resume or to re-drive it,
   or has yet to look at what the kill left, an open turn or a pending entry. *)
Stale(r) == Pends(r) /\ ~IsLive(journal, r)
Unseen(r) == Starting /\ Stale(r) /\ ~(lane.resumed /\ lane.req = r)
Returns(r) == Resumes(r) \/ Redriving(r) \/ Cut(r) \/ Unseen(r)
Queued(r) == Heard(bus, r) + Heard(waiting, r) + Still(Returns(r))
BeforeTurn == {"locked", "restore", "restoring", "begin", "resume"}
ToRun(r) == lane.pc \in BeforeTurn /\ lane.req = r
ToAnswer(r) == lane.pc \notin {"idle", "mark_done"} /\ lane.req = r
TurnsCounted(r) ==
    Cardinality(TurnsFor(r)) + Queued(r) + Still(ToRun(r)) <= admitted[r] + crashes
RepliesCounted(r) ==
    Cardinality(AnswersTo(r)) + Queued(r) + Still(ToAnswer(r)) <= admitted[r] + crashes
(* Each stored reply answers a delivery the ledger did not accept as new. *)
StoredTo(r) == {n \in RepliesTo(r) : replies[n].redelivered}
StoredCounted(r) == Cardinality(StoredTo(r)) + admitted[r] <= delivered[r]
(* A resume is not aborted, takes its own way through the lane, and leaves its
   request settled. *)
ResumedOn ==
    /\ lane.aborted => ~lane.resumed
    /\ lane.resumed => lane.pc \notin {"idle", "locked", "begin", "reply", "mark_done"}
    /\ lane.pc = "publish" /\ lane.resumed => ~Stale(lane.req)
OneMore ==
    /\ TodoOnce /\ ResumedOn
    /\ \A r \in Prompts : TurnsCounted(r) /\ RepliesCounted(r) /\ StoredCounted(r)

(* Only a kill makes a pending request stale. *)
LEMMA StaleSteps ==
    ASSUME Typed, [Next]_vars, ~Crash, NEW r \in Reqs, Stale(r)'
    PROVE  Stale(r)
<1>0. Pends(r)' /\ ~IsLive(journal', r)
  BY DEF Stale
<1>1. CASE EntrySame(r)
  BY <1>0, <1>1 DEF EntrySame, SameEntry, Stale, Pends
<1>2. ~PublishNew(r) /\ ~Marks(r)
  BY <1>0, LedgerOpened
<1>3. ~Closes(r)
  BY <1>0, LedgerClosed DEF EntryClosed, Pends
<1>4. ~EntryGone(r)
  BY <1>0 DEF EntryGone, Pends
<1>5. CompactLedger \/ NewSession => EntrySame(r) \/ EntryGone(r)
  BY LedgerRewritten
<1>6. QED
  BY <1>1, <1>2, <1>3, <1>4, <1>5, LedgerUntouched DEF Writes

(* /stop marks only the task of a message. *)
LEMMA AbortedSteps ==
    ASSUME Typed, [Next]_vars, lane'.aborted, lane'.resumed
    PROVE  lane.aborted /\ lane.resumed
<1>0. lane \in Lanes(N) /\ Idle.aborted = FALSE
  BY DEF Typed, LaneTyped, Idle
<1>1. CASE UNCHANGED lane
  BY <1>1
<1>2. lane' # Idle
  BY <1>0
<1>3. CASE \E p : Goto(p)
  BY <1>0, <1>3 DEF Goto, Lanes
<1>4. ~TakeLock /\ ~StartResume
  BY DEF TakeLock, StartResume, Idle
<1>5. CASE SaveRestored \/ FindFinalAnswer \/ ModelFails
  BY <1>0, <1>5 DEF SaveRestored, FindFinalAnswer, ModelFails, Lanes
<1>6. CASE ModelPanics
  BY <1>0, <1>2, <1>6 DEF ModelPanics, Lanes
<1>7. CASE BeginTurn
  <2>1. PICK s : Begin(s)
    BY <1>7, BeginTurnIs
  <2>2. QED
    BY <1>0, <2>1 DEF Begin, Lanes
<1>8. ~ConsumeStop
  BY <1>0 DEF ConsumeStop, Abortable, Lanes
<1>9. CASE Publish \/ Consume \/ UNCHANGED vars
  BY <1>1, <1>8, <1>9
     DEF Publish, PublishNew, PublishDuplicate, Deliver, Consume, ConsumePrompt, ConsumeStatus, vars
<1>10. CASE StartupStep
  BY <1>1, <1>4, <1>10
     DEF StartupStep, PlanResumes, PlanStale, PlanRedrive, RedriveEntry, RedriveFinished
<1>11. CASE MarkProcessing \/ RestoreTurn \/ NewSession \/ CheckpointPreModel \/ ModelAnswers \/ EndTurn
            \/ PruneJournal \/ CompactLedger \/ PersistTurn \/ PublishReply \/ CloseRequest
  BY <1>3, <1>11
     DEF MarkProcessing, RestoreTurn, NewSession, CheckpointPreModel, ModelAnswers, EndTurn,
         PruneJournal, CompactLedger, PersistTurn, PublishReply, CloseRequest
<1>12. ~MarkDone /\ ~PublishClosed /\ ~Aborted /\ ~Crash
  BY <1>2 DEF MarkDone, PublishClosed, Aborted, Crash
<1>13. QED
  BY <1>4, <1>5, <1>6, <1>7, <1>9, <1>10, <1>11, <1>12 DEF Next, SystemStep, LaneStep

LEMMA ResumedOnStep ==
    ASSUME Typed, ResumedOn, [Next]_vars
    PROVE  ResumedOn'
<1>0. Idle.resumed = FALSE /\ Idle.pc = "idle"
  BY DEF Idle
<1>1. lane'.aborted => ~lane'.resumed
  BY AbortedSteps DEF ResumedOn
<1>2. lane'.resumed => lane'.pc \notin {"idle", "locked", "begin", "reply", "mark_done"}
  BY <1>0, LaneMoves DEF ResumedOn, LaneOn, InTurn
<1>3. ASSUME lane'.pc = "publish", lane'.resumed, NEW r \in Reqs, r = lane'.req PROVE ~Stale(r)'
  <2>1. LaneOn /\ ~Crash
    BY <1>0, <1>3, LaneMoves, LaneFields
  <2>2. CASE lane.pc = "publish"
    <3>1. ~Stale(lane.req) /\ lane.req = r
      BY <1>3, <2>1, <2>2 DEF LaneOn, ResumedOn
    <3>2. QED
      BY <2>1, <3>1, StaleSteps
  <2>3. CASE lane.pc # "publish"
    <3>1. CloseRequest /\ lane.req = r /\ lane.resumed
      BY <1>3, <2>1, <2>3 DEF LaneOn, InTurn
    <3>2. CASE InLedger(journal, r)
      <4>1. Closes(r)
        BY <3>1, <3>2 DEF Closes
      <4>2. QED
        BY <4>1, LedgerClosed DEF EntryClosed, Stale, Pends
    <3>3. CASE ~InLedger(journal, r)
      <4>1. Standing(journal, r) = "unknown" /\ journal' = journal
        BY <3>1, <3>3 DEF CloseRequest, Standing
      <4>2. QED
        BY <4>1 DEF Stale, Pends
    <3>4. QED
      BY <3>2, <3>3
  <2>4. QED
    BY <2>2, <2>3
<1>4. lane'.pc = "publish" /\ lane'.resumed => ~Stale(lane.req)'
  <2> SUFFICES ASSUME lane'.pc = "publish", lane'.resumed PROVE ~Stale(lane.req)'
    OBVIOUS
  <2>1. lane'.req = lane.req /\ lane.pc # "idle"
    BY <1>0, LaneMoves DEF ResumedOn, LaneOn
  <2>2. lane.req \in Reqs
    BY <2>1 DEF Typed, LaneTyped, Reqs
  <2>3. PICK r \in Reqs : r = lane.req
    BY <2>2
  <2>4. ~Stale(r)' /\ r = lane'.req
    BY <1>3, <2>1, <2>3
  <2>5. QED
    BY <2>4
<1>5. QED
  BY <1>1, <1>2, <1>4 DEF ResumedOn

LEMMA CutSteps ==
    ASSUME Typed, OpenTurns, Counted, [Next]_vars, ~Crash, NEW r, Cut(r)'
    PROVE  Cut(r)
<1>1. startup.pc = "plan"
  BY StartingSteps DEF Cut
<1>2. PICK t \in Unfinished(journal') : t \in OldStarts(journal') /\ turns'[t].req = r
  BY DEF Cut
<1>3. t \in OldStarts(journal)
  BY <1>2, OldSteps
<1>4. t \in DOMAIN turns
  <2>1. PICK i \in DOMAIN journal : journal[i].kind = "turn_start" /\ journal[i].turn = t
    BY <1>3 DEF OldStarts, OldStart, ToSet
  <2>2. QED
    BY <2>1, StartTells
<1>5. t # N + 1
  BY <1>4, NIsNat DEF Typed
<1>6. t \in Unfinished(journal) /\ turns' = turns
  BY <1>2, <1>5, UnfinishedSteps
<1>7. QED
  BY <1>1, <1>2, <1>3, <1>6 DEF Cut

LEMMA UnseenSteps ==
    ASSUME TurnsPanic = FALSE, Typed, Counted, ResumedOn, [Next]_vars, ~Crash,
           NEW r \in Reqs, Unseen(r)'
    PROVE  Unseen(r)
<1>1. Starting /\ Stale(r)
  BY StartingSteps, StaleSteps DEF Unseen
<1>2. ASSUME lane.resumed, lane.req = r PROVE FALSE
  <2>1. ~(lane'.resumed /\ lane'.req = r)
    BY DEF Unseen
  <2>2. ~LaneOn /\ lane.pc # "idle"
    BY <1>2, <2>1 DEF LaneOn, ResumedOn
  <2>3. ~MarkDone /\ ~Aborted /\ ~ModelPanics
    BY <1>2 DEF ResumedOn, MarkDone, Aborted, ModelPanics
  <2>4. ~PublishClosed
    BY <1>1, <1>2 DEF ResumedOn, PublishClosed
  <2>5. QED
    BY <2>2, <2>3, <2>4, LaneMoves
<1>3. QED
  BY <1>1, <1>2 DEF Unseen

(* What may come back came from the kill, and does so once. *)
LEMMA ReturnsSteps ==
    ASSUME TurnsPanic = FALSE, Typed, OpenTurns, Counted, TodoOnce, ResumedOn, [Next]_vars, ~Crash,
           NEW r \in Reqs
    PROVE  /\ Returns(r)' => Returns(r)
           /\ StartResume /\ lane'.req = r => Returns(r) /\ ~Returns(r)'
           /\ RedriveEntry /\ NextToDo.action = "redrive" /\ NextToDo.entry.req = r
                 => Returns(r) /\ ~Returns(r)'
<1>0. startup \in Startups(N) /\ lane \in Lanes(N) /\ (lane.resumed => startup.pc = "resuming")
  BY DEF Typed, StartupTyped, LaneTyped, Counted, LaneTells
<1>1. Resumes(r)' => Resumes(r) \/ Cut(r)
  BY PlacesKept, ResumesCut DEF KeptResumes
<1>2. Redriving(r)' => Redriving(r) \/ Unseen(r)
  <2> SUFFICES ASSUME Redriving(r)', ~Redriving(r) PROVE Unseen(r)
    OBVIOUS
  <2>1. PlanRedrive /\ ToDo(r)'
    BY NewSteps DEF Redriving, ToDoSteps, ToDo
  <2>2. Stale(r)
    BY <2>1, RedrivesOld DEF Stale
  <2>3. startup.pc = "redrive"
    BY <2>1 DEF PlanRedrive
  <2>4. QED
    BY <1>0, <2>2, <2>3 DEF Unseen, Starting
<1>3. Returns(r)' => Returns(r)
  BY <1>1, <1>2, CutSteps, UnseenSteps DEF Returns
<1>4. ASSUME StartResume, lane'.req = r PROVE Returns(r) /\ ~Returns(r)'
  <2>1. /\ startup.pc = "resume" /\ startup.req = r /\ startup'.pc = "resuming"
        /\ startup'.todo = startup.todo /\ lane'.resumed
    BY <1>0, <1>4 DEF StartResume, Startups, Idle
  <2>2. startup'.todo = <<>>
    BY <2>1 DEF TodoOnce
  <2>3. ~Redriving(r)'
    BY <2>2 DEF Redriving, ToDoSteps, ToSet
  <2>4. QED
    BY <1>4, <2>1, <2>3 DEF Returns, Resumes, Cut, Unseen
<1>5. ASSUME RedriveEntry, NextToDo.action = "redrive", NextToDo.entry.req = r
      PROVE  Returns(r) /\ ~Returns(r)'
  <2>1. startup'.pc = "redriving"
    BY <1>0, <1>5 DEF RedriveEntry, Startups
  <2>2. Redriving(r)
    BY <1>5, RedriveSteps DEF Redriving
  <2>3. ~ToDo(r)'
    BY <1>5, TodoTaken
  <2>4. ~Redriving(r)'
    BY <2>3 DEF Redriving, ToDo
  <2>5. QED
    BY <2>1, <2>2, <2>4 DEF Returns, Resumes, Cut, Unseen, Starting
<1>6. QED
  BY <1>3, <1>4, <1>5

Entered(r) == lane.pc = "idle" /\ lane'.pc # "idle" /\ lane'.req = r
Inline(r) == (ConsumeStatus \/ ConsumeStop) /\ Head(bus) = r

(* A request is taken up or answered inline only from a place where it counts,
   and only its first delivery adds to them. *)
LEMMA QueuedSteps ==
    ASSUME TurnsPanic = FALSE, Typed, Typed', OpenTurns, Counted, TodoOnce, ResumedOn, [Next]_vars,
           ~Crash, NEW r \in Reqs
    PROVE  /\ Queued(r) \in Nat /\ Queued(r)' \in Nat
           /\ Queued(r)' + Still(Inline(r)) + Still(Entered(r)) <= Queued(r) + Still(PublishNew(r))
<1> DEFINE B == Heard(bus, r)
           C == Heard(bus', r)
           W == Heard(waiting, r)
           V == Heard(waiting', r)
           R == Still(Returns(r))
           S == Still(Returns(r)')
<1>1. /\ bus \in Seq(Reqs) /\ waiting \in Seq(Dispatched)
      /\ bus' \in Seq(Reqs) /\ waiting' \in Seq(Dispatched)
      /\ delivered \in [Reqs -> Nat]
  BY DEF Typed, QueuesTyped, CountsTyped
<1>2. B \in Nat /\ C \in Nat /\ W \in Nat /\ V \in Nat
  BY <1>1, HeardTyped
<1>3. R \in {0, 1} /\ S \in {0, 1} /\ S <= R
  <2>1. Returns(r)' => Returns(r)
    BY ReturnsSteps
  <2>2. QED
    BY <2>1 DEF Still
<1>4. Queued(r) = B + W + R /\ Queued(r)' = C + V + S
  BY DEF Queued
<1> HIDE DEF B, C, W, V, R, S
<1>5. SUFFICES C + V + S + Still(Inline(r)) + Still(Entered(r)) <= B + W + R + Still(PublishNew(r))
  BY <1>2, <1>3, <1>4
<1>6. Still(PublishNew(r)) \in {0, 1}
  BY DEF Still
<1>7. CASE PublishNew(r)
  <2>1. bus' = Append(bus, r) /\ UNCHANGED <<waiting, lane>> /\ delivered' # delivered
    BY <1>1, <1>7 DEF PublishNew, Deliver
  <2>2. C = B + Still(r = r)
    BY <1>1, <2>1, HeardAppend DEF B, C
  <2>3. V = W
    BY <2>1 DEF V, W
  <2>4. ~Inline(r) /\ ~Entered(r)
    BY <2>1 DEF Inline, ConsumeStatus, ConsumeStop, Entered
  <2>5. QED
    BY <1>2, <1>3, <1>7, <2>2, <2>3, <2>4 DEF Still
<1>8. CASE ConsumeStatus \/ ConsumeStop
  <2>1. bus # <<>> /\ bus' = Tail(bus) /\ (waiting' = waiting \/ waiting' = <<>>)
    BY <1>8 DEF ConsumeStatus, ConsumeStop
  <2>2. lane'.pc = lane.pc
    BY <1>8 DEF ConsumeStatus, ConsumeStop, Typed, LaneTyped, Lanes
  <2>3. B = C + Still(Head(bus) = r)
    BY <1>1, <2>1, HeardTail DEF B, C
  <2>4. V <= W
    <3>1. Heard(<<>>, r) = 0
      BY <1>1, HeardTyped
    <3>2. QED
      BY <1>2, <2>1, <3>1 DEF V, W
  <2>5. ~Entered(r) /\ (Inline(r) <=> Head(bus) = r)
    BY <1>8, <2>2 DEF Entered, Inline
  <2>6. QED
    BY <1>2, <1>3, <1>6, <2>3, <2>4, <2>5 DEF Still
<1>9. CASE ConsumePrompt /\ ~ConsumeStatus /\ ~ConsumeStop
  <2>1. /\ bus # <<>> /\ bus' = Tail(bus) /\ Head(bus) \in Dispatched
        /\ waiting' = Append(waiting, Head(bus)) /\ lane' = lane
    BY <1>9 DEF ConsumePrompt
  <2>2. B = C + Still(Head(bus) = r)
    BY <1>1, <2>1, HeardTail DEF B, C
  <2>3. V = W + Still(Head(bus) = r)
    BY <1>1, <2>1, HeardAppend DEF V, W
  <2>4. ~Inline(r) /\ ~Entered(r)
    BY <1>9, <2>1 DEF Inline, Entered
  <2>5. QED
    BY <1>2, <1>3, <1>6, <2>2, <2>3, <2>4 DEF Still
<1>10. CASE TakeLock /\ ~ConsumeStatus /\ ~ConsumeStop
  <2>1. PICK n \in DOMAIN waiting : waiting' = RemoveAt(waiting, n) /\ lane'.req = waiting[n]
    BY <1>10 DEF TakeLock, Idle
  <2>2. bus' = bus
    BY <1>10 DEF TakeLock
  <2>3. W = V + Still(waiting[n] = r)
    BY <1>1, <2>1, HeardRemove DEF V, W
  <2>4. C = B
    BY <2>2 DEF B, C
  <2>5. ~Inline(r) /\ (Entered(r) => waiting[n] = r)
    BY <1>10, <2>1 DEF Inline, Entered
  <2>6. QED
    BY <1>2, <1>3, <1>6, <2>3, <2>4, <2>5 DEF Still
<1>11. CASE StartResume /\ ~ConsumeStatus /\ ~ConsumeStop
  <2>1. UNCHANGED <<bus, waiting>>
    BY <1>11 DEF StartResume, queues
  <2>2. C = B /\ V = W
    BY <2>1 DEF B, C, V, W
  <2>3. Entered(r) => R = 1 /\ S = 0
    BY <1>11, ReturnsSteps DEF Entered, R, S, Still
  <2>4. ~Inline(r)
    BY <1>11 DEF Inline
  <2>5. QED
    BY <1>2, <1>3, <1>6, <2>2, <2>3, <2>4 DEF Still
<1>12. CASE RedriveEntry /\ ~ConsumeStatus /\ ~ConsumeStop
  <2>1. /\ UNCHANGED <<waiting, lane>> /\ NextToDo.entry.req \in Reqs
        /\ \/ NextToDo.action = "redrive" /\ bus' = Append(bus, NextToDo.entry.req)
           \/ bus' = bus
    BY <1>12, RedriveSteps DEF RedriveEntry, NextToDo
  <2>2. V = W /\ ~Inline(r) /\ ~Entered(r)
    BY <1>12, <2>1 DEF V, W, Inline, Entered
  <2>3. CASE bus' = bus
    <3>1. C = B
      BY <2>3 DEF B, C
    <3>2. QED
      BY <1>2, <1>3, <1>6, <2>2, <3>1 DEF Still
  <2>4. CASE NextToDo.action = "redrive" /\ bus' = Append(bus, NextToDo.entry.req)
    <3>1. C = B + Still(NextToDo.entry.req = r)
      BY <1>1, <2>1, <2>4, HeardAppend DEF B, C
    <3>2. NextToDo.entry.req = r => R = 1 /\ S = 0
      BY <1>12, <2>4, ReturnsSteps DEF R, S, Still
    <3>3. QED
      BY <1>2, <1>3, <1>6, <2>2, <3>1, <3>2 DEF Still
  <2>5. QED
    BY <2>1, <2>3, <2>4
<1>13. CASE ~PublishNew(r) /\ ~Consume /\ ~TakeLock /\ ~StartResume /\ ~RedriveEntry
  <2>1. waiting' = waiting
    BY <1>13, WaitingMoves DEF Consume
  <2>2. bus' = bus \/ \E q \in Reqs : q # r /\ bus' = Append(bus, q)
    BY <1>13, BusMoves
  <2>3. C = B
    <3>1. ASSUME NEW q \in Reqs, q # r, bus' = Append(bus, q) PROVE C = B
      <4>1. C = B + Still(q = r)
        BY <1>1, <3>1, HeardAppend DEF B, C
      <4>2. QED
        BY <1>2, <3>1, <4>1 DEF Still
    <3>2. QED
      BY <2>2, <3>1 DEF B, C
  <2>4. V = W
    BY <2>1 DEF V, W
  <2>5. ~Inline(r) /\ ~Entered(r)
    BY <1>13, LaneMoves DEF Inline, Entered, Consume, LaneOn, Idle, InTurn
  <2>6. QED
    BY <1>2, <1>3, <1>6, <2>3, <2>4, <2>5 DEF Still
<1>14. QED
  BY <1>7, <1>8, <1>9, <1>10, <1>11, <1>12, <1>13 DEF Consume

LEMMA CrashesSame ==
    ASSUME [Next]_vars, ~Crash
    PROVE  crashes' = crashes
BY DEF Next, vars, Publish, PublishNew, PublishDuplicate, Deliver, SystemStep, Consume,
       ConsumePrompt, ConsumeStatus, ConsumeStop, laneOnly, LaneStep, TakeLock, MarkProcessing,
       RestoreTurn, SaveRestored, FindFinalAnswer, BeginTurn, Begin, NewSession, CheckpointPreModel,
       ModelAnswers, ModelFails, ModelPanics, EndTurn, PruneJournal, CompactLedger, PersistTurn,
       PublishReply, MarkDone, CloseRequest, PublishClosed, Aborted, StartupStep, PlanResumes,
       PlanStale, StartResume, PlanRedrive, RedriveEntry, RedriveFinished

(* The members of a growing list that are about one request. *)
About(s, r) == {n \in DOMAIN s : s[n].req = r}

LEMMA AboutGrows ==
    ASSUME NEW A, NEW s \in Seq(A), NEW x \in A, NEW r
    PROVE  /\ Cardinality(About(s, r)) \in Nat
           /\ x.req = r => Cardinality(About(Append(s, x), r)) = Cardinality(About(s, r)) + 1
           /\ x.req # r => About(Append(s, x), r) = About(s, r)
<1>1. /\ DOMAIN Append(s, x) = DOMAIN s \cup {Len(s) + 1} /\ Len(s) + 1 \notin DOMAIN s
      /\ \A i \in DOMAIN s : Append(s, x)[i] = s[i]
      /\ Append(s, x)[Len(s) + 1] = x
  BY AppendFacts, SeqElements
<1>2. IsFiniteSet(About(s, r))
  <2>1. IsFiniteSet(DOMAIN s)
    BY DomainFinite
  <2>2. QED
    BY <2>1, FS_Subset DEF About
<1>3. Cardinality(About(s, r)) \in Nat
  BY <1>2, FS_CardinalityType
<1>4. ASSUME x.req = r
      PROVE  Cardinality(About(Append(s, x), r)) = Cardinality(About(s, r)) + 1
  <2>1. About(Append(s, x), r) = About(s, r) \cup {Len(s) + 1}
    BY <1>1, <1>4 DEF About
  <2>2. Len(s) + 1 \notin About(s, r)
    BY <1>1 DEF About
  <2>3. QED
    BY <1>2, <2>1, <2>2, FS_AddElement
<1>5. x.req # r => About(Append(s, x), r) = About(s, r)
  BY <1>1 DEF About
<1>6. QED
  BY <1>3, <1>4, <1>5

LEMMA TurnsMade ==
    ASSUME Typed, [Next]_vars, NEW r
    PROVE  /\ Cardinality(TurnsFor(r)) \in Nat /\ Cardinality(TurnsFor(r)') \in Nat
           /\ \/ Cardinality(TurnsFor(r)') = Cardinality(TurnsFor(r))
              \/ /\ BeginTurn /\ lane.req = r /\ turns' # turns
                 /\ Cardinality(TurnsFor(r)') = Cardinality(TurnsFor(r)) + 1
<1>1. turns \in Seq([req : Prompts, attempt : Nat])
  BY DEF Typed, CountsTyped
<1>2. TurnsFor(r) = About(turns, r) /\ TurnsFor(r)' = About(turns', r)
  BY DEF TurnsFor, About
<1>3. CASE BeginTurn
  <2>1. PICK s : Begin(s)
    BY <1>3, BeginTurnIs
  <2> DEFINE x == [req |-> lane.req, attempt |-> lane.attempt]
  <2>2. turns' = Append(turns, x)
    BY <2>1 DEF Begin
  <2>3. lane.req \in Prompts /\ lane.attempt \in Nat
    BY <1>3, BeginTurnIs DEF Typed, LaneTyped, Lanes
  <2>4. x \in [req : Prompts, attempt : Nat] /\ x.req = lane.req
    BY <2>3
  <2>5. turns' # turns
    <3>1. Len(turns') # Len(turns)
      BY <1>1, <2>2, <2>4, AppendFacts, SeqElements
    <3>2. QED
      BY <3>1
  <2> HIDE DEF x
  <2>6. Cardinality(About(turns, r)) \in Nat
    BY <1>1, <2>4, AboutGrows
  <2>7. /\ lane.req = r => Cardinality(About(turns', r)) = Cardinality(About(turns, r)) + 1
        /\ lane.req # r => About(turns', r) = About(turns, r)
    BY <1>1, <2>2, <2>4, AboutGrows
  <2>8. QED
    BY <1>2, <1>3, <2>5, <2>6, <2>7
<1>4. CASE ~BeginTurn
  <2>1. About(turns, r) \in SUBSET DOMAIN turns
    BY DEF About
  <2>2. Cardinality(About(turns, r)) \in Nat
    BY <1>1, <2>1, DomainFinite, FS_CardinalityType
  <2>3. QED
    BY <1>2, <1>4, <2>2, TurnsSame
<1>5. QED
  BY <1>3, <1>4

(* The replies to one request that were stored ones, or were not. *)
Sent(s, r, again) == {n \in DOMAIN s : s[n].req = r /\ s[n].redelivered = again}

LEMMA SentGrows ==
    ASSUME NEW s \in Seq(ReplyRecs), NEW x \in ReplyRecs, NEW r, NEW again \in BOOLEAN
    PROVE  /\ Cardinality(Sent(s, r, again)) \in Nat
           /\ x.req = r /\ x.redelivered = again =>
                 Cardinality(Sent(Append(s, x), r, again)) = Cardinality(Sent(s, r, again)) + 1
           /\ ~(x.req = r /\ x.redelivered = again) =>
                 Sent(Append(s, x), r, again) = Sent(s, r, again)
<1>1. /\ DOMAIN Append(s, x) = DOMAIN s \cup {Len(s) + 1} /\ Len(s) + 1 \notin DOMAIN s
      /\ \A i \in DOMAIN s : Append(s, x)[i] = s[i]
      /\ Append(s, x)[Len(s) + 1] = x
  BY AppendFacts, SeqElements
<1>2. IsFiniteSet(Sent(s, r, again))
  <2>1. IsFiniteSet(DOMAIN s)
    BY DomainFinite
  <2>2. QED
    BY <2>1, FS_Subset DEF Sent
<1>3. Cardinality(Sent(s, r, again)) \in Nat
  BY <1>2, FS_CardinalityType
<1>4. ASSUME x.req = r, x.redelivered = again
      PROVE  Cardinality(Sent(Append(s, x), r, again)) = Cardinality(Sent(s, r, again)) + 1
  <2>1. Sent(Append(s, x), r, again) = Sent(s, r, again) \cup {Len(s) + 1}
    BY <1>1, <1>4 DEF Sent
  <2>2. Len(s) + 1 \notin Sent(s, r, again)
    BY <1>1 DEF Sent
  <2>3. QED
    BY <1>2, <2>1, <2>2, FS_AddElement
<1>5. ASSUME ~(x.req = r /\ x.redelivered = again)
      PROVE  Sent(Append(s, x), r, again) = Sent(s, r, again)
  BY <1>1, <1>5 DEF Sent
<1>6. QED
  BY <1>3, <1>4, <1>5

LEMMA SentIs ==
    ASSUME NEW s \in Seq(ReplyRecs), NEW r
    PROVE  /\ {n \in DOMAIN s : s[n].req = r /\ ~s[n].redelivered} = Sent(s, r, FALSE)
           /\ {n \in DOMAIN s : s[n].req = r /\ s[n].redelivered} = Sent(s, r, TRUE)
<1>1. \A n \in DOMAIN s : s[n] \in ReplyRecs
  BY SeqElements
<1>2. \A n \in DOMAIN s : s[n].redelivered \in {TRUE, FALSE}
  BY <1>1 DEF ReplyRecs
<1>3. \A n \in DOMAIN s : (~s[n].redelivered) <=> s[n].redelivered = FALSE
  BY <1>2
<1>4. \A n \in DOMAIN s : s[n].redelivered <=> s[n].redelivered = TRUE
  BY <1>2
<1>5. QED
  BY <1>3, <1>4 DEF Sent

LEMMA RepliesMade ==
    ASSUME Typed, Typed', [Next]_vars, NEW r
    PROVE  /\ Cardinality(AnswersTo(r)) \in Nat /\ Cardinality(AnswersTo(r)') \in Nat
           /\ Cardinality(StoredTo(r)) \in Nat /\ Cardinality(StoredTo(r)') \in Nat
           /\ \/ Cardinality(AnswersTo(r)') = Cardinality(AnswersTo(r))
              \/ /\ Inline(r) \/ ((PublishReply \/ PublishClosed) /\ lane.req = r)
                 /\ Cardinality(AnswersTo(r)') = Cardinality(AnswersTo(r)) + 1
           /\ \/ Cardinality(StoredTo(r)') = Cardinality(StoredTo(r))
              \/ /\ r \in Reqs /\ PublishDuplicate(r)
                 /\ Cardinality(StoredTo(r)') = Cardinality(StoredTo(r)) + 1
<1>1. replies \in Seq(ReplyRecs)
  BY DEF Typed, CountsTyped
<1>2. /\ AnswersTo(r) = Sent(replies, r, FALSE) /\ AnswersTo(r)' = Sent(replies', r, FALSE)
      /\ StoredTo(r) = Sent(replies, r, TRUE) /\ StoredTo(r)' = Sent(replies', r, TRUE)
  <2>1. replies' \in Seq(ReplyRecs)
    BY DEF Typed, CountsTyped
  <2>2. /\ AnswersTo(r) = {n \in DOMAIN replies : replies[n].req = r /\ ~replies[n].redelivered}
        /\ AnswersTo(r)' = {n \in DOMAIN replies' : replies'[n].req = r /\ ~replies'[n].redelivered}
        /\ StoredTo(r) = {n \in DOMAIN replies : replies[n].req = r /\ replies[n].redelivered}
        /\ StoredTo(r)' = {n \in DOMAIN replies' : replies'[n].req = r /\ replies'[n].redelivered}
    BY DEF AnswersTo, StoredTo, RepliesTo
  <2>3. /\ AnswersTo(r) = Sent(replies, r, FALSE) /\ StoredTo(r) = Sent(replies, r, TRUE)
    BY <1>1, <2>2, SentIs
  <2>4. /\ AnswersTo(r)' = Sent(replies', r, FALSE) /\ StoredTo(r)' = Sent(replies', r, TRUE)
    BY <2>1, <2>2, SentIs
  <2>5. QED
    BY <2>3, <2>4
<1>3. /\ Cardinality(Sent(replies, r, FALSE)) \in Nat
      /\ Cardinality(Sent(replies, r, TRUE)) \in Nat
  <2>1. ASSUME NEW again \in BOOLEAN PROVE Cardinality(Sent(replies, r, again)) \in Nat
    <3>1. Sent(replies, r, again) \in SUBSET DOMAIN replies
      BY DEF Sent
    <3>2. QED
      BY <1>1, <3>1, DomainFinite, FS_CardinalityType
  <2>2. QED
    BY <2>1
<1>4. ASSUME NEW q \in Reqs, NEW t \in Nat, NEW b \in BOOLEAN, Reply(q, t, b), NEW again \in BOOLEAN
      PROVE  IF q = r /\ b = again
             THEN Cardinality(Sent(replies', r, again)) = Cardinality(Sent(replies, r, again)) + 1
             ELSE Sent(replies', r, again) = Sent(replies, r, again)
  <2> DEFINE x == [req |-> q, turn |-> t, redelivered |-> b]
  <2>1. x \in ReplyRecs /\ x.req = q /\ x.redelivered = b
    BY DEF ReplyRecs
  <2>2. replies' = Append(replies, x)
    BY <1>4 DEF Reply
  <2> HIDE DEF x
  <2>3. QED
    BY <1>1, <2>1, <2>2, SentGrows
<1>5. CASE replies' = replies
  BY <1>2, <1>3, <1>5
<1>6. ASSUME NEW q \in Reqs, NEW t \in Nat, FromAgent(q), Reply(q, t, FALSE)
      PROVE  /\ Sent(replies', r, TRUE) = Sent(replies, r, TRUE)
             /\ \/ Sent(replies', r, FALSE) = Sent(replies, r, FALSE)
                \/ /\ FromAgent(r)
                   /\ Cardinality(Sent(replies', r, FALSE)) = Cardinality(Sent(replies, r, FALSE)) + 1
  BY <1>4, <1>6
<1>7. ASSUME NEW q \in Reqs, NEW t \in Nat, PublishDuplicate(q), Reply(q, t, TRUE)
      PROVE  /\ Sent(replies', r, FALSE) = Sent(replies, r, FALSE)
             /\ \/ Sent(replies', r, TRUE) = Sent(replies, r, TRUE)
                \/ /\ r \in Reqs /\ PublishDuplicate(r)
                   /\ Cardinality(Sent(replies', r, TRUE)) = Cardinality(Sent(replies, r, TRUE)) + 1
  BY <1>4, <1>7
<1>8. FromAgent(r) => Inline(r) \/ ((PublishReply \/ PublishClosed) /\ lane.req = r)
  BY DEF FromAgent, Inline
<1>9. CASE \E q \in Reqs, t \in Nat : FromAgent(q) /\ Reply(q, t, FALSE)
  <2>1. /\ Sent(replies', r, TRUE) = Sent(replies, r, TRUE)
        /\ \/ Sent(replies', r, FALSE) = Sent(replies, r, FALSE)
           \/ /\ FromAgent(r)
              /\ Cardinality(Sent(replies', r, FALSE)) = Cardinality(Sent(replies, r, FALSE)) + 1
    BY <1>6, <1>9
  <2>2. /\ AnswersTo(r)' = AnswersTo(r) \/ Cardinality(AnswersTo(r)') = Cardinality(AnswersTo(r)) + 1
        /\ StoredTo(r)' = StoredTo(r)
        /\ Cardinality(AnswersTo(r)) \in Nat /\ Cardinality(StoredTo(r)) \in Nat
    BY <1>2, <1>3, <2>1
  <2>3. AnswersTo(r)' = AnswersTo(r) \/ FromAgent(r)
    BY <1>2, <2>1
  <2>4. QED
    BY <1>8, <2>2, <2>3
<1>10. CASE \E q \in Reqs, t \in Nat : PublishDuplicate(q) /\ Reply(q, t, TRUE)
  <2>1. /\ Sent(replies', r, FALSE) = Sent(replies, r, FALSE)
        /\ \/ Sent(replies', r, TRUE) = Sent(replies, r, TRUE)
           \/ /\ r \in Reqs /\ PublishDuplicate(r)
              /\ Cardinality(Sent(replies', r, TRUE)) = Cardinality(Sent(replies, r, TRUE)) + 1
    BY <1>7, <1>10
  <2>2. /\ StoredTo(r)' = StoredTo(r) \/ Cardinality(StoredTo(r)') = Cardinality(StoredTo(r)) + 1
        /\ AnswersTo(r)' = AnswersTo(r)
        /\ Cardinality(AnswersTo(r)) \in Nat /\ Cardinality(StoredTo(r)) \in Nat
    BY <1>2, <1>3, <2>1
  <2>3. StoredTo(r)' = StoredTo(r) \/ (r \in Reqs /\ PublishDuplicate(r))
    BY <1>2, <2>1
  <2>4. QED
    BY <2>2, <2>3
<1>11. QED
  BY <1>5, <1>9, <1>10, RepliesGrow

(* What the ledger accepts as new was delivered, and so was a duplicate. *)
LEMMA DeliveriesMade ==
    ASSUME Typed, [Next]_vars, NEW r \in Reqs
    PROVE  /\ delivered[r] \in Nat /\ delivered'[r] \in Nat /\ delivered'[r] >= delivered[r]
           /\ PublishNew(r) \/ PublishDuplicate(r) => delivered'[r] = delivered[r] + 1
           /\ ~(PublishNew(r) /\ PublishDuplicate(r))
<1>0. delivered \in [Reqs -> 0..MaxDeliveries] /\ delivered[r] \in Nat
  BY BoundsAssumption DEF Typed, CountsTyped
<1>1. ASSUME NEW q \in Reqs, PublishNew(q) \/ PublishDuplicate(q)
      PROVE  delivered'[r] = IF q = r THEN delivered[r] + 1 ELSE delivered[r]
  BY <1>0, <1>1 DEF PublishNew, PublishDuplicate, Deliver
<1>2. ASSUME ~Publish PROVE delivered' = delivered
  BY <1>2
     DEF Next, vars, SystemStep, Consume, ConsumePrompt, ConsumeStatus, ConsumeStop, laneOnly,
         LaneStep, TakeLock, MarkProcessing, RestoreTurn, SaveRestored, FindFinalAnswer, BeginTurn,
         Begin, NewSession, CheckpointPreModel, ModelAnswers, ModelFails, ModelPanics, EndTurn,
         PruneJournal, CompactLedger, PersistTurn, PublishReply, MarkDone, CloseRequest,
         PublishClosed, Aborted, StartupStep, PlanResumes, PlanStale, StartResume, PlanRedrive,
         RedriveEntry, RedriveFinished, Crash
<1>3. ~(PublishNew(r) /\ PublishDuplicate(r))
  BY DEF PublishNew, PublishDuplicate
<1>4. CASE Publish
  BY <1>0, <1>1, <1>3, <1>4 DEF Publish
<1>5. CASE ~Publish
  BY <1>0, <1>2, <1>3, <1>5 DEF Publish
<1>6. QED
  BY <1>4, <1>5

(* The lane takes a request up once; it starts one turn and publishes one reply
   for it. *)
LEMMA LaneOnce ==
    ASSUME Typed, [Next]_vars, ~Crash, NEW r
    PROVE  /\ ToRun(r)' => ToRun(r) \/ Entered(r)
           /\ ToAnswer(r)' => ToAnswer(r) \/ Entered(r)
           /\ BeginTurn /\ lane.req = r => ToRun(r) /\ ~ToRun(r)'
           /\ (PublishReply \/ PublishClosed) /\ lane.req = r => ToAnswer(r) /\ ~ToAnswer(r)'
<1>0. Idle.pc = "idle"
  BY DEF Idle
<1>1. ToRun(r)' => ToRun(r) \/ Entered(r)
  BY <1>0, LaneMoves DEF ToRun, Entered, LaneOn, BeforeTurn, InTurn
<1>2. ToAnswer(r)' => ToAnswer(r) \/ Entered(r)
  BY <1>0, LaneMoves DEF ToAnswer, Entered, LaneOn, InTurn
<1>3. ASSUME BeginTurn, lane.req = r PROVE ToRun(r) /\ ~ToRun(r)'
  <2>1. lane.pc \in BeforeTurn
    BY <1>3, BeginTurnIs DEF BeforeTurn
  <2>2. PICK s : Begin(s)
    BY <1>3, BeginTurnIs
  <2>3. lane'.pc = "pre_model"
    BY <2>2, LaneFields
  <2>4. QED
    BY <1>3, <2>1, <2>3 DEF ToRun, BeforeTurn
<1>4. ASSUME PublishReply \/ PublishClosed, lane.req = r PROVE ToAnswer(r) /\ ~ToAnswer(r)'
  <2>1. lane.pc \in {"reply", "publish"} /\ lane'.pc \in {"mark_done", "idle"}
    BY <1>4, LaneFields DEF PublishReply, PublishClosed
  <2>2. QED
    BY <1>4, <2>1 DEF ToAnswer
<1>5. QED
  BY <1>1, <1>2, <1>3, <1>4

LEMMA OneMoreStep ==
    ASSUME TurnsPanic = FALSE, Typed, Typed', OpenTurns, Counted, OneMore, [Next]_vars
    PROVE  OneMore'
<1>1. TodoOnce' /\ ResumedOn'
  BY TodoOnceStep, ResumedOnStep DEF OneMore
<1>2. ASSUME NEW r \in Prompts PROVE StoredCounted(r)'
  <2>1. r \in Reqs /\ StoredCounted(r)
    BY DEF OneMore, Reqs, Dispatched
  <2> DEFINE A == Cardinality(StoredTo(r))
             B == Cardinality(StoredTo(r)')
  <2>2. A \in Nat /\ B \in Nat /\ A + admitted[r] <= delivered[r]
    BY <2>1, RepliesMade DEF StoredCounted
  <2>3. B = A \/ (B = A + 1 /\ PublishDuplicate(r))
    BY RepliesMade
  <2>4. SUFFICES B + admitted'[r] <= delivered'[r]
    BY DEF StoredCounted
  <2> HIDE DEF A, B
  <2>5. QED
    BY <2>1, <2>2, <2>3, AdmittedSteps, DeliveriesMade
<1>3. ASSUME NEW r \in Prompts PROVE TurnsCounted(r)' /\ RepliesCounted(r)'
  <2>0. /\ r \in Reqs /\ crashes \in Nat /\ admitted[r] \in Nat /\ admitted'[r] \in Nat
        /\ TurnsCounted(r) /\ RepliesCounted(r)
    <3>1. r \in Reqs
      BY DEF Reqs, Dispatched
    <3>2. QED
      BY <3>1, AdmittedSteps DEF OneMore, Typed, CountsTyped
  <2> DEFINE T == Cardinality(TurnsFor(r))
             U == Cardinality(TurnsFor(r)')
             P == Cardinality(AnswersTo(r))
             Q == Cardinality(AnswersTo(r)')
             C == Queued(r)
             D == Queued(r)'
             K == Still(ToRun(r))
             L == Still(ToRun(r)')
             X == Still(ToAnswer(r))
             Y == Still(ToAnswer(r)')
             E == Still(Entered(r))
             I == Still(Inline(r))
             F == Still(PublishNew(r))
  <2>1. /\ K \in {0, 1} /\ L \in {0, 1} /\ X \in {0, 1} /\ Y \in {0, 1}
        /\ E \in {0, 1} /\ I \in {0, 1} /\ F \in {0, 1}
    BY DEF Still
  <2>2. T \in Nat /\ U \in Nat /\ P \in Nat /\ Q \in Nat
    BY TurnsMade, RepliesMade
  <2>3. T + C + K <= admitted[r] + crashes /\ P + C + X <= admitted[r] + crashes
    BY <2>0 DEF TurnsCounted, RepliesCounted
  <2>4. SUFFICES U + D + L <= admitted'[r] + crashes' /\ Q + D + Y <= admitted'[r] + crashes'
    BY DEF TurnsCounted, RepliesCounted
  <2>5. CASE Crash
    <3>1. /\ turns' = turns /\ replies' = replies /\ admitted' = admitted /\ crashes' = crashes + 1
          /\ bus' = <<>> /\ waiting' = <<>> /\ lane' = Idle
      BY <2>5 DEF Crash
    <3>2. U = T /\ Q = P
      BY <3>1 DEF TurnsFor, AnswersTo, RepliesTo
    <3>3. D \in {0, 1}
      <4>1. Heard(<<>>, r) = 0
        <5>1. bus \in Seq(Reqs)
          BY DEF Typed, QueuesTyped
        <5>2. QED
          BY <5>1, HeardTyped
      <4>2. D = 0 + 0 + Still(Returns(r)')
        BY <3>1, <4>1 DEF Queued
      <4>3. Still(Returns(r)') \in {0, 1}
        BY DEF Still
      <4>4. QED
        BY <4>2, <4>3
    <3>4. L = 0 /\ Y = 0
      BY <3>1 DEF ToRun, ToAnswer, BeforeTurn, Idle, Still
    <3>5. C \in Nat
      <4>1. bus \in Seq(Reqs) /\ waiting \in Seq(Dispatched)
        BY DEF Typed, QueuesTyped
      <4>2. Heard(bus, r) \in Nat /\ Heard(waiting, r) \in Nat /\ Still(Returns(r)) \in {0, 1}
        BY <4>1, HeardTyped DEF Still
      <4>3. QED
        BY <4>2 DEF Queued
    <3> HIDE DEF T, U, P, Q, C, D, K, L, X, Y, E, I, F
    <3>6. QED
      BY <2>0, <2>1, <2>2, <2>3, <3>1, <3>2, <3>3, <3>4, <3>5
  <2>6. CASE ~Crash
    <3>1. crashes' = crashes /\ admitted'[r] = admitted[r] + F
      BY <2>0, <2>6, CrashesSame, AdmittedSteps DEF Still
    <3>2. C \in Nat /\ D \in Nat /\ D + I + E <= C + F
      BY <2>0, <2>6, QueuedSteps DEF OneMore
    <3>3. (ToRun(r)' => ToRun(r) \/ Entered(r)) /\ (ToAnswer(r)' => ToAnswer(r) \/ Entered(r))
      BY <2>6, LaneOnce
    <3>4. U = T \/ (U = T + 1 /\ ToRun(r) /\ ~ToRun(r)')
      BY <2>6, TurnsMade, LaneOnce
    <3>5. Q = P \/ (Q = P + 1 /\ (Inline(r) \/ (ToAnswer(r) /\ ~ToAnswer(r)')))
      BY <2>6, RepliesMade, LaneOnce
    <3>6. L <= K + E /\ Y <= X + E
      BY <3>3 DEF Still
    <3>7. U = T \/ (U = T + 1 /\ K = 1 /\ L = 0)
      BY <3>4 DEF Still
    <3>8. Q = P \/ (Q = P + 1 /\ (I = 1 \/ (X = 1 /\ Y = 0)))
      BY <3>5 DEF Still
    <3> HIDE DEF T, U, P, Q, C, D, K, L, X, Y, E, I, F
    <3>9. U + L <= T + K + E /\ Q + Y <= P + X + E + I
      BY <2>1, <2>2, <3>6, <3>7, <3>8
    <3>10. QED
      BY <2>0, <2>1, <2>2, <2>3, <3>1, <3>2, <3>9
  <2>7. QED
    BY <2>5, <2>6
<1>4. QED
  BY <1>1, <1>2, <1>3 DEF OneMore

(* A request has one turn and one reply of the agent each time the ledger accepts
   it, and a kill costs at most one more of each, however often its channel
   delivers it again while the ledger knows it, and however the kills, resumes and
   re-drives fall together with new messages, /stop and /new.  A redelivery of an
   answered request has the stored reply sent once more: with those, no more
   replies go out than there were deliveries and kills.  Only a panic makes it
   more: it ends a resumed turn without closing the turn or its request. *)
THEOREM OneMorePerKill ==
    ASSUME TurnsPanic = FALSE
    PROVE  Spec => []OneMorePerCrash
<1>1. Init => OneMore
  <2> SUFFICES ASSUME Init
               PROVE  /\ TodoOnce /\ ResumedOn
                      /\ \A r \in Prompts : TurnsCounted(r) /\ RepliesCounted(r) /\ StoredCounted(r)
    BY DEF OneMore
  <2>1. /\ bus = <<>> /\ waiting = <<>> /\ lane = Idle /\ startup.pc = "done"
        /\ startup.todo = <<>> /\ turns = <<>> /\ replies = <<>> /\ crashes = 0
    BY DEF Init, NoTurn
  <2>2. TodoOnce /\ ResumedOn
    BY <2>1 DEF TodoOnce, ResumedOn, Idle
  <2>3. ASSUME NEW r \in Prompts PROVE TurnsCounted(r) /\ RepliesCounted(r) /\ StoredCounted(r)
    <3>1. r \in Reqs /\ admitted[r] = 0 /\ delivered[r] = 0
      BY DEF Init, Reqs, Dispatched
    <3>2. ~Returns(r)
      BY <2>1 DEF Returns, Resumes, Redriving, ToDoSteps, ToSet, Cut, Unseen, Starting
    <3>3. Still(Returns(r)) = 0 /\ Still(ToRun(r)) = 0 /\ Still(ToAnswer(r)) = 0
      BY <2>1, <3>2 DEF ToRun, ToAnswer, BeforeTurn, Idle, Still
    <3>4. Heard(<<>>, r) = 0
      <4>1. <<>> \in Seq(Reqs)
        BY EmptySeq
      <4>2. QED
        BY <4>1, HeardTyped
    <3>5. Queued(r) = 0
      BY <2>1, <3>3, <3>4 DEF Queued
    <3>6. Cardinality(TurnsFor(r)) = 0 /\ Cardinality(AnswersTo(r)) = 0 /\ Cardinality(StoredTo(r)) = 0
      <4>1. TurnsFor(r) = {} /\ AnswersTo(r) = {} /\ StoredTo(r) = {}
        BY <2>1 DEF TurnsFor, AnswersTo, StoredTo, RepliesTo
      <4>2. QED
        BY <4>1, FS_EmptySet
    <3>7. QED
      BY <2>1, <3>1, <3>3, <3>5, <3>6 DEF TurnsCounted, RepliesCounted, StoredCounted
  <2>4. QED
    BY <2>2, <2>3
<1>2. Typed /\ Typed' /\ OpenTurns /\ Counted /\ OneMore /\ [Next]_vars => OneMore'
  BY OneMoreStep
<1>3. Typed /\ OneMore => OneMorePerCrash
  <2> SUFFICES ASSUME Typed, OneMore, NEW r \in Prompts
               PROVE  /\ Cardinality(TurnsFor(r)) <= admitted[r] + crashes
                      /\ Cardinality(AnswersTo(r)) <= admitted[r] + crashes
                      /\ Cardinality(RepliesTo(r)) <= delivered[r] + crashes
    BY DEF OneMorePerCrash
  <2>1. r \in Reqs
    BY DEF Reqs, Dispatched
  <2>2. /\ IsFiniteSet(TurnsFor(r)) /\ IsFiniteSet(AnswersTo(r)) /\ IsFiniteSet(StoredTo(r))
        /\ RepliesTo(r) = AnswersTo(r) \cup StoredTo(r)
    <3>1. turns \in Seq([req : Prompts, attempt : Nat]) /\ replies \in Seq(ReplyRecs)
      BY DEF Typed, CountsTyped
    <3>2. /\ TurnsFor(r) \in SUBSET DOMAIN turns /\ AnswersTo(r) \in SUBSET DOMAIN replies
          /\ StoredTo(r) \in SUBSET DOMAIN replies
      BY DEF TurnsFor, AnswersTo, StoredTo, RepliesTo
    <3>3. RepliesTo(r) = AnswersTo(r) \cup StoredTo(r)
      BY DEF AnswersTo, StoredTo
    <3>4. QED
      BY <3>1, <3>2, <3>3, DomainFinite
  <2>3. /\ Cardinality(TurnsFor(r)) \in Nat /\ Cardinality(AnswersTo(r)) \in Nat
        /\ Cardinality(StoredTo(r)) \in Nat /\ Cardinality(AnswersTo(r) \cap StoredTo(r)) \in Nat
        /\ Cardinality(RepliesTo(r)) = Cardinality(AnswersTo(r)) + Cardinality(StoredTo(r))
                                          - Cardinality(AnswersTo(r) \cap StoredTo(r))
    <3>1. IsFiniteSet(AnswersTo(r) \cap StoredTo(r))
      BY <2>2, FS_Subset
    <3>2. QED
      BY <2>2, <3>1, FS_Union, FS_CardinalityType
  <2>4. admitted[r] \in Nat /\ crashes \in Nat /\ delivered[r] \in Nat
    BY <2>1, BoundsAssumption DEF Typed, CountsTyped
  <2>5. Queued(r) \in Nat /\ Still(ToRun(r)) \in {0, 1} /\ Still(ToAnswer(r)) \in {0, 1}
    <3>1. bus \in Seq(Reqs) /\ waiting \in Seq(Dispatched)
      BY DEF Typed, QueuesTyped
    <3>2. Heard(bus, r) \in Nat /\ Heard(waiting, r) \in Nat /\ Still(Returns(r)) \in {0, 1}
      BY <3>1, HeardTyped DEF Still
    <3>3. QED
      BY <3>2 DEF Queued, Still
  <2>6. TurnsCounted(r) /\ RepliesCounted(r) /\ StoredCounted(r)
    BY DEF OneMore
  <2>7. QED
    BY <2>3, <2>4, <2>5, <2>6 DEF TurnsCounted, RepliesCounted, StoredCounted
<1>4. QED
  BY <1>1, <1>2, <1>3, TypesHold, CountsHold, PTL DEF Spec

--------------------------------------------------------------------------------
(* What is saved grows: the chat on disk is the beginning of the chat of every
   session that may be saved after it. *)

ChatAt(s) == {i \in DOMAIN s : s[i][1] # "command"}

LEMMA ChatIs == ASSUME NEW s PROVE ChatHistory(s) = Part(s, ChatAt(s)) /\ ChatAt(s) \subseteq DOMAIN s
BY DEF ChatHistory, ChatAt

LEMMA ChatContinued ==
    ASSUME NEW A, NEW s \in Seq(A), NEW t \in Seq(A), DOMAIN s \subseteq DOMAIN t,
           \A i \in DOMAIN s : t[i] = s[i]
    PROVE  IsPrefix(ChatHistory(s), ChatHistory(t))
<1>1. ChatAt(t) \cap DOMAIN s = ChatAt(s)
  BY DEF ChatAt
<1>2. QED
  BY <1>1, ChatIs, PartPrefix

LEMMA ChatAppended ==
    ASSUME NEW A, NEW s \in Seq(A), NEW m \in A
    PROVE  IsPrefix(ChatHistory(s), ChatHistory(Append(s, m)))
<1>1. /\ Append(s, m) \in Seq(A) /\ DOMAIN Append(s, m) = DOMAIN s \cup {Len(s) + 1}
      /\ \A i \in DOMAIN s : Append(s, m)[i] = s[i]
  BY AppendFacts
<1>2. QED
  BY <1>1, ChatContinued

LEMMA ChatMerged ==
    ASSUME NEW A, NEW s \in Seq(A), NEW e \in Seq(A)
    PROVE  IsPrefix(ChatHistory(s), ChatHistory(s \o e))
<1>1. s \o e \in Seq(A) /\ \A i \in DOMAIN s : i \in DOMAIN (s \o e) /\ (s \o e)[i] = s[i]
  BY ConcatFacts
<1>2. QED
  BY <1>1, ChatContinued

(* A command turn is not part of the chat. *)
LEMMA CommandsAside ==
    ASSUME NEW A, NEW s \in Seq(A), NEW r, Command(r) \in A
    PROVE  ChatHistory(Append(s, Command(r))) = ChatHistory(s)
<1> DEFINE t == Append(s, Command(r))
<1>1. /\ t \in Seq(A) /\ DOMAIN t = DOMAIN s \cup {Len(s) + 1}
      /\ \A i \in DOMAIN s : t[i] = s[i]
      /\ t[Len(s) + 1] = Command(r)
  BY AppendFacts
<1>2. Command(r)[1] = "command"
  BY DEF Command
<1> HIDE DEF t
<1>3. ChatAt(t) = ChatAt(s)
  BY <1>1, <1>2 DEF ChatAt
<1> DEFINE p == ChatHistory(s)
           q == ChatHistory(t)
<1>4. /\ p \in Seq(A) /\ Len(p) = Cardinality(ChatAt(s)) /\ Cardinality(ChatAt(s)) \in Nat
      /\ q \in Seq(A) /\ Len(q) = Cardinality(ChatAt(s))
  BY <1>1, <1>3, ChatIs, PartFacts
<1>5. IsPrefix(p, q)
  BY <1>1, ChatContinued
<1> HIDE DEF p, q
<1>6. Len(p) = Len(q) /\ \A i \in 1..Len(p) : p[i] = q[i]
  BY <1>4, <1>5, PrefixIs
<1>7. p = q
  BY <1>4, <1>6, SeqEqual
<1>8. QED
  BY <1>7 DEF p, q, t

Grown ==
    /\ IsPrefix(ChatHistory(disk), ChatHistory(cache))
    /\ lane.pc \in {"resume"} \cup InTurn => IsPrefix(ChatHistory(disk), ChatHistory(lane.session))

LEMMA GrownStep ==
    ASSUME Typed, SavedOnce, Grown, [Next]_vars, Resets = {}
    PROVE  Grown' /\ IsPrefix(ChatHistory(disk), ChatHistory(disk'))
<1>0. /\ N \in Nat /\ journal \in Seq(Recs(N))
      /\ disk \in Seq(MsgsTo(N)) /\ cache \in Seq(MsgsTo(N))
      /\ lane.pc # "restoring" => cache = disk
  BY NIsNat DEF Typed, StoresTyped, SavedOnce, SessionsApart
<1>1. IsPrefix(ChatHistory(disk), ChatHistory(disk))
  BY PrefixItself
<1>2. CASE BeginTurn
  <2>1. PICK s \in Seq(MsgsTo(N)) :
           /\ Begin(s)
           /\ \/ lane.pc = "begin" /\ s = Append(cache, User(lane.req))
              \/ lane.pc = "resume" /\ s = lane.session /\ ~HasFinalAnswer(s)
    BY <1>2, BeginTurnIs
  <2>2. lane'.session = s /\ UNCHANGED <<disk, cache>> /\ lane.req \in Prompts /\ cache = disk
    BY <1>0, <1>2, <2>1, LaneFields, BeginTurnIs DEF Begin
  <2>3. CASE lane.pc = "begin" /\ s = Append(cache, User(lane.req))
    <3>1. User(lane.req) \in MsgsTo(N)
      BY <2>2 DEF MsgsTo, Reqs, Dispatched
    <3>2. IsPrefix(ChatHistory(disk), ChatHistory(s))
      BY <1>0, <2>2, <2>3, <3>1, ChatAppended
    <3>3. QED
      BY <1>1, <2>2, <3>2 DEF Grown
  <2>4. CASE lane.pc = "resume" /\ s = lane.session
    BY <1>1, <2>2, <2>4 DEF Grown
  <2>5. QED
    BY <2>1, <2>3, <2>4
<1>3. CASE RestoreTurn
  <2> DEFINE t == First1(ToRestore(journal))
  <2>1. cache' = cache \o RestoredMessages(journal, t) /\ disk' = disk /\ t \in ToRestore(journal)
    BY <1>3, MergeSettles DEF RestoreTurn, SavedOnce
  <2>2. RestoredMessages(journal, t) \in Seq(MsgsTo(N))
    BY <1>0, <2>1, TurnsTyped
  <2> HIDE DEF t
  <2>3. IsPrefix(ChatHistory(cache), ChatHistory(cache'))
    BY <1>0, <2>1, <2>2, ChatMerged
  <2>4. cache' \in Seq(MsgsTo(N))
    BY <1>0, <2>1, <2>2, ConcatProperties
  <2>5. IsPrefix(ChatHistory(disk'), ChatHistory(cache'))
    <3>1. /\ ChatHistory(disk) \in Seq(MsgsTo(N)) /\ ChatHistory(cache) \in Seq(MsgsTo(N))
          /\ ChatHistory(cache') \in Seq(MsgsTo(N))
      BY <1>0, <2>4, HistoryTyped
    <3>2. QED
      BY <2>1, <2>3, <3>1, PrefixTransitive DEF Grown
  <2>6. lane'.pc \notin {"resume"} \cup InTurn
    BY <1>3, LaneFields DEF InTurn
  <2>7. QED
    BY <1>1, <2>1, <2>5, <2>6 DEF Grown
<1>4. CASE SaveRestored
  <2>1. disk' = cache /\ cache' = cache /\ lane'.session = cache
    BY <1>0, <1>4, LaneFields DEF SaveRestored
  <2>2. QED
    BY <2>1, PrefixItself DEF Grown
<1>5. CASE PersistTurn
  <2>1. /\ disk' = Append(lane.session, Answer(lane.turn)) /\ cache' = disk' /\ lane.pc = "persist"
    BY <1>5 DEF PersistTurn
  <2>2. /\ lane.session \in Seq(MsgsTo(N)) /\ Answer(lane.turn) \in MsgsTo(N)
        /\ IsPrefix(ChatHistory(disk), ChatHistory(lane.session))
    BY <2>1 DEF Typed, LaneTyped, Lanes, InTurn, MsgsTo, Grown
  <2>3. disk' \in Seq(MsgsTo(N)) /\ IsPrefix(ChatHistory(lane.session), ChatHistory(disk'))
    BY <2>1, <2>2, ChatAppended, AppendProperties
  <2>4. IsPrefix(ChatHistory(disk), ChatHistory(disk'))
    <3>1. /\ ChatHistory(disk) \in Seq(MsgsTo(N)) /\ ChatHistory(lane.session) \in Seq(MsgsTo(N))
          /\ ChatHistory(disk') \in Seq(MsgsTo(N))
      BY <1>0, <2>2, <2>3, HistoryTyped
    <3>2. QED
      BY <2>2, <2>3, <3>1, PrefixTransitive
  <2>5. lane'.pc \in {"close", "reply"}
    BY <1>5, LaneFields
  <2>6. QED
    BY <2>1, <2>4, <2>5, PrefixItself DEF Grown, InTurn
<1>6. CASE Crash
  <2>1. cache' = disk /\ disk' = disk /\ lane'.pc = "idle"
    BY <1>6, LaneFields DEF Crash
  <2>2. QED
    BY <1>1, <2>1 DEF Grown, InTurn
<1>7. CASE \/ EndTurn \/ PruneJournal \/ CompactLedger \/ ModelFails
           \/ CheckpointPreModel \/ ModelAnswers
  <2>1. UNCHANGED <<disk, cache>> /\ lane.pc \in InTurn
    BY <1>7 DEF EndTurn, PruneJournal, CompactLedger, ModelFails, CheckpointPreModel,
                ModelAnswers, stores, InTurn
  <2>2. lane'.session = lane.session
    BY <1>7, LaneFields
  <2>3. QED
    BY <1>1, <2>1, <2>2 DEF Grown
<1>8. CASE \/ MarkProcessing \/ FindFinalAnswer \/ ModelPanics \/ TakeLock \/ PublishReply
           \/ CloseRequest \/ MarkDone \/ PublishClosed \/ Aborted \/ StartResume
  <2>1. UNCHANGED <<disk, cache>>
    BY <1>8 DEF MarkProcessing, FindFinalAnswer, ModelPanics, TakeLock, PublishReply, CloseRequest,
                MarkDone, PublishClosed, Aborted, StartResume, stores
  <2>2. lane'.pc \notin {"resume"} \cup InTurn
    BY <1>8, LaneFields DEF InTurn
  <2>3. QED
    BY <1>1, <2>1, <2>2 DEF Grown
<1>9. CASE ~LaneStep /\ ~Crash /\ ~StartResume
  <2>1. SameLane /\ SameAnswers
    BY <1>9, OtherSteps
  <2>2. CASE UNCHANGED <<disk, cache>>
    BY <1>1, <2>1, <2>2 DEF Grown, SameLane
  <2>3. CASE ~UNCHANGED <<disk, cache>>
    <3>1. PICK r \in Reqs :
             cache' = Append(cache, Command(r)) /\ disk' = cache' /\ cache = disk
      BY <1>0, <2>1, <2>3 DEF SameAnswers
    <3>2. Command(r) \in MsgsTo(N)
      BY DEF MsgsTo
    <3>3. ChatHistory(disk') = ChatHistory(disk)
      BY <1>0, <3>1, <3>2, CommandsAside
    <3>4. QED
      BY <1>1, <2>1, <3>1, <3>3 DEF Grown, SameLane
  <2>4. QED
    BY <2>2, <2>3
<1>10. ~NewSession
  BY DEF NewSession
<1>11. QED
  BY <1>2, <1>3, <1>4, <1>5, <1>6, <1>7, <1>8, <1>9, <1>10 DEF LaneStep

(* Saving a session never drops a prompt or an answer that was saved before, nor
   changes their order, whether it is a turn, a resumed turn, a merge or a command
   that saves, and whatever kills and panics come in between.  Without /new,
   which clears the session. *)
THEOREM SavedChatGrows ==
    ASSUME Resets = {}
    PROVE  Spec => TranscriptOnlyGrows
<1>1. Init => Grown
  <2>1. Init => disk = <<>> /\ cache = <<>> /\ lane.pc = "idle"
    BY DEF Init, Idle
  <2>2. QED
    BY <2>1, PrefixItself DEF Grown, InTurn
<1>2. Typed /\ SavedOnce /\ Grown /\ [Next]_vars => Grown'
  BY GrownStep
<1>3. Typed /\ SavedOnce /\ Grown /\ [Next]_vars
         => [IsPrefix(ChatHistory(disk), ChatHistory(disk'))]_vars
  BY GrownStep
<1>4. QED
  BY <1>1, <1>2, <1>3, TypesHold, SavedHolds, PTL DEF Spec, TranscriptOnlyGrows

================================================================================
