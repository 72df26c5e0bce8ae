-------------------------- MODULE RecoveryPlan_proofs --------------------------
(***************************************************************************)
(* Lemmas about the decisions of crash recovery: what it means to take the *)
(* elements of a sequence at some positions, and what the ledger, pruning  *)
(* and compaction keep of a journal.                                       *)
(***************************************************************************)
EXTENDS RecoveryPlan, FiniteSetTheorems, SequenceTheorems, TLAPS

--------------------------------------------------------------------------------
(* The numbers of a finite set in increasing order *)

LEMMA RankBounds ==
    ASSUME NEW S \in SUBSET Int, IsFiniteSet(S), NEW i \in S
    PROVE  /\ Rank(S, i) \in 1..Cardinality(S) /\ Rank(S, i) \in Nat
           /\ IsFiniteSet({k \in S : k <= i})
<1>1. /\ IsFiniteSet({k \in S : k <= i})
      /\ Rank(S, i) <= Cardinality(S)
  BY FS_Subset DEF Rank
<1>2. Rank(S, i) \in Nat /\ Cardinality(S) \in Nat
  BY <1>1, FS_CardinalityType DEF Rank
<1>3. i \in {k \in S : k <= i}
  OBVIOUS
<1>4. Rank(S, i) # 0
  BY <1>1, <1>3, FS_EmptySet DEF Rank
<1>5. QED
  BY <1>1, <1>2, <1>4

LEMMA RankGrows ==
    ASSUME NEW S \in SUBSET Int, IsFiniteSet(S), NEW i \in S, NEW k \in S
    PROVE  i < k <=> Rank(S, i) < Rank(S, k)
<1>1. ASSUME NEW a \in S, NEW b \in S, a < b PROVE Rank(S, a) < Rank(S, b)
  <2> DEFINE A == {n \in S : n <= a}
             B == {n \in S : n <= b}
  <2>0. a \in Int /\ b \in Int /\ \A n \in S : n \in Int
    OBVIOUS
  <2>1. A \in SUBSET B /\ b \in B /\ b \notin A
    <3>1. \A n \in S : n <= a => n <= b
      BY <1>1, <2>0
    <3>2. b <= b /\ ~(b <= a)
      BY <1>1, <2>0
    <3>3. QED
      BY <3>1, <3>2
  <2>2. IsFiniteSet(B)
    BY RankBounds
  <2>3. Cardinality(A) <= Cardinality(B) /\ Cardinality(A) # Cardinality(B)
    BY <2>1, <2>2, FS_Subset
  <2>4. Rank(S, a) \in Nat /\ Rank(S, b) \in Nat
    BY RankBounds
  <2>5. QED
    BY <2>3, <2>4 DEF Rank
<1>2. Rank(S, i) \in Nat /\ Rank(S, k) \in Nat
  BY RankBounds
<1>3. CASE i < k
  BY <1>1, <1>3
<1>4. CASE k < i
  BY <1>1, <1>2, <1>4
<1>5. CASE i = k
  BY <1>2, <1>5
<1>6. i \in Int /\ k \in Int
  OBVIOUS
<1>7. QED
  BY <1>3, <1>4, <1>5, <1>6

(* Every number up to the size of the set is the rank of a member. *)
LEMMA RankOnto ==
    ASSUME NEW S \in SUBSET Int, IsFiniteSet(S), NEW n \in 1..Cardinality(S)
    PROVE  \E i \in S : Rank(S, i) = n
<1> DEFINE T == 1..Cardinality(S)
           f == [i \in S |-> Rank(S, i)]
<1>1. Cardinality(S) \in Nat
  BY FS_CardinalityType
<1>2. IsFiniteSet(T) /\ Cardinality(T) = Cardinality(S)
  BY <1>1, FS_Interval
<1>3. f \in [S -> T]
  BY RankBounds
<1>4. \A i, k \in S : f[i] = f[k] => i = k
  <2> SUFFICES ASSUME NEW i \in S, NEW k \in S, i # k PROVE f[i] # f[k]
    OBVIOUS
  <2>0. i \in Int /\ k \in Int
    OBVIOUS
  <2>1. i < k \/ k < i
    BY <2>0
  <2>2. Rank(S, i) < Rank(S, k) \/ Rank(S, k) < Rank(S, i)
    BY <2>1, RankGrows
  <2>3. Rank(S, i) \in Nat /\ Rank(S, k) \in Nat
    BY RankBounds
  <2>4. QED
    BY <2>2, <2>3
<1>5. f \in Injection(S, T)
  BY <1>3, <1>4 DEF Injection, IsInjective
<1>6. f \in Surjection(S, T)
  BY <1>2, <1>5, FS_Injection
<1>7. QED
  BY <1>6 DEF Surjection

LEMMA InOrderFacts ==
    ASSUME NEW S \in SUBSET Int, IsFiniteSet(S)
    PROVE  /\ Cardinality(S) \in Nat
           /\ InOrder(S) \in [1..Cardinality(S) -> S]
           /\ \A n \in 1..Cardinality(S) : Rank(S, InOrder(S)[n]) = n
           /\ \A i \in S : /\ Rank(S, i) \in 1..Cardinality(S)
                           /\ InOrder(S)[Rank(S, i)] = i
           /\ \A m, n \in 1..Cardinality(S) : m < n <=> InOrder(S)[m] < InOrder(S)[n]
<1>1. Cardinality(S) \in Nat
  BY FS_CardinalityType
<1>2. ASSUME NEW n \in 1..Cardinality(S)
      PROVE  InOrder(S)[n] \in S /\ Rank(S, InOrder(S)[n]) = n
  <2>1. \E i \in S : Rank(S, i) = n
    BY RankOnto
  <2>2. InOrder(S)[n] = CHOOSE i \in S : Rank(S, i) = n
    BY DEF InOrder
  <2>3. QED
    BY <2>1, <2>2
<1>3. InOrder(S) \in [1..Cardinality(S) -> S]
  BY <1>2 DEF InOrder
<1>4. \A m, n \in 1..Cardinality(S) : m < n <=> InOrder(S)[m] < InOrder(S)[n]
  <2> TAKE m, n \in 1..Cardinality(S)
  <2>1. InOrder(S)[m] < InOrder(S)[n] <=> Rank(S, InOrder(S)[m]) < Rank(S, InOrder(S)[n])
    BY <1>2, RankGrows
  <2>2. QED
    BY <1>2, <2>1
<1>5. ASSUME NEW i \in S
      PROVE  Rank(S, i) \in 1..Cardinality(S) /\ InOrder(S)[Rank(S, i)] = i
  <2>1. Rank(S, i) \in 1..Cardinality(S)
    BY RankBounds
  <2> DEFINE k == InOrder(S)[Rank(S, i)]
  <2>2. k \in S /\ Rank(S, k) = Rank(S, i)
    BY <1>2, <2>1
  <2> HIDE DEF k
  <2>3. ~(i < k) /\ ~(k < i)
    BY <1>1, <2>1, <2>2, RankGrows
  <2>4. i \in Int /\ k \in Int
    BY <2>2
  <2>5. i = k
    BY <2>3, <2>4
  <2>6. QED
    BY <2>1, <2>5 DEF k
<1>6. QED
  BY <1>1, <1>2, <1>3, <1>4, <1>5

(* The last and the first of a set of numbers *)
LEMMA LastFacts ==
    ASSUME NEW S \in SUBSET Int, IsFiniteSet(S), S # {}
    PROVE  Last1(S) \in S /\ \A k \in S : k <= Last1(S)
<1>1. Cardinality(S) \in Nat /\ Cardinality(S) # 0
  BY FS_CardinalityType, FS_EmptySet
<1> DEFINE i == InOrder(S)[Cardinality(S)]
<1>2. i \in S /\ Rank(S, i) = Cardinality(S)
  BY <1>1, InOrderFacts
<1> HIDE DEF i
<1>3. ASSUME NEW k \in S PROVE k <= i
  <2>1. Rank(S, k) \in 1..Cardinality(S)
    BY RankBounds
  <2>2. ~(i < k)
    BY <1>1, <1>2, <2>1, RankGrows
  <2>3. i \in Int /\ k \in Int
    BY <1>2
  <2>4. QED
    BY <2>2, <2>3
<1>4. QED
  BY <1>2, <1>3 DEF Last1

LEMMA FirstFacts ==
    ASSUME NEW S \in SUBSET Int, IsFiniteSet(S), S # {}
    PROVE  First1(S) \in S /\ \A k \in S : First1(S) <= k
<1>1. Cardinality(S) \in Nat /\ Cardinality(S) # 0
  BY FS_CardinalityType, FS_EmptySet
<1> DEFINE i == InOrder(S)[1]
<1>2. i \in S /\ Rank(S, i) = 1
  BY <1>1, InOrderFacts
<1> HIDE DEF i
<1>3. ASSUME NEW k \in S PROVE i <= k
  <2>1. Rank(S, k) \in 1..Cardinality(S)
    BY RankBounds
  <2>2. ~(k < i)
    BY <1>1, <1>2, <2>1, RankGrows
  <2>3. i \in Int /\ k \in Int
    BY <1>2
  <2>4. QED
    BY <2>2, <2>3
<1>4. QED
  BY <1>2, <1>3 DEF First1

--------------------------------------------------------------------------------
(* The elements of a sequence at some positions *)

LEMMA SeqMonotone ==
    ASSUME NEW A, NEW B, A \subseteq B, NEW s \in Seq(A)
    PROVE  s \in Seq(B)
<1>1. Len(s) \in Nat /\ s \in [1..Len(s) -> A]
  BY LenProperties
<1>2. s \in [1..Len(s) -> B]
  BY <1>1
<1>3. QED
  BY <1>1, <1>2, IsASeq

LEMMA DomainFinite ==
    ASSUME NEW A, NEW s \in Seq(A), NEW S \in SUBSET DOMAIN s
    PROVE  S \in SUBSET Int /\ IsFiniteSet(S)
<1>1. DOMAIN s = 1..Len(s) /\ Len(s) \in Nat
  BY LenProperties
<1>2. IsFiniteSet(DOMAIN s)
  BY <1>1, FS_Interval
<1>3. QED
  BY <1>1, <1>2, FS_Subset

(* Position n of a part is position InOrder(S)[n] of the sequence; i, one of the
   positions taken, is found at Rank(S, i). *)
LEMMA PartFacts ==
    ASSUME NEW A, NEW s \in Seq(A), NEW S \in SUBSET DOMAIN s
    PROVE  /\ Part(s, S) \in Seq(A)
           /\ Len(Part(s, S)) = Cardinality(S) /\ Cardinality(S) \in Nat
           /\ DOMAIN Part(s, S) = 1..Cardinality(S)
           /\ \A n \in DOMAIN Part(s, S) :
                 /\ InOrder(S)[n] \in S
                 /\ Part(s, S)[n] = s[InOrder(S)[n]]
                 /\ Rank(S, InOrder(S)[n]) = n
           /\ \A m, n \in DOMAIN Part(s, S) : m < n <=> InOrder(S)[m] < InOrder(S)[n]
           /\ \A i \in S : /\ Rank(S, i) \in DOMAIN Part(s, S)
                           /\ InOrder(S)[Rank(S, i)] = i
                           /\ Part(s, S)[Rank(S, i)] = s[i]
           /\ \A i, k \in S : i < k <=> Rank(S, i) < Rank(S, k)
<1>1. S \in SUBSET Int /\ IsFiniteSet(S)
  BY DomainFinite
<1> DEFINE o == InOrder(S)
           p == Part(s, S)
<1>2. /\ Cardinality(S) \in Nat
      /\ o \in [1..Cardinality(S) -> S]
      /\ \A n \in 1..Cardinality(S) : Rank(S, o[n]) = n
      /\ \A i \in S : Rank(S, i) \in 1..Cardinality(S) /\ o[Rank(S, i)] = i
      /\ \A m, n \in 1..Cardinality(S) : m < n <=> o[m] < o[n]
  BY <1>1, InOrderFacts
<1>3. p = [n \in 1..Cardinality(S) |-> s[o[n]]]
  BY DEF Part
<1>4. \A i \in S : s[i] \in A
  BY ElementOfSeq, LenProperties
<1>5. p \in [1..Cardinality(S) -> A]
  BY <1>2, <1>3, <1>4
<1>6. p \in Seq(A) /\ Len(p) = Cardinality(S)
  BY <1>2, <1>5, IsASeq, LenProperties
<1>7. \A i, k \in S : i < k <=> Rank(S, i) < Rank(S, k)
  BY <1>1, RankGrows
<1> HIDE DEF o
<1>8. DOMAIN p = 1..Cardinality(S) /\ \A n \in 1..Cardinality(S) : p[n] = s[o[n]] /\ o[n] \in S
  BY <1>2, <1>3
<1>9. \A i \in S : p[Rank(S, i)] = s[i]
  BY <1>2, <1>8
<1> HIDE DEF p
<1>10. QED
  BY <1>2, <1>6, <1>7, <1>8, <1>9 DEF o, p

--------------------------------------------------------------------------------
(* What a journal says about turns depends on the set of its records. *)

(* A record that ends its turn, and one after which the turn's messages are not
   missing any more. *)
Ends(rec) == rec.kind \in {"turn_end", "turn_restored"}
Settles(rec) ==
    \/ rec.kind = "turn_restored"
    \/ rec.kind = "turn_end" /\ rec.outcome \in {"completed", "failed"}

LEMMA TurnSets ==
    ASSUME NEW j
    PROVE  /\ \A t : t \in TurnsWith(j, "turn_start") <=>
                        \E a \in ToSet(j) : a.kind = "turn_start" /\ a.turn = t
           /\ \A t : t \in Ended(j) <=> \E a \in ToSet(j) : Ends(a) /\ a.turn = t
           /\ \A t : t \in Settled(j) <=> \E a \in ToSet(j) : Settles(a) /\ a.turn = t
           /\ Settled(j) \subseteq Ended(j)
           /\ Unfinished(j) \subseteq ToRestore(j)
           /\ Open(j) = ToRestore(j)
<1>1. \A t : t \in TurnsWith(j, "turn_start") <=>
                \E a \in ToSet(j) : a.kind = "turn_start" /\ a.turn = t
  BY DEF TurnsWith, Records, Is, ToSet
<1>2. \A t : t \in Ended(j) <=> \E a \in ToSet(j) : Ends(a) /\ a.turn = t
  BY DEF Ended, TurnsWith, Records, Is, ToSet, Ends
<1>3. \A t : t \in Settled(j) <=> \E a \in ToSet(j) : Settles(a) /\ a.turn = t
  BY DEF Settled, TurnsWith, Records, Is, ToSet, Settles
<1>4. Settled(j) \subseteq Ended(j)
  BY <1>2, <1>3 DEF Ends, Settles
<1>5. QED
  BY <1>1, <1>2, <1>3, <1>4 DEF Unfinished, ToRestore, Open

LEMMA AppendFacts ==
    ASSUME NEW A, NEW j \in Seq(A), NEW rec \in A
    PROVE  /\ Append(j, rec) \in Seq(A) /\ Len(Append(j, rec)) = Len(j) + 1
           /\ DOMAIN Append(j, rec) = DOMAIN j \cup {Len(j) + 1}
           /\ \A i \in DOMAIN j : i \in Nat /\ i < Len(j) + 1 /\ Append(j, rec)[i] = j[i]
           /\ Append(j, rec)[Len(j) + 1] = rec
           /\ ToSet(Append(j, rec)) = ToSet(j) \cup {rec}
<1>1. /\ Append(j, rec) \in Seq(A) /\ Len(Append(j, rec)) = Len(j) + 1
      /\ \A i \in 1..Len(j) : Append(j, rec)[i] = j[i]
      /\ Append(j, rec)[Len(j) + 1] = rec
  BY AppendProperties
<1>2. DOMAIN j = 1..Len(j) /\ Len(j) \in Nat /\ DOMAIN Append(j, rec) = 1..(Len(j) + 1)
  BY <1>1, LenProperties
<1>3. DOMAIN Append(j, rec) = DOMAIN j \cup {Len(j) + 1}
  BY <1>2
<1>4. \A i \in DOMAIN j : i \in Nat /\ i < Len(j) + 1
  BY <1>2
<1>5. ToSet(Append(j, rec)) = ToSet(j) \cup {rec}
  BY <1>1, <1>2, <1>3 DEF ToSet
<1>6. QED
  BY <1>1, <1>2, <1>3, <1>4, <1>5

LEMMA ConcatFacts ==
    ASSUME NEW A, NEW j \in Seq(A), NEW e \in Seq(A)
    PROVE  /\ j \o e \in Seq(A) /\ ToSet(j \o e) = ToSet(j) \cup ToSet(e)
           /\ \A i \in DOMAIN j : i \in DOMAIN (j \o e) /\ (j \o e)[i] = j[i]
           /\ \A i \in DOMAIN e : i + Len(j) \in DOMAIN (j \o e) /\ (j \o e)[i + Len(j)] = e[i]
           /\ \A i \in DOMAIN (j \o e) : \/ i \in DOMAIN j
                                         \/ i \notin DOMAIN j /\ i - Len(j) \in DOMAIN e
<1>1. /\ j \o e \in Seq(A) /\ Len(j \o e) = Len(j) + Len(e)
      /\ \A i \in 1..(Len(j) + Len(e)) :
            (j \o e)[i] = IF i <= Len(j) THEN j[i] ELSE e[i - Len(j)]
  BY ConcatProperties
<1>2. /\ DOMAIN j = 1..Len(j) /\ Len(j) \in Nat /\ DOMAIN e = 1..Len(e) /\ Len(e) \in Nat
      /\ DOMAIN (j \o e) = 1..(Len(j) + Len(e))
  BY <1>1, LenProperties
<1>3. \A i \in DOMAIN j : i \in DOMAIN (j \o e) /\ (j \o e)[i] = j[i]
  BY <1>1, <1>2
<1>4. \A i \in DOMAIN e : i + Len(j) \in DOMAIN (j \o e) /\ (j \o e)[i + Len(j)] = e[i]
  BY <1>1, <1>2
<1>5. \A i \in DOMAIN (j \o e) : \/ i \in DOMAIN j
                                 \/ i \notin DOMAIN j /\ i - Len(j) \in DOMAIN e
  BY <1>2
<1>6. \A i \in DOMAIN (j \o e) : i \notin DOMAIN j => (j \o e)[i] = e[i - Len(j)]
  BY <1>1, <1>2
<1>7. ToSet(j \o e) = ToSet(j) \cup ToSet(e)
  <2> DEFINE c == j \o e
  <2>1. \A i \in DOMAIN c : \/ (i \in DOMAIN j /\ c[i] = j[i])
                          \/ (i - Len(j) \in DOMAIN e /\ c[i] = e[i - Len(j)])
    BY <1>3, <1>5, <1>6
  <2>2. \A i \in DOMAIN c : c[i] \in ToSet(j) \cup ToSet(e)
    BY <2>1 DEF ToSet
  <2>3. \A i \in DOMAIN j : j[i] \in ToSet(c)
    BY <1>3 DEF ToSet
  <2>4. \A i \in DOMAIN e : e[i] \in ToSet(c)
    BY <1>4 DEF ToSet
  <2> HIDE DEF c
  <2>5. ToSet(c) = ToSet(j) \cup ToSet(e)
    BY <2>2, <2>3, <2>4 DEF ToSet
  <2>6. QED
    BY <2>5 DEF c
<1>8. QED
  BY <1>1, <1>3, <1>4, <1>5, <1>7

LEMMA ElementsOfPart ==
    ASSUME NEW A, NEW j \in Seq(A), NEW S \in SUBSET DOMAIN j
    PROVE  ToSet(Part(j, S)) = {j[i] : i \in S}
<1>1. \A n \in DOMAIN Part(j, S) : InOrder(S)[n] \in S /\ Part(j, S)[n] = j[InOrder(S)[n]]
  BY PartFacts
<1>2. \A i \in S : Rank(S, i) \in DOMAIN Part(j, S) /\ Part(j, S)[Rank(S, i)] = j[i]
  BY PartFacts
<1>3. QED
  BY <1>1, <1>2 DEF ToSet

(* Appending a record to a journal opens a turn only if it is the start of one,
   and settles the turn it names if it settles one. *)
LEMMA AppendOpens ==
    ASSUME NEW A, NEW j \in Seq(A), NEW rec \in A
    PROVE  /\ rec.kind # "turn_start" => ToRestore(Append(j, rec)) \subseteq ToRestore(j)
           /\ rec.kind = "turn_start" => ToRestore(Append(j, rec)) \subseteq ToRestore(j) \cup {rec.turn}
           /\ Settles(rec) => rec.turn \notin ToRestore(Append(j, rec))
<1> DEFINE a == Append(j, rec)
<1>1. ToSet(a) = ToSet(j) \cup {rec}
  BY AppendFacts
<1> HIDE DEF a
<1>2. /\ Settled(j) \subseteq Settled(a)
      /\ Settles(rec) => rec.turn \in Settled(a)
      /\ rec.kind # "turn_start" => TurnsWith(a, "turn_start") = TurnsWith(j, "turn_start")
      /\ rec.kind = "turn_start" => TurnsWith(a, "turn_start") = TurnsWith(j, "turn_start") \cup {rec.turn}
  <2>1. \A t : t \in TurnsWith(a, "turn_start") <=>
                  t \in TurnsWith(j, "turn_start") \/ (rec.kind = "turn_start" /\ rec.turn = t)
    <3>1. \A t : t \in TurnsWith(a, "turn_start") <=>
                    \E b \in ToSet(a) : b.kind = "turn_start" /\ b.turn = t
      BY TurnSets
    <3>2. \A t : t \in TurnsWith(j, "turn_start") <=>
                    \E b \in ToSet(j) : b.kind = "turn_start" /\ b.turn = t
      BY TurnSets
    <3>3. QED
      BY <1>1, <3>1, <3>2
  <2>2. \A t : t \in Settled(a) <=> t \in Settled(j) \/ (Settles(rec) /\ rec.turn = t)
    <3>1. \A t : t \in Settled(a) <=> \E b \in ToSet(a) : Settles(b) /\ b.turn = t
      BY TurnSets
    <3>2. \A t : t \in Settled(j) <=> \E b \in ToSet(j) : Settles(b) /\ b.turn = t
      BY TurnSets
    <3>3. QED
      BY <1>1, <3>1, <3>2
  <2>3. QED
    BY <2>1, <2>2
<1>3. QED
  BY <1>2 DEF ToRestore, a

LEMMA ConcatOpens ==
    ASSUME NEW A, NEW j \in Seq(A), NEW e \in Seq(A), \A i \in DOMAIN e : e[i].kind # "turn_start"
    PROVE  ToRestore(j \o e) \subseteq ToRestore(j)
<1>1. ToSet(j \o e) = ToSet(j) \cup ToSet(e)
  BY ConcatFacts
<1>2. \A a \in ToSet(e) : a.kind # "turn_start"
  BY DEF ToSet
<1>3. /\ Settled(j) \subseteq Settled(j \o e)
      /\ TurnsWith(j \o e, "turn_start") = TurnsWith(j, "turn_start")
  <2> DEFINE c == j \o e
  <2> HIDE DEF c
  <2>0. ToSet(c) = ToSet(j) \cup ToSet(e)
    BY <1>1 DEF c
  <2>1. \A t : t \in TurnsWith(c, "turn_start") <=> t \in TurnsWith(j, "turn_start")
    <3>1. \A t : t \in TurnsWith(c, "turn_start") <=>
                    \E b \in ToSet(c) : b.kind = "turn_start" /\ b.turn = t
      BY TurnSets
    <3>2. \A t : t \in TurnsWith(j, "turn_start") <=>
                    \E b \in ToSet(j) : b.kind = "turn_start" /\ b.turn = t
      BY TurnSets
    <3>3. QED
      BY <1>2, <2>0, <3>1, <3>2
  <2>2. \A t : t \in Settled(j) => t \in Settled(c)
    <3>1. \A t : t \in Settled(c) <=> \E b \in ToSet(c) : Settles(b) /\ b.turn = t
      BY TurnSets
    <3>2. \A t : t \in Settled(j) <=> \E b \in ToSet(j) : Settles(b) /\ b.turn = t
      BY TurnSets
    <3>3. QED
      BY <2>0, <3>1, <3>2
  <2>3. QED
    BY <2>1, <2>2 DEF c
<1>4. QED
  BY <1>3 DEF ToRestore

--------------------------------------------------------------------------------
(* Pruning *)

PrunedAt(j) == {i \in DOMAIN j : Is("inbox", j[i]) \/ j[i].turn \in Open(j)}

LEMMA PrunedIs == ASSUME NEW j PROVE Pruned(j) = Part(j, PrunedAt(j))
BY DEF Pruned, PrunedAt

(* Pruning opens no turn. *)
LEMMA PrunedOpens ==
    ASSUME NEW A, NEW j \in Seq(A)
    PROVE  Pruned(j) \in Seq(A) /\ ToRestore(Pruned(j)) \subseteq ToRestore(j)
<1> DEFINE S == PrunedAt(j)
<1>0. S \subseteq DOMAIN j
  BY DEF PrunedAt
<1>1. Pruned(j) = Part(j, S) /\ Part(j, S) \in Seq(A)
  BY <1>0, PrunedIs, PartFacts
<1>2. ToSet(Part(j, S)) = {j[i] : i \in S}
  BY <1>0, ElementsOfPart
<1>3. ASSUME NEW t \in ToRestore(Part(j, S)) PROVE t \in ToRestore(j)
  <2>1. PICK a \in ToSet(Part(j, S)) : a.kind = "turn_start" /\ a.turn = t
    BY <1>3, TurnSets DEF ToRestore
  <2>2. PICK i \in S : a = j[i]
    BY <1>2, <2>1
  <2>3. t \in Open(j)
    BY <2>1, <2>2 DEF PrunedAt, Is
  <2>4. QED
    BY <2>3, TurnSets
<1>4. QED
  BY <1>1, <1>3

--------------------------------------------------------------------------------
(* The ledger of a journal: one entry for each request it has a record of. *)

LedgerReqs(j) == {j[i].req : i \in Records(j, "inbox")}
EntriesOf(j) == {Entry(j, r) : r \in LedgerReqs(j)}
FirstsAt(j) == {i \in Records(j, "inbox") :
                   \A k \in Records(j, "inbox") : j[k].req = j[i].req => i <= k}

LEMMA InLedgerIs == ASSUME NEW j, NEW r PROVE InLedger(j, r) <=> r \in LedgerReqs(j)
BY DEF InLedger, RecordsOf, LedgerReqs

LEMMA LedgerFacts ==
    ASSUME NEW A, NEW j \in Seq(A)
    PROVE  /\ Ledger(j) \in Seq(EntriesOf(j))
           /\ \A r \in LedgerReqs(j) : \E n \in DOMAIN Ledger(j) : Ledger(j)[n] = Entry(j, r)
           /\ \A m, n \in DOMAIN Ledger(j) : Ledger(j)[m].req = Ledger(j)[n].req => m = n
<1> DEFINE S == FirstsAt(j)
           f == Part(j, S)
           l == Ledger(j)
<1>1. S \subseteq DOMAIN j
  BY DEF FirstsAt, Records
<1>2. /\ f \in Seq(A) /\ Len(f) \in Nat /\ DOMAIN f = 1..Len(f)
      /\ \A n \in DOMAIN f : InOrder(S)[n] \in S /\ f[n] = j[InOrder(S)[n]] /\ Rank(S, InOrder(S)[n]) = n
      /\ \A i \in S : Rank(S, i) \in DOMAIN f /\ f[Rank(S, i)] = j[i]
  BY <1>1, PartFacts
<1>3. l = [n \in DOMAIN f |-> Entry(j, f[n].req)]
  BY DEF Ledger, FirstsAt
<1>4. \A n \in DOMAIN f : f[n].req \in LedgerReqs(j)
  <2>1. \A n \in DOMAIN f : InOrder(S)[n] \in Records(j, "inbox")
    BY <1>2 DEF FirstsAt
  <2>2. QED
    BY <1>2, <2>1 DEF LedgerReqs
<1>5. l \in [1..Len(f) -> EntriesOf(j)]
  BY <1>2, <1>3, <1>4 DEF EntriesOf
<1>6. l \in Seq(EntriesOf(j))
  BY <1>2, <1>5, IsASeq
<1>7. ASSUME NEW r \in LedgerReqs(j) PROVE \E n \in DOMAIN l : l[n] = Entry(j, r)
  <2> DEFINE I == RecordsOf(j, r)
             i == First1(I)
  <2>1. I \subseteq DOMAIN j /\ I # {}
    BY <1>7 DEF RecordsOf, LedgerReqs, Records
  <2>2. I \in SUBSET Int /\ IsFiniteSet(I)
    BY <2>1, DomainFinite
  <2>3. i \in I /\ \A k \in I : i <= k
    BY <2>1, <2>2, FirstFacts
  <2>4. i \in Records(j, "inbox") /\ j[i].req = r
        /\ \A k \in Records(j, "inbox") : j[k].req = r => i <= k
    BY <2>3 DEF RecordsOf
  <2>5. i \in S
    BY <2>4 DEF FirstsAt
  <2>6. Rank(S, i) \in DOMAIN f /\ f[Rank(S, i)].req = r
    BY <1>2, <2>4, <2>5
  <2>7. Rank(S, i) \in DOMAIN l /\ l[Rank(S, i)] = Entry(j, r)
    BY <1>3, <2>6
  <2>8. QED
    BY <2>7
<1>8. ASSUME NEW m \in DOMAIN l, NEW n \in DOMAIN l, l[m].req = l[n].req PROVE m = n
  <2> DEFINE i == InOrder(S)[m]
             k == InOrder(S)[n]
  <2>1. m \in DOMAIN f /\ n \in DOMAIN f
    BY <1>3
  <2>2. f[m].req = f[n].req
    BY <1>3, <1>8, <2>1 DEF Entry
  <2>3. /\ i \in S /\ k \in S /\ f[m] = j[i] /\ f[n] = j[k]
        /\ Rank(S, i) = m /\ Rank(S, k) = n
    BY <1>2, <2>1
  <2>4. j[i].req = j[k].req
    BY <2>2, <2>3
  <2> HIDE DEF i, k
  <2>5. i <= k /\ k <= i
    BY <2>3, <2>4 DEF FirstsAt
  <2>6. i \in Int /\ k \in Int
    BY <1>1, <2>3, DomainFinite
  <2>7. i = k
    BY <2>5, <2>6
  <2>8. QED
    BY <2>3, <2>7
<1>9. QED
  BY <1>6, <1>7, <1>8

(* The pending entries are those of the ledger that are not done, each once. *)
LEMMA PendingFacts ==
    ASSUME NEW A, NEW j \in Seq(A)
    PROVE  /\ Pending(j) \in Seq({e \in EntriesOf(j) : e.state # "done"})
           /\ \A r \in LedgerReqs(j) :
                 Entry(j, r).state # "done" => \E n \in DOMAIN Pending(j) : Pending(j)[n] = Entry(j, r)
           /\ \A m, n \in DOMAIN Pending(j) : Pending(j)[m].req = Pending(j)[n].req => m = n
<1> DEFINE l == Ledger(j)
           S == {n \in DOMAIN l : l[n].state # "done"}
           E == {e \in EntriesOf(j) : e.state # "done"}
           p == Part(l, S)
<1>1. p = Pending(j)
  BY DEF Pending
<1>2. l \in Seq(EntriesOf(j)) /\ S \subseteq DOMAIN l
  BY LedgerFacts
<1>3. /\ Len(p) \in Nat /\ DOMAIN p = 1..Len(p)
      /\ \A n \in DOMAIN p : InOrder(S)[n] \in S /\ p[n] = l[InOrder(S)[n]] /\ Rank(S, InOrder(S)[n]) = n
      /\ \A i \in S : Rank(S, i) \in DOMAIN p /\ p[Rank(S, i)] = l[i]
      /\ p \in Seq(EntriesOf(j))
  BY <1>2, PartFacts
<1>4. \A i \in DOMAIN l : l[i] \in EntriesOf(j)
  BY <1>2, ElementOfSeq, LenProperties
<1>5. \A n \in DOMAIN p : p[n] \in E
  BY <1>2, <1>3, <1>4
<1>6. p \in [1..Len(p) -> E]
  <2>1. p \in [1..Len(p) -> EntriesOf(j)]
    BY <1>3, LenProperties
  <2>2. QED
    BY <1>3, <1>5, <2>1
<1>7. p \in Seq(E)
  BY <1>3, <1>6, IsASeq
<1>8. ASSUME NEW r \in LedgerReqs(j), Entry(j, r).state # "done"
      PROVE  \E n \in DOMAIN p : p[n] = Entry(j, r)
  <2>1. PICK i \in DOMAIN l : l[i] = Entry(j, r)
    BY LedgerFacts
  <2>2. i \in S
    BY <1>8, <2>1
  <2>3. QED
    BY <1>3, <2>1, <2>2
<1>9. ASSUME NEW m \in DOMAIN p, NEW n \in DOMAIN p, p[m].req = p[n].req PROVE m = n
  <2>1. InOrder(S)[m] \in DOMAIN l /\ InOrder(S)[n] \in DOMAIN l
    BY <1>2, <1>3
  <2>11. l[InOrder(S)[m]].req = l[InOrder(S)[n]].req
    BY <1>3, <1>9
  <2>12. \A a, b \in DOMAIN l : l[a].req = l[b].req => a = b
    BY LedgerFacts
  <2>2. InOrder(S)[m] = InOrder(S)[n]
    BY <2>1, <2>11, <2>12
  <2>3. QED
    BY <1>3, <2>2
<1> HIDE DEF p, E
<1>10. /\ Pending(j) \in Seq(E)
       /\ \A r \in LedgerReqs(j) :
             Entry(j, r).state # "done" => \E n \in DOMAIN Pending(j) : Pending(j)[n] = Entry(j, r)
       /\ \A m, n \in DOMAIN Pending(j) : Pending(j)[m].req = Pending(j)[n].req => m = n
  BY <1>1, <1>7, <1>8, <1>9
<1>11. QED
  BY <1>10, Zenon DEF E

(* Eviction takes only entries that are done. *)
LEMMA RetainedFacts ==
    ASSUME NEW E, NEW l \in Seq(E)
    PROVE  /\ Retained(l) \in Seq(E)
           /\ \A n \in DOMAIN Retained(l) : \E i \in DOMAIN l : Retained(l)[n] = l[i]
           /\ \A i \in DOMAIN l :
                 l[i].state # "done" => \E n \in DOMAIN Retained(l) : Retained(l)[n] = l[i]
           /\ (\A m, n \in DOMAIN l : l[m].req = l[n].req => m = n)
                 => \A m, n \in DOMAIN Retained(l) : Retained(l)[m].req = Retained(l)[n].req => m = n
<1> DEFINE done == {n \in DOMAIN l : l[n].state = "done"}
           evicted == {n \in done : Cardinality({m \in done : m <= n}) <= Len(l) - LedgerMax}
           S == DOMAIN l \ evicted
           p == Part(l, S)
<1>1. p = Retained(l)
  BY DEF Retained
<1>2. S \subseteq DOMAIN l
  OBVIOUS
<1>2a. \A i \in DOMAIN l : l[i].state # "done" => i \in S
  OBVIOUS
<1> HIDE DEF S
<1>3. /\ p \in Seq(E)
      /\ \A n \in DOMAIN p : InOrder(S)[n] \in S /\ p[n] = l[InOrder(S)[n]] /\ Rank(S, InOrder(S)[n]) = n
      /\ \A i \in S : Rank(S, i) \in DOMAIN p /\ p[Rank(S, i)] = l[i]
  BY <1>2, PartFacts
<1> HIDE DEF p
<1>4. \A n \in DOMAIN p : \E i \in DOMAIN l : p[n] = l[i]
  BY <1>2, <1>3
<1>5. \A i \in DOMAIN l : l[i].state # "done" => \E n \in DOMAIN p : p[n] = l[i]
  BY <1>2a, <1>3
<1>6. ASSUME \A m, n \in DOMAIN l : l[m].req = l[n].req => m = n,
             NEW m \in DOMAIN p, NEW n \in DOMAIN p, p[m].req = p[n].req
      PROVE  m = n
  <2>1. InOrder(S)[m] \in DOMAIN l /\ InOrder(S)[n] \in DOMAIN l
    BY <1>2, <1>3
  <2>2. l[InOrder(S)[m]].req = l[InOrder(S)[n]].req
    BY <1>3, <1>6
  <2>3. InOrder(S)[m] = InOrder(S)[n]
    BY <1>6, <2>1, <2>2
  <2>4. QED
    BY <1>3, <2>3
<1>7. QED
  BY <1>1, <1>3, <1>4, <1>5, <1>6

(* One record for each entry kept: what compaction writes. *)
EntryRecord(e) == [Inbox(e.req, e.state, e.outcome, e.message) EXCEPT !.live = e.live]
KeptEntries(j) == Retained(Ledger(j))
OthersAt(j) == DOMAIN j \ Records(j, "inbox")
EntryRecords(j) == [n \in DOMAIN KeptEntries(j) |-> EntryRecord(KeptEntries(j)[n])]

LEMMA CompactedIs ==
    ASSUME NEW j
    PROVE  CompactedLedger(j) = Part(j, OthersAt(j)) \o EntryRecords(j)
BY DEF CompactedLedger, OthersAt, EntryRecords, KeptEntries, EntryRecord

LEMMA EntryRecordIs ==
    ASSUME NEW e
    PROVE  EntryRecord(e) = [kind |-> "inbox", req |-> e.req, state |-> e.state,
                             outcome |-> e.outcome, message |-> e.message, live |-> e.live]
BY DEF EntryRecord, Inbox

LEMMA KeptFacts ==
    ASSUME NEW A, NEW j \in Seq(A)
    PROVE  /\ KeptEntries(j) \in Seq(EntriesOf(j))
           /\ Len(KeptEntries(j)) \in Nat /\ DOMAIN KeptEntries(j) = 1..Len(KeptEntries(j))
           /\ \A r \in LedgerReqs(j) :
                 Entry(j, r).state # "done"
                    => \E n \in DOMAIN KeptEntries(j) : KeptEntries(j)[n] = Entry(j, r)
           /\ \A m, n \in DOMAIN KeptEntries(j) :
                 KeptEntries(j)[m].req = KeptEntries(j)[n].req => m = n
<1> DEFINE l == Ledger(j)
           k == Retained(l)
<1>1. l \in Seq(EntriesOf(j)) /\ \A m, n \in DOMAIN l : l[m].req = l[n].req => m = n
  BY LedgerFacts
<1>2. \A r \in LedgerReqs(j) : \E n \in DOMAIN l : l[n] = Entry(j, r)
  BY LedgerFacts
<1> HIDE DEF l
<1>3. /\ k \in Seq(EntriesOf(j))
      /\ \A i \in DOMAIN l : l[i].state # "done" => \E n \in DOMAIN k : k[n] = l[i]
      /\ \A m, n \in DOMAIN k : k[m].req = k[n].req => m = n
  BY <1>1, RetainedFacts
<1>4. Len(k) \in Nat /\ DOMAIN k = 1..Len(k)
  BY <1>3, LenProperties
<1>5. k = KeptEntries(j)
  BY DEF KeptEntries, l
<1> HIDE DEF k
<1>6. QED
  BY <1>2, <1>3, <1>4, <1>5

(* Compaction keeps the records of the turns and writes only ledger records;
   every record it writes is that of an entry of the ledger. *)
LEMMA CompactedRecords ==
    ASSUME NEW A, NEW j \in Seq(A)
    PROVE  LET B == {j[i] : i \in OthersAt(j)} \cup {EntryRecord(e) : e \in EntriesOf(j)}
           IN  /\ CompactedLedger(j) \in Seq(B)
               /\ ToSet(CompactedLedger(j)) \subseteq B
               /\ {j[i] : i \in OthersAt(j)} \subseteq ToSet(CompactedLedger(j))
<1> DEFINE O == {j[i] : i \in OthersAt(j)}
           X == {EntryRecord(e) : e \in EntriesOf(j)}
           B == O \cup X
           p == Part(j, OthersAt(j))
           x == EntryRecords(j)
<1>1. OthersAt(j) \subseteq DOMAIN j
  BY DEF OthersAt
<1>2. ToSet(p) = O /\ p \in Seq(A) /\ Len(p) \in Nat /\ DOMAIN p = 1..Len(p)
  BY <1>1, ElementsOfPart, PartFacts
<1>3. \A n \in DOMAIN p : p[n] \in O
  BY <1>2 DEF ToSet
<1>4. p \in Seq(B)
  <2>1. p \in [1..Len(p) -> A]
    BY <1>2, LenProperties
  <2>2. p \in [1..Len(p) -> B]
    BY <1>2, <1>3, <2>1
  <2>3. QED
    BY <1>2, <2>2, IsASeq
<1>5. x \in Seq(B)
  <2> DEFINE k == KeptEntries(j)
  <2>1. Len(k) \in Nat /\ DOMAIN k = 1..Len(k) /\ \A n \in DOMAIN k : k[n] \in EntriesOf(j)
    BY KeptFacts, ElementOfSeq
  <2>2. x = [n \in DOMAIN k |-> EntryRecord(k[n])]
    BY DEF EntryRecords
  <2> HIDE DEF k, x
  <2>3. x \in [1..Len(k) -> B]
    BY <2>1, <2>2
  <2>4. QED
    BY <2>1, <2>3, IsASeq
<1>6. p \o x \in Seq(B) /\ ToSet(p \o x) = ToSet(p) \cup ToSet(x)
  BY <1>4, <1>5, ConcatFacts
<1>7. ToSet(x) \subseteq B
  <2>1. \A n \in DOMAIN x : x[n] \in B
    BY <1>5, ElementOfSeq, LenProperties
  <2>2. QED
    BY <2>1 DEF ToSet
<1>8. CompactedLedger(j) = p \o x
  BY CompactedIs
<1> HIDE DEF p, x, O, X
<1>9. /\ CompactedLedger(j) \in Seq(B)
      /\ ToSet(CompactedLedger(j)) \subseteq B
      /\ O \subseteq ToSet(CompactedLedger(j))
  BY <1>2, <1>6, <1>7, <1>8
<1>10. QED
  BY <1>9 DEF O, X

LEMMA CompactedOpens ==
    ASSUME NEW A, NEW j \in Seq(A)
    PROVE  ToRestore(CompactedLedger(j)) = ToRestore(j)
<1> DEFINE c == CompactedLedger(j)
           O == {j[i] : i \in OthersAt(j)}
<1>1. O \subseteq ToSet(c) /\ ToSet(c) \subseteq O \cup {EntryRecord(e) : e \in EntriesOf(j)}
  BY CompactedRecords
<1>2. \A a \in ToSet(c) : a.kind = "inbox" \/ a \in O
  <2>1. \A e : EntryRecord(e).kind = "inbox"
    BY EntryRecordIs
  <2>2. QED
    BY <1>1, <2>1
<1>3. \A a \in ToSet(j) : a.kind = "inbox" \/ a \in O
  BY DEF ToSet, OthersAt, Records, Is
<1>4. O \subseteq ToSet(j)
  BY DEF ToSet, OthersAt
<1> HIDE DEF c, O
<1>5. \A t : t \in TurnsWith(c, "turn_start") <=> t \in TurnsWith(j, "turn_start")
  <2>1. \A t : t \in TurnsWith(c, "turn_start") <=>
                  \E b \in ToSet(c) : b.kind = "turn_start" /\ b.turn = t
    BY TurnSets
  <2>2. \A t : t \in TurnsWith(j, "turn_start") <=>
                  \E b \in ToSet(j) : b.kind = "turn_start" /\ b.turn = t
    BY TurnSets
  <2>3. QED
    BY <1>1, <1>2, <1>3, <1>4, <2>1, <2>2
<1>6. \A t : t \in Settled(c) <=> t \in Settled(j)
  <2>1. \A t : t \in Settled(c) <=> \E b \in ToSet(c) : Settles(b) /\ b.turn = t
    BY TurnSets
  <2>2. \A t : t \in Settled(j) <=> \E b \in ToSet(j) : Settles(b) /\ b.turn = t
    BY TurnSets
  <2>3. \A b : Settles(b) => b.kind # "inbox"
    BY DEF Settles
  <2>4. QED
    BY <1>1, <1>2, <1>3, <1>4, <2>1, <2>2, <2>3
<1>7. ToRestore(c) = ToRestore(j)
  BY <1>5, <1>6 DEF ToRestore
<1>8. QED
  BY <1>7 DEF c

--------------------------------------------------------------------------------
(* What the ledger says of one request, and what a rewrite of the journal
   leaves of it. *)

Standing(j, r) == IF InLedger(j, r) THEN Entry(j, r).state ELSE "unknown"
HasMessage(j, r) == InLedger(j, r) /\ Entry(j, r).message
IsLive(j, r) == InLedger(j, r) /\ Entry(j, r).live = TRUE
SameEntry(j, k, r) ==
    /\ Standing(k, r) = Standing(j, r)
    /\ HasMessage(k, r) <=> HasMessage(j, r)
    /\ IsLive(k, r) <=> IsLive(j, r)
Given(j, r, i) ==
    /\ i \in RecordsOf(j, r) /\ j[i].message
    /\ \A k \in RecordsOf(j, r) : k >= i => j[k].state # "done"

LEMMA RecordsFinite ==
    ASSUME NEW A, NEW j \in Seq(A), NEW r
    PROVE  /\ RecordsOf(j, r) \subseteq DOMAIN j
           /\ RecordsOf(j, r) \in SUBSET Int /\ IsFiniteSet(RecordsOf(j, r))
           /\ \A i : i \in RecordsOf(j, r) <=> i \in DOMAIN j /\ j[i].kind = "inbox" /\ j[i].req = r
<1>1. RecordsOf(j, r) \subseteq DOMAIN j
  BY DEF RecordsOf, Records
<1>2. QED
  BY <1>1, DomainFinite DEF RecordsOf, Records, Is

(* The entry is told by the last record, and by the messages not yet done. *)
LEMMA EntryIs ==
    ASSUME NEW A, NEW j \in Seq(A), NEW r, NEW l \in RecordsOf(j, r),
           \A k \in RecordsOf(j, r) : k <= l
    PROVE  /\ InLedger(j, r) /\ Standing(j, r) = j[l].state
           /\ HasMessage(j, r) <=> \E i \in RecordsOf(j, r) : Given(j, r, i)
           /\ IsLive(j, r) <=> j[l].live = TRUE
<1> DEFINE I == RecordsOf(j, r)
<1>1. I \in SUBSET Int /\ IsFiniteSet(I) /\ I # {}
  BY RecordsFinite
<1>2. Last1(I) \in I /\ \A k \in I : k <= Last1(I)
  BY <1>1, LastFacts
<1>3. Last1(I) = l
  BY <1>1, <1>2
<1>4. InLedger(j, r)
  BY DEF InLedger
<1>5. Entry(j, r).state = j[l].state /\ Entry(j, r).live = j[l].live
  BY <1>3 DEF Entry
<1>6. Entry(j, r).message <=> \E i \in I : Given(j, r, i)
  BY DEF Entry, Given
<1>7. QED
  BY <1>4, <1>5, <1>6 DEF Standing, HasMessage, IsLive

LEMMA NoEntry ==
    ASSUME NEW j, NEW r, RecordsOf(j, r) = {}
    PROVE  ~InLedger(j, r) /\ Standing(j, r) = "unknown" /\ ~HasMessage(j, r) /\ ~IsLive(j, r)
BY DEF InLedger, Standing, HasMessage, IsLive

LEMMA LastRecord ==
    ASSUME NEW A, NEW j \in Seq(A), NEW r, RecordsOf(j, r) # {}
    PROVE  \E l \in RecordsOf(j, r) : \A k \in RecordsOf(j, r) : k <= l
BY RecordsFinite, LastFacts

(* A rewrite that keeps the records of a request in their order keeps its entry. *)
Carries(f, j, k, r) ==
    /\ \A i \in RecordsOf(j, r) : f[i] \in RecordsOf(k, r)
    /\ \A n \in RecordsOf(k, r) : \E i \in RecordsOf(j, r) : f[i] = n
    /\ \A i, m \in RecordsOf(j, r) : i <= m <=> f[i] <= f[m]
    /\ \A i \in RecordsOf(j, r) : k[f[i]].state = j[i].state /\ k[f[i]].message = j[i].message
StayLive(f, j, k, r) == \A i \in RecordsOf(j, r) : k[f[i]].live = j[i].live
LiveNoMore(f, j, k, r) == \A i \in RecordsOf(j, r) : k[f[i]].live = FALSE

LEMMA Carried ==
    ASSUME NEW A, NEW j \in Seq(A), NEW B, NEW k \in Seq(B), NEW r, NEW f, Carries(f, j, k, r)
    PROVE  /\ Standing(k, r) = Standing(j, r)
           /\ HasMessage(k, r) <=> HasMessage(j, r)
           /\ StayLive(f, j, k, r) => (IsLive(k, r) <=> IsLive(j, r))
           /\ LiveNoMore(f, j, k, r) => ~IsLive(k, r)
<1> DEFINE I == RecordsOf(j, r)
           K == RecordsOf(k, r)
<1>0. /\ \A i \in I : f[i] \in K
      /\ \A n \in K : \E i \in I : f[i] = n
      /\ \A i, m \in I : i <= m <=> f[i] <= f[m]
      /\ \A i \in I : k[f[i]].state = j[i].state /\ k[f[i]].message = j[i].message
  BY DEF Carries
<1>1. CASE I = {}
  <2>1. K = {}
    BY <1>0, <1>1
  <2>2. QED
    BY <1>1, <2>1, NoEntry
<1>2. CASE I # {}
  <2>1. PICK l \in I : \A i \in I : i <= l
    BY <1>2, LastRecord
  <2>2. f[l] \in K /\ \A n \in K : n <= f[l]
    BY <1>0, <2>1
  <2>3. /\ Standing(j, r) = j[l].state
        /\ HasMessage(j, r) <=> \E i \in I : Given(j, r, i)
        /\ IsLive(j, r) <=> j[l].live = TRUE
    BY <2>1, EntryIs
  <2>4. /\ Standing(k, r) = k[f[l]].state
        /\ HasMessage(k, r) <=> \E n \in K : Given(k, r, n)
        /\ IsLive(k, r) <=> k[f[l]].live = TRUE
    <3> DEFINE n == f[l]
    <3>1. n \in RecordsOf(k, r) /\ \A m \in RecordsOf(k, r) : m <= n
      BY <2>2
    <3> HIDE DEF n
    <3>2. /\ Standing(k, r) = k[n].state
          /\ HasMessage(k, r) <=> \E m \in K : Given(k, r, m)
          /\ IsLive(k, r) <=> k[n].live = TRUE
      BY <3>1, EntryIs
    <3>3. QED
      BY <3>2 DEF n
  <2>5. I \subseteq Int /\ K \subseteq Int
    BY RecordsFinite
  <2>6. ASSUME NEW i \in I PROVE Given(j, r, i) <=> Given(k, r, f[i])
    <3>1. f[i] \in K /\ k[f[i]].message = j[i].message
      BY <1>0, <2>6
    <3>2. ASSUME \A m \in I : m >= i => j[m].state # "done"
          PROVE  \A n \in K : n >= f[i] => k[n].state # "done"
      <4> TAKE n \in K
      <4>1. PICK m \in I : f[m] = n
        BY <1>0
      <4>2. n >= f[i] => m >= i
        BY <1>0, <2>5, <2>6, <3>1, <4>1
      <4>3. k[n].state = j[m].state
        BY <1>0, <4>1
      <4>4. QED
        BY <3>2, <4>2, <4>3
    <3>3. ASSUME \A n \in K : n >= f[i] => k[n].state # "done"
          PROVE  \A m \in I : m >= i => j[m].state # "done"
      <4> TAKE m \in I
      <4>1. f[m] \in K /\ k[f[m]].state = j[m].state
        BY <1>0
      <4>2. m >= i => f[m] >= f[i]
        BY <1>0, <2>5, <2>6, <3>1, <4>1
      <4>3. QED
        BY <3>3, <4>1, <4>2
    <3>4. QED
      BY <2>6, <3>1, <3>2, <3>3 DEF Given
  <2>7. HasMessage(k, r) <=> HasMessage(j, r)
    BY <1>0, <2>3, <2>4, <2>6
  <2>8. QED
    BY <1>0, <2>1, <2>3, <2>4, <2>7 DEF StayLive, LiveNoMore
<1>3. QED
  BY <1>1, <1>2

(* Two journals that hold the same records of a request at the same places. *)
LEMMA CarriedInPlace ==
    ASSUME NEW A, NEW j \in Seq(A), NEW B, NEW k \in Seq(B), NEW r,
           RecordsOf(k, r) = RecordsOf(j, r),
           \A i \in RecordsOf(j, r) : k[i].state = j[i].state /\ k[i].message = j[i].message
    PROVE  /\ Standing(k, r) = Standing(j, r)
           /\ HasMessage(k, r) <=> HasMessage(j, r)
           /\ (\A i \in RecordsOf(j, r) : k[i].live = j[i].live) => (IsLive(k, r) <=> IsLive(j, r))
           /\ (\A i \in RecordsOf(j, r) : k[i].live = FALSE) => ~IsLive(k, r)
<1> DEFINE f == [i \in RecordsOf(j, r) |-> i]
<1>1. \A i \in RecordsOf(j, r) : f[i] = i
  OBVIOUS
<1> HIDE DEF f
<1>2. Carries(f, j, k, r)
  BY <1>1 DEF Carries
<1>3. /\ Standing(k, r) = Standing(j, r)
      /\ HasMessage(k, r) <=> HasMessage(j, r)
      /\ StayLive(f, j, k, r) => (IsLive(k, r) <=> IsLive(j, r))
      /\ LiveNoMore(f, j, k, r) => ~IsLive(k, r)
  BY <1>2, Carried
<1>4. QED
  BY <1>1, <1>3 DEF StayLive, LiveNoMore

(* Records of other kinds or other requests leave an entry alone. *)
LEMMA ConcatOther ==
    ASSUME NEW A, NEW j \in Seq(A), NEW e \in Seq(A), NEW r,
           \A n \in DOMAIN e : e[n].kind # "inbox" \/ e[n].req # r
    PROVE  SameEntry(j, j \o e, r)
<1> DEFINE c == j \o e
<1>1. /\ c \in Seq(A)
      /\ \A i \in DOMAIN j : i \in DOMAIN c /\ c[i] = j[i]
      /\ \A i \in DOMAIN e : i + Len(j) \in DOMAIN c /\ c[i + Len(j)] = e[i]
      /\ \A i \in DOMAIN c : i \in DOMAIN j \/ (i \notin DOMAIN j /\ i - Len(j) \in DOMAIN e)
  BY ConcatFacts
<1>2. /\ DOMAIN c \subseteq Int /\ Len(j) \in Int
  BY <1>1, DomainFinite, LenProperties
<1> HIDE DEF c
<1>3. \A i \in DOMAIN c : i \notin DOMAIN j => c[i] = e[i - Len(j)] /\ i - Len(j) \in DOMAIN e
  <2> TAKE i \in DOMAIN c
  <2>1. i - Len(j) + Len(j) = i
    BY <1>2
  <2>2. QED
    BY <1>1, <2>1
<1>4. \A i : i \in RecordsOf(c, r) <=> i \in RecordsOf(j, r)
  <2>1. \A i : i \in RecordsOf(c, r) <=> i \in DOMAIN c /\ c[i].kind = "inbox" /\ c[i].req = r
    BY <1>1, RecordsFinite
  <2>2. \A i : i \in RecordsOf(j, r) <=> i \in DOMAIN j /\ j[i].kind = "inbox" /\ j[i].req = r
    BY RecordsFinite
  <2>3. \A i \in DOMAIN c : i \notin DOMAIN j => c[i].kind # "inbox" \/ c[i].req # r
    BY <1>3
  <2>4. \A i \in DOMAIN j : i \in DOMAIN c /\ c[i] = j[i]
    BY <1>1
  <2>5. QED
    BY <2>1, <2>2, <2>3, <2>4
<1>5. RecordsOf(c, r) = RecordsOf(j, r) /\ \A i \in RecordsOf(j, r) : c[i] = j[i]
  BY <1>1, <1>4, RecordsFinite
<1>6. /\ Standing(c, r) = Standing(j, r)
      /\ HasMessage(c, r) <=> HasMessage(j, r)
      /\ (\A i \in RecordsOf(j, r) : c[i].live = j[i].live) => (IsLive(c, r) <=> IsLive(j, r))
  BY <1>1, <1>5, CarriedInPlace
<1>7. SameEntry(j, c, r)
  BY <1>5, <1>6 DEF SameEntry
<1>8. QED
  BY <1>7 DEF c

LEMMA AppendOther ==
    ASSUME NEW A, NEW j \in Seq(A), NEW rec \in A, NEW r, rec.kind # "inbox" \/ rec.req # r
    PROVE  SameEntry(j, Append(j, rec), r)
<1> DEFINE c == Append(j, rec)
           n == Len(j) + 1
<1>1. /\ c \in Seq(A) /\ DOMAIN c = DOMAIN j \cup {n} /\ c[n] = rec
      /\ \A i \in DOMAIN j : i \in Nat /\ i < n /\ c[i] = j[i]
  BY AppendFacts
<1> HIDE DEF c, n
<1>2. \A i : i \in RecordsOf(c, r) <=> i \in RecordsOf(j, r)
  <2>1. \A i : i \in RecordsOf(c, r) <=> i \in DOMAIN c /\ c[i].kind = "inbox" /\ c[i].req = r
    BY <1>1, RecordsFinite
  <2>2. \A i : i \in RecordsOf(j, r) <=> i \in DOMAIN j /\ j[i].kind = "inbox" /\ j[i].req = r
    BY RecordsFinite
  <2>3. QED
    BY <1>1, <2>1, <2>2
<1>3. RecordsOf(c, r) = RecordsOf(j, r) /\ \A i \in RecordsOf(j, r) : c[i] = j[i]
  BY <1>1, <1>2, RecordsFinite
<1>4. /\ Standing(c, r) = Standing(j, r)
      /\ HasMessage(c, r) <=> HasMessage(j, r)
      /\ (\A i \in RecordsOf(j, r) : c[i].live = j[i].live) => (IsLive(c, r) <=> IsLive(j, r))
  BY <1>1, <1>3, CarriedInPlace
<1>5. SameEntry(j, c, r)
  BY <1>3, <1>4 DEF SameEntry
<1>6. QED
  BY <1>5 DEF c

(* A record of the request sets its state; it forgets the message when it says
   done, and may bring one otherwise. *)
LEMMA AppendEntry ==
    ASSUME NEW A, NEW j \in Seq(A), NEW r, NEW s, NEW o, NEW m \in BOOLEAN, Inbox(r, s, o, m) \in A
    PROVE  LET c == Append(j, Inbox(r, s, o, m))
           IN  /\ InLedger(c, r) /\ Standing(c, r) = s /\ IsLive(c, r)
               /\ HasMessage(c, r) <=> s # "done" /\ (m \/ HasMessage(j, r))
<1> DEFINE rec == Inbox(r, s, o, m)
           c == Append(j, rec)
           n == Len(j) + 1
           I == RecordsOf(j, r)
           K == RecordsOf(c, r)
<1>1. /\ rec.kind = "inbox" /\ rec.req = r /\ rec.state = s /\ rec.message = m /\ rec.live = TRUE
  BY DEF Inbox
<1> HIDE DEF rec
<1>2. /\ c \in Seq(A) /\ DOMAIN c = DOMAIN j \cup {n} /\ c[n] = rec
      /\ \A i \in DOMAIN j : i \in Nat /\ i < n /\ c[i] = j[i]
      /\ n \in Nat
  BY AppendFacts, LenProperties DEF rec
<1> HIDE DEF c, n
<1>3. /\ \A i : i \in K <=> i \in DOMAIN c /\ c[i].kind = "inbox" /\ c[i].req = r
      /\ \A i : i \in I <=> i \in DOMAIN j /\ j[i].kind = "inbox" /\ j[i].req = r
  BY <1>2, RecordsFinite
<1>4. /\ n \in K /\ \A i : i \in K <=> i \in I \/ i = n
      /\ \A i \in I : c[i] = j[i] /\ i < n /\ i \in Nat
  BY <1>1, <1>2, <1>3
<1>5. n \in RecordsOf(c, r) /\ \A i \in RecordsOf(c, r) : i <= n
  BY <1>2, <1>4
<1> HIDE DEF I, K
<1>6. /\ InLedger(c, r) /\ Standing(c, r) = c[n].state
      /\ HasMessage(c, r) <=> \E i \in RecordsOf(c, r) : Given(c, r, i)
      /\ IsLive(c, r) <=> c[n].live = TRUE
  BY <1>2, <1>5, EntryIs
<1>7. HasMessage(c, r) => s # "done" /\ (m \/ HasMessage(j, r))
  <2> SUFFICES ASSUME HasMessage(c, r) PROVE s # "done" /\ (m \/ HasMessage(j, r))
    OBVIOUS
  <2>1. PICK i \in K : Given(c, r, i)
    BY <1>6 DEF K
  <2>3. n >= i /\ n \in RecordsOf(c, r)
    BY <1>2, <1>4, <1>5
  <2>4. s # "done"
    BY <1>1, <1>2, <2>1, <2>3 DEF Given
  <2>6. ASSUME ~m PROVE HasMessage(j, r)
    <3>1. i \in I /\ j[i].message /\ \A k \in I : k >= i => j[k].state # "done"
      BY <1>1, <1>2, <1>4, <2>1, <2>6 DEF Given, K
    <3>2. Given(j, r, i)
      BY <3>1 DEF Given, I
    <3>3. RecordsOf(j, r) # {}
      BY <3>1 DEF I
    <3>4. PICK l \in RecordsOf(j, r) : \A k \in RecordsOf(j, r) : k <= l
      BY <3>3, LastRecord
    <3>5. HasMessage(j, r) <=> \E k \in RecordsOf(j, r) : Given(j, r, k)
      BY <3>4, EntryIs
    <3>6. QED
      BY <3>1, <3>2, <3>5 DEF I
  <2>7. QED
    BY <2>4, <2>6
<1>8. ASSUME s # "done", m \/ HasMessage(j, r) PROVE HasMessage(c, r)
  <2>1. CASE m
    <3>1. \A k \in K : k >= n => k = n
      BY <1>2, <1>4
    <3>2. Given(c, r, n)
      BY <1>1, <1>2, <1>4, <1>8, <2>1, <3>1 DEF Given, K
    <3>3. QED
      BY <1>5, <1>6, <3>2
  <2>2. CASE HasMessage(j, r)
    <3>1. RecordsOf(j, r) # {}
      BY <2>2 DEF HasMessage, InLedger
    <3>2. PICK l \in RecordsOf(j, r) : \A k \in RecordsOf(j, r) : k <= l
      BY <3>1, LastRecord
    <3>3. PICK i \in RecordsOf(j, r) : Given(j, r, i)
      BY <2>2, <3>2, EntryIs
    <3>4. Given(c, r, i)
      BY <1>1, <1>2, <1>4, <1>8, <3>3 DEF Given, I, K
    <3>5. QED
      BY <1>4, <1>6, <3>4 DEF Given
  <2>3. QED
    BY <1>8, <2>1, <2>2
<1>9. /\ InLedger(c, r) /\ Standing(c, r) = s /\ IsLive(c, r)
      /\ HasMessage(c, r) <=> s # "done" /\ (m \/ HasMessage(j, r))
  BY <1>1, <1>2, <1>6, <1>7, <1>8
<1>10. QED
  BY <1>9 DEF c, rec

(* Closing: the records say done, and one of them is about the request. *)
SayDone(e) == \A n \in DOMAIN e : e[n].kind = "inbox" /\ e[n].state = "done" /\ e[n].live = TRUE

LEMMA ConcatDone ==
    ASSUME NEW A, NEW j \in Seq(A), NEW e \in Seq(A), NEW r, SayDone(e),
           NEW h \in DOMAIN e, e[h].req = r
    PROVE  LET c == j \o e
           IN  InLedger(c, r) /\ Standing(c, r) = "done" /\ IsLive(c, r) /\ ~HasMessage(c, r)
<1> DEFINE c == j \o e
           K == RecordsOf(c, r)
<1>1. /\ c \in Seq(A)
      /\ \A i \in DOMAIN e : i + Len(j) \in DOMAIN c /\ c[i + Len(j)] = e[i]
      /\ \A i \in DOMAIN c : i \in DOMAIN j \/ (i \notin DOMAIN j /\ i - Len(j) \in DOMAIN e)
      /\ DOMAIN c \subseteq Int
  BY ConcatFacts, DomainFinite
<1>2. Len(j) \in Nat /\ DOMAIN j = 1..Len(j) /\ DOMAIN e \subseteq Nat \ {0}
  BY LenProperties
<1> HIDE DEF c
<1>3. /\ h + Len(j) \in K
      /\ \A i \in K : i \in DOMAIN c
  <2>1. c \in Seq(A)
    BY <1>1
  <2>2. \A i : i \in K <=> i \in DOMAIN c /\ c[i].kind = "inbox" /\ c[i].req = r
    BY <2>1, RecordsFinite
  <2>3. h + Len(j) \in DOMAIN c /\ c[h + Len(j)] = e[h] /\ e[h].kind = "inbox"
    BY <1>1 DEF SayDone
  <2>4. QED
    BY <2>2, <2>3
<1>4. PICK l \in RecordsOf(c, r) : \A k \in RecordsOf(c, r) : k <= l
  BY <1>1, <1>3, LastRecord
<1>5. h + Len(j) <= l /\ l \in Int /\ h \in Nat \ {0}
  BY <1>1, <1>2, <1>3, <1>4
<1>6. l \notin DOMAIN j
  BY <1>2, <1>5
<1>7. l - Len(j) \in DOMAIN e /\ c[l] = e[l - Len(j)]
  <2>1. l - Len(j) \in DOMAIN e
    BY <1>1, <1>3, <1>4, <1>6
  <2>2. l - Len(j) + Len(j) = l
    BY <1>2, <1>5
  <2>3. QED
    BY <1>1, <2>1, <2>2
<1>8. c[l].state = "done" /\ c[l].live = TRUE
  BY <1>7 DEF SayDone
<1>9. /\ InLedger(c, r) /\ Standing(c, r) = c[l].state
      /\ HasMessage(c, r) <=> \E i \in RecordsOf(c, r) : Given(c, r, i)
      /\ IsLive(c, r) <=> c[l].live = TRUE
  <2>1. c \in Seq(A)
    BY <1>1
  <2>2. QED
    BY <1>4, <2>1, EntryIs
<1>10. ASSUME NEW i \in K PROVE ~Given(c, r, i)
  <2>1. l >= i
    BY <1>1, <1>3, <1>4
  <2>2. QED
    BY <1>4, <1>8, <2>1 DEF Given
<1>11. InLedger(c, r) /\ Standing(c, r) = "done" /\ IsLive(c, r) /\ ~HasMessage(c, r)
  BY <1>8, <1>9, <1>10
<1>12. QED
  BY <1>11 DEF c

(* Nothing told by a request that is done, and nothing said of the state of an
   entry with a message but that it is pending. *)
LEMMA DoneIsSilent ==
    ASSUME NEW A, NEW j \in Seq(A), NEW r, Standing(j, r) = "done"
    PROVE  ~HasMessage(j, r)
<1>1. CASE RecordsOf(j, r) = {}
  BY <1>1, NoEntry
<1>2. CASE RecordsOf(j, r) # {}
  <2>1. PICK l \in RecordsOf(j, r) : \A k \in RecordsOf(j, r) : k <= l
    BY <1>2, LastRecord
  <2>2. /\ Standing(j, r) = j[l].state
        /\ HasMessage(j, r) <=> \E i \in RecordsOf(j, r) : Given(j, r, i)
    BY <2>1, EntryIs
  <2>3. ASSUME NEW i \in RecordsOf(j, r) PROVE ~Given(j, r, i)
    <3>1. l >= i
      BY <2>1, RecordsFinite
    <3>2. QED
      BY <2>2, <3>1 DEF Given
  <2>4. QED
    BY <2>2, <2>3
<1>3. QED
  BY <1>1, <1>2

(* Pruning leaves the ledger alone. *)
LEMMA PrunedStands ==
    ASSUME NEW A, NEW j \in Seq(A), NEW r
    PROVE  SameEntry(j, Pruned(j), r)
<1> DEFINE S == PrunedAt(j)
           c == Part(j, S)
           f == [i \in S |-> Rank(S, i)]
<1>1. S \subseteq DOMAIN j /\ \A i \in DOMAIN j : j[i].kind = "inbox" => i \in S
  BY DEF PrunedAt, Is
<1>2. /\ c \in Seq(A) /\ DOMAIN c \subseteq Int
      /\ \A n \in DOMAIN c : InOrder(S)[n] \in S /\ c[n] = j[InOrder(S)[n]] /\ Rank(S, InOrder(S)[n]) = n
      /\ \A i \in S : Rank(S, i) \in DOMAIN c /\ c[Rank(S, i)] = j[i]
      /\ \A i, k \in S : i < k <=> Rank(S, i) < Rank(S, k)
  <2>1. /\ c \in Seq(A)
        /\ \A n \in DOMAIN c : InOrder(S)[n] \in S /\ c[n] = j[InOrder(S)[n]] /\ Rank(S, InOrder(S)[n]) = n
        /\ \A i \in S : Rank(S, i) \in DOMAIN c /\ c[Rank(S, i)] = j[i]
        /\ \A i, k \in S : i < k <=> Rank(S, i) < Rank(S, k)
    BY <1>1, PartFacts
  <2>2. DOMAIN c \subseteq Int
    BY <2>1, LenProperties
  <2>3. QED
    BY <2>1, <2>2
<1>3. \A i \in S : f[i] = Rank(S, i)
  OBVIOUS
<1>4. S \subseteq Int
  BY <1>1, DomainFinite
<1> HIDE DEF c, f, S
<1>5. /\ \A i : i \in RecordsOf(c, r) <=> i \in DOMAIN c /\ c[i].kind = "inbox" /\ c[i].req = r
      /\ \A i : i \in RecordsOf(j, r) <=> i \in DOMAIN j /\ j[i].kind = "inbox" /\ j[i].req = r
  BY <1>2, RecordsFinite
<1>6. \A i \in RecordsOf(j, r) : i \in S
  BY <1>1, <1>5
<1>7. Carries(f, j, c, r)
  <2>1. ASSUME NEW i \in RecordsOf(j, r)
        PROVE  f[i] \in RecordsOf(c, r) /\ c[f[i]].state = j[i].state /\ c[f[i]].message = j[i].message
    <3>1. i \in S /\ f[i] = Rank(S, i) /\ Rank(S, i) \in DOMAIN c /\ c[Rank(S, i)] = j[i]
      BY <1>2, <1>3, <1>6
    <3>2. QED
      BY <1>5, <3>1
  <2>2. ASSUME NEW n \in RecordsOf(c, r) PROVE \E i \in RecordsOf(j, r) : f[i] = n
    <3> DEFINE i == InOrder(S)[n]
    <3>1. n \in DOMAIN c /\ c[n].kind = "inbox" /\ c[n].req = r
      BY <1>5
    <3>2. i \in S /\ c[n] = j[i] /\ Rank(S, i) = n
      BY <1>2, <3>1
    <3> HIDE DEF i
    <3>3. i \in RecordsOf(j, r) /\ f[i] = n
      BY <1>1, <1>3, <1>5, <3>1, <3>2
    <3>4. QED
      BY <3>3
  <2>3. ASSUME NEW i \in RecordsOf(j, r), NEW m \in RecordsOf(j, r) PROVE i <= m <=> f[i] <= f[m]
    <3>1. i \in S /\ m \in S /\ f[i] = Rank(S, i) /\ f[m] = Rank(S, m)
      BY <1>3, <1>6
    <3>2. f[i] \in Int /\ f[m] \in Int /\ i \in Int /\ m \in Int
      BY <1>2, <1>4, <3>1
    <3>3. m < i <=> f[m] < f[i]
      BY <1>2, <3>1
    <3>4. QED
      BY <3>2, <3>3
  <2>4. QED
    BY <2>1, <2>2, <2>3 DEF Carries
<1>8. StayLive(f, j, c, r)
  BY <1>2, <1>3, <1>6 DEF StayLive
<1>9. SameEntry(j, c, r)
  BY <1>2, <1>7, <1>8, Carried DEF SameEntry
<1>10. QED
  BY <1>9, PrunedIs DEF c, S

LEMMA EntriesAre ==
    ASSUME NEW j, NEW e \in EntriesOf(j)
    PROVE  /\ e = Entry(j, e.req) /\ InLedger(j, e.req)
           /\ Standing(j, e.req) = e.state
           /\ HasMessage(j, e.req) <=> e.message
           /\ IsLive(j, e.req) <=> e.live = TRUE
<1>1. PICK r \in LedgerReqs(j) : e = Entry(j, r)
  BY DEF EntriesOf
<1>2. e.req = r
  BY <1>1 DEF Entry
<1>3. InLedger(j, r)
  BY InLedgerIs
<1>4. QED
  BY <1>1, <1>2, <1>3 DEF Standing, HasMessage, IsLive

(* Compaction keeps what is pending; what is done stays so or is forgotten. *)
LEMMA CompactedStands ==
    ASSUME NEW A, NEW j \in Seq(A), NEW r
    PROVE  LET c == CompactedLedger(j)
           IN  \/ SameEntry(j, c, r)
               \/ /\ Standing(j, r) = "done"
                  /\ Standing(c, r) = "unknown" /\ ~HasMessage(c, r) /\ ~IsLive(c, r)
<1> DEFINE B == {j[i] : i \in OthersAt(j)} \cup {EntryRecord(e) : e \in EntriesOf(j)}
           c == CompactedLedger(j)
           p == Part(j, OthersAt(j))
           k == KeptEntries(j)
           x == EntryRecords(j)
<1>1. c = p \o x /\ c \in Seq(B)
  BY CompactedIs, CompactedRecords
<1>2. p \in Seq(A) /\ Len(p) \in Nat /\ DOMAIN p = 1..Len(p) /\ \A n \in DOMAIN p : p[n].kind # "inbox"
  <2>1. OthersAt(j) \subseteq DOMAIN j /\ \A i \in OthersAt(j) : j[i].kind # "inbox"
    BY DEF OthersAt, Records, Is
  <2>2. /\ p \in Seq(A) /\ Len(p) \in Nat /\ DOMAIN p = 1..Len(p)
        /\ \A n \in DOMAIN p : InOrder(OthersAt(j))[n] \in OthersAt(j) /\ p[n] = j[InOrder(OthersAt(j))[n]]
    BY <2>1, PartFacts
  <2>3. QED
    BY <2>1, <2>2
<1>3. /\ Len(k) \in Nat /\ DOMAIN k = 1..Len(k)
      /\ \A n \in DOMAIN k : k[n] \in EntriesOf(j)
      /\ \A n \in LedgerReqs(j) :
            Entry(j, n).state # "done" => \E i \in DOMAIN k : k[i] = Entry(j, n)
      /\ \A m, n \in DOMAIN k : k[m].req = k[n].req => m = n
  BY KeptFacts, ElementOfSeq
<1>4. /\ DOMAIN x = 1..Len(k) /\ Len(x) = Len(k) /\ x \in Seq({x[n] : n \in DOMAIN x})
      /\ \A n \in DOMAIN k : x[n] = EntryRecord(k[n])
  <2>1. x = [n \in DOMAIN k |-> EntryRecord(k[n])]
    BY DEF EntryRecords
  <2> HIDE DEF x, k
  <2>2. DOMAIN x = 1..Len(k) /\ \A n \in DOMAIN k : x[n] = EntryRecord(k[n])
    BY <1>3, <2>1
  <2>3. x \in [1..Len(k) -> {x[n] : n \in DOMAIN x}]
    BY <1>3, <2>1, <2>2
  <2>4. x \in Seq({x[n] : n \in DOMAIN x})
    BY <1>3, <2>3, IsASeq
  <2>5. Len(x) = Len(k)
    BY <1>3, <2>2, <2>4, LenProperties
  <2>6. QED
    BY <2>2, <2>4, <2>5
<1>5. \A n \in DOMAIN k : /\ x[n].kind = "inbox" /\ x[n].req = k[n].req /\ x[n].state = k[n].state
                          /\ x[n].message = k[n].message /\ x[n].live = k[n].live
  BY <1>4, EntryRecordIs
<1>6. /\ \A i \in 1..Len(p) : i \in DOMAIN c /\ c[i] = p[i]
      /\ \A n \in DOMAIN k : n + Len(p) \in DOMAIN c /\ c[n + Len(p)] = x[n]
      /\ \A i \in DOMAIN c : i \in 1..Len(p) \/ (i \in Int /\ i - Len(p) \in DOMAIN k)
  <2> HIDE DEF p, x, k, c
  <2>1. p \in Seq({p[n] : n \in DOMAIN p})
    <3>1. p \in [1..Len(p) -> A]
      BY <1>2, LenProperties
    <3>2. p \in [1..Len(p) -> {p[n] : n \in DOMAIN p}]
      BY <1>2, <3>1
    <3>3. QED
      BY <1>2, <3>2, IsASeq
  <2>2. p \in Seq({p[n] : n \in DOMAIN p} \cup {x[n] : n \in DOMAIN x})
        /\ x \in Seq({p[n] : n \in DOMAIN p} \cup {x[n] : n \in DOMAIN x})
    BY <1>4, <2>1, SeqMonotone
  <2>3. /\ \A i \in DOMAIN p : i \in DOMAIN c /\ c[i] = p[i]
        /\ \A i \in DOMAIN x : i + Len(p) \in DOMAIN c /\ c[i + Len(p)] = x[i]
        /\ \A i \in DOMAIN c : i \in DOMAIN p \/ (i \notin DOMAIN p /\ i - Len(p) \in DOMAIN x)
    BY <1>1, <2>2, ConcatFacts
  <2>4. DOMAIN c \subseteq Int
    BY <1>1, LenProperties
  <2>5. QED
    BY <1>2, <1>3, <1>4, <2>3, <2>4
<1> HIDE DEF p, x, k, c, B
<1>7. \A i : i \in RecordsOf(c, r) <=> i \in DOMAIN c /\ c[i].kind = "inbox" /\ c[i].req = r
  <2>1. c \in Seq(B)
    BY <1>1
  <2>2. QED
    BY <2>1, RecordsFinite
<1>8. \A i \in RecordsOf(c, r) : i - Len(p) \in DOMAIN k /\ k[i - Len(p)].req = r /\ i \in Int
  <2> TAKE i \in RecordsOf(c, r)
  <2>1. i \in DOMAIN c /\ c[i].kind = "inbox" /\ c[i].req = r
    BY <1>7
  <2>2. i \notin 1..Len(p)
    BY <1>2, <1>6, <2>1
  <2>3. i \in Int /\ i - Len(p) \in DOMAIN k
    BY <1>6, <2>1, <2>2
  <2>4. i - Len(p) + Len(p) = i
    BY <1>2, <2>3
  <2>5. c[i] = x[i - Len(p)]
    BY <1>6, <2>3, <2>4
  <2>6. QED
    BY <1>5, <2>1, <2>3, <2>5
<1>9. ASSUME NEW n \in DOMAIN k, k[n].req = r
      PROVE  SameEntry(j, c, r)
  <2> DEFINE l == n + Len(p)
  <2>1. l \in DOMAIN c /\ c[l] = x[n]
    BY <1>6
  <2>2. l \in RecordsOf(c, r)
    BY <1>5, <1>7, <1>9, <2>1
  <2>3. \A i \in RecordsOf(c, r) : i = l
    <3> TAKE i \in RecordsOf(c, r)
    <3>1. i - Len(p) = n /\ i \in Int
      BY <1>3, <1>8, <1>9
    <3>2. QED
      BY <1>2, <3>1
  <2>4. l \in Int
    BY <1>2, <1>3
  <2> HIDE DEF l
  <2>5. \A i \in RecordsOf(c, r) : i <= l
    BY <2>3, <2>4
  <2>6. /\ Standing(c, r) = c[l].state
        /\ HasMessage(c, r) <=> \E i \in RecordsOf(c, r) : Given(c, r, i)
        /\ IsLive(c, r) <=> c[l].live = TRUE
    BY <1>1, <2>2, <2>5, EntryIs
  <2>7. /\ Standing(j, r) = k[n].state
        /\ HasMessage(j, r) <=> k[n].message
        /\ IsLive(j, r) <=> k[n].live = TRUE
    BY <1>3, <1>9, EntriesAre
  <2>8. c[l].state = k[n].state /\ c[l].message = k[n].message /\ c[l].live = k[n].live
    BY <1>5, <2>1
  <2>9. Given(c, r, l) <=> k[n].message /\ k[n].state # "done"
    BY <2>2, <2>3, <2>4, <2>8 DEF Given
  <2>10. HasMessage(c, r) <=> HasMessage(j, r)
    <3>1. k[n].state = "done" => ~HasMessage(j, r)
      BY <2>7, DoneIsSilent
    <3>2. HasMessage(c, r) <=> Given(c, r, l)
      BY <2>2, <2>3, <2>6
    <3>3. QED
      BY <2>7, <2>9, <3>1, <3>2
  <2>11. QED
    BY <2>6, <2>7, <2>8, <2>10 DEF SameEntry
<1>10. ASSUME \A n \in DOMAIN k : k[n].req # r
       PROVE  SameEntry(j, c, r) \/ /\ Standing(j, r) = "done" /\ Standing(c, r) = "unknown"
                                    /\ ~HasMessage(c, r) /\ ~IsLive(c, r)
  <2>1. RecordsOf(c, r) = {}
    BY <1>8, <1>10
  <2>2. Standing(c, r) = "unknown" /\ ~HasMessage(c, r) /\ ~IsLive(c, r)
    BY <2>1, NoEntry
  <2>3. CASE InLedger(j, r)
    <3>1. r \in LedgerReqs(j) /\ Entry(j, r).req = r
      BY <2>3, InLedgerIs DEF Entry
    <3>2. Entry(j, r).state = "done"
      BY <1>3, <1>10, <3>1
    <3>3. QED
      BY <2>2, <2>3, <3>2 DEF Standing
  <2>4. CASE ~InLedger(j, r)
    <3>1. RecordsOf(j, r) = {}
      BY <2>4 DEF InLedger
    <3>2. QED
      BY <2>2, <3>1, NoEntry DEF SameEntry
  <2>5. QED
    BY <2>3, <2>4
<1>11. QED
  BY <1>9, <1>10 DEF c

(* The plan of the re-drive: one step for each entry this process has not
   touched and nobody has closed. *)
LEMMA RedrivePlanFacts ==
    ASSUME NEW A, NEW j \in Seq(A)
    PROVE  /\ \A n \in DOMAIN RedrivePlan(j) :
                 LET s == RedrivePlan(j)[n]
                     r == s.entry.req
                 IN  /\ InLedger(j, r) /\ Standing(j, r) # "done" /\ ~IsLive(j, r)
                     /\ s.entry.message <=> HasMessage(j, r)
                     /\ s.action = RedriveAction(j, s.entry)
           /\ \A m, n \in DOMAIN RedrivePlan(j) :
                 RedrivePlan(j)[m].entry.req = RedrivePlan(j)[n].entry.req => m = n
<1> DEFINE p == Pending(j)
           E == {e \in EntriesOf(j) : e.state # "done"}
           S == {n \in DOMAIN p : ~p[n].live}
           o == Part(p, S)
           plan == RedrivePlan(j)
<1>1. p \in Seq(E) /\ \A m, n \in DOMAIN p : p[m].req = p[n].req => m = n
  BY PendingFacts
<1>2. plan = [n \in DOMAIN o |-> [action |-> RedriveAction(j, o[n]), entry |-> o[n]]]
  BY DEF RedrivePlan
<1>3. \A n \in DOMAIN p : p[n] \in E
  BY <1>1, ElementOfSeq, LenProperties
<1> HIDE DEF p
<1>4. S \subseteq DOMAIN p
  OBVIOUS
<1>5. \A n \in DOMAIN o : InOrder(S)[n] \in S /\ o[n] = p[InOrder(S)[n]] /\ Rank(S, InOrder(S)[n]) = n
  BY <1>1, <1>4, PartFacts
<1> HIDE DEF o, plan
<1>6. /\ DOMAIN plan = DOMAIN o
      /\ \A n \in DOMAIN o : plan[n].action = RedriveAction(j, o[n]) /\ plan[n].entry = o[n]
  BY <1>2
<1>7. ASSUME NEW n \in DOMAIN plan
      PROVE  LET s == plan[n]
                 r == s.entry.req
             IN  /\ InLedger(j, r) /\ Standing(j, r) # "done" /\ ~IsLive(j, r)
                 /\ s.entry.message <=> HasMessage(j, r)
                 /\ s.action = RedriveAction(j, s.entry)
  <2> DEFINE e == o[n]
  <2>1. e \in EntriesOf(j) /\ e.state # "done" /\ ~e.live
    BY <1>3, <1>5, <1>6
  <2>2. plan[n].entry = e /\ plan[n].action = RedriveAction(j, e)
    BY <1>6
  <2> HIDE DEF e
  <2>3. /\ InLedger(j, e.req) /\ Standing(j, e.req) = e.state
        /\ HasMessage(j, e.req) <=> e.message
        /\ IsLive(j, e.req) <=> e.live = TRUE
    BY <2>1, EntriesAre
  <2>4. QED
    BY <2>1, <2>2, <2>3
<1>8. ASSUME NEW m \in DOMAIN plan, NEW n \in DOMAIN plan, plan[m].entry.req = plan[n].entry.req
      PROVE  m = n
  <2>1. p[InOrder(S)[m]].req = p[InOrder(S)[n]].req /\ InOrder(S)[m] \in DOMAIN p /\ InOrder(S)[n] \in DOMAIN p
    BY <1>4, <1>5, <1>6, <1>8
  <2>2. InOrder(S)[m] = InOrder(S)[n]
    BY <1>1, <2>1
  <2>3. QED
    BY <1>5, <1>6, <2>2
<1>9. QED
  BY <1>7, <1>8 DEF plan

--------------------------------------------------------------------------------
(* Parts and prefixes *)

LEMMA PrefixIs ==
    ASSUME NEW A, NEW s \in Seq(A), NEW t \in Seq(A)
    PROVE  IsPrefix(s, t) <=> Len(s) <= Len(t) /\ \A i \in 1..Len(s) : s[i] = t[i]
<1>1. Len(s) \in Nat /\ Len(t) \in Nat
  BY LenProperties
<1>2. CASE Len(s) <= Len(t)
  <2> DEFINE p == SubSeq(s, 1, Len(s))
             q == SubSeq(t, 1, Len(s))
  <2>1. /\ p \in Seq(A) /\ Len(p) = Len(s)
        /\ \A i \in 1..Len(s) : p[i] = s[i]
    BY <1>1, SubSeqProperties
  <2>2. /\ q \in Seq(A) /\ Len(q) = Len(s)
        /\ \A i \in 1..Len(s) : q[i] = t[i]
    BY <1>1, <1>2, SubSeqProperties
  <2>3. IsPrefix(s, t) <=> p = q
    BY <1>2 DEF IsPrefix
  <2> HIDE DEF p, q
  <2>4. p = q <=> \A i \in 1..Len(s) : p[i] = q[i]
    BY <2>1, <2>2, SeqEqual
  <2>5. QED
    BY <1>2, <2>1, <2>2, <2>3, <2>4
<1>3. CASE ~(Len(s) <= Len(t))
  BY <1>3 DEF IsPrefix
<1>4. QED
  BY <1>2, <1>3

LEMMA PrefixTransitive ==
    ASSUME NEW A, NEW s \in Seq(A), NEW t \in Seq(A), NEW u \in Seq(A),
           IsPrefix(s, t), IsPrefix(t, u)
    PROVE  IsPrefix(s, u)
<1>1. Len(s) \in Nat /\ Len(t) \in Nat /\ Len(u) \in Nat
  BY LenProperties
<1>2. /\ Len(s) <= Len(t) /\ \A i \in 1..Len(s) : s[i] = t[i]
      /\ Len(t) <= Len(u) /\ \A i \in 1..Len(t) : t[i] = u[i]
  BY PrefixIs
<1>3. Len(s) <= Len(u) /\ \A i \in 1..Len(s) : s[i] = u[i]
  BY <1>1, <1>2
<1>4. QED
  BY <1>3, PrefixIs

LEMMA PrefixItself == ASSUME NEW s PROVE IsPrefix(s, s)
BY DEF IsPrefix

(* t continues s, and T takes of it what S takes of s, and perhaps more. *)
LEMMA PartPrefix ==
    ASSUME NEW A, NEW s \in Seq(A), NEW t \in Seq(A),
           NEW S \in SUBSET DOMAIN s, NEW T \in SUBSET DOMAIN t,
           \A i \in DOMAIN s : t[i] = s[i], T \cap DOMAIN s = S
    PROVE  IsPrefix(Part(s, S), Part(t, T))
<1>1. /\ DOMAIN s = 1..Len(s) /\ Len(s) \in Nat
      /\ DOMAIN t = 1..Len(t) /\ Len(t) \in Nat
  BY LenProperties
<1>2. \A i \in S : Rank(T, i) = Rank(S, i)
  <2> TAKE i \in S
  <2>1. \A k : k \in {m \in T : m <= i} <=> k \in {m \in S : m <= i}
    BY <1>1
  <2>2. {m \in T : m <= i} = {m \in S : m <= i}
    BY <2>1
  <2>3. QED
    BY <2>2 DEF Rank
<1>3. S \subseteq T
  OBVIOUS
<1> DEFINE p == Part(s, S)
           q == Part(t, T)
<1>4. /\ p \in Seq(A) /\ Len(p) = Cardinality(S) /\ Cardinality(S) \in Nat
      /\ \A n \in 1..Cardinality(S) : InOrder(S)[n] \in S /\ Rank(S, InOrder(S)[n]) = n
      /\ \A i \in S : p[Rank(S, i)] = s[i]
  BY PartFacts
<1>5. /\ q \in Seq(A) /\ Len(q) = Cardinality(T)
      /\ \A i \in T : q[Rank(T, i)] = t[i]
  BY PartFacts
<1>6. Cardinality(S) <= Cardinality(T)
  BY <1>3, DomainFinite, FS_Subset
<1> HIDE DEF p, q
<1>7. ASSUME NEW n \in 1..Len(p) PROVE p[n] = q[n]
  <2>1. PICK i \in S : Rank(S, i) = n
    BY <1>4, <1>7
  <2>2. Rank(T, i) = n /\ i \in T /\ i \in DOMAIN s
    BY <1>2, <1>3, <2>1
  <2>3. p[n] = s[i] /\ q[n] = t[i]
    BY <1>4, <1>5, <2>1, <2>2
  <2>4. QED
    BY <2>2, <2>3
<1>8. IsPrefix(p, q)
  BY <1>4, <1>5, <1>6, <1>7, PrefixIs
<1>9. QED
  BY <1>8 DEF p, q

================================================================================
