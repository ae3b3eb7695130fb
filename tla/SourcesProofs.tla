----------------------------- MODULE SourcesProofs -------------------------------
(***************************************************************************)
(* Loads of any documents, in any configuration, whatever fails or changes *)
(* between two reads: what they come to, what is a node, and that what is  *)
(* delivered is a list that Affinity allows.                               *)
(*                                                                         *)
(* Lists that the code filters or sorts are described by the places and    *)
(* the ranks of their elements; what is read is described by sets, up to   *)
(* the IDs, since of the entries with one ID the first is kept.            *)
(***************************************************************************)
EXTENDS Sources, AffinityProofs, SequenceTheorems, FiniteSetTheorems, TLAPS

(* Where a strict linear order on a finite set places each element: b[i] is  *)
(* the set of the elements before i.                                         *)
LEMMA Ranking ==
  ASSUME NEW S, IsFiniteSet(S), NEW b \in [S -> SUBSET S],
         \A i \in S : i \notin b[i],
         \A i, j \in S : i # j => i \in b[j] \/ j \in b[i],
         \A i, j \in S : i \in b[j] => b[i] \subseteq b[j]
  PROVE  /\ Cardinality(S) \in Nat
         /\ \A i \in S : Cardinality(b[i]) \in 0 .. Cardinality(S) - 1
         /\ \A i, j \in S : i \in b[j] <=> Cardinality(b[i]) < Cardinality(b[j])
         /\ \A n \in 1 .. Cardinality(S) : \E i \in S : Cardinality(b[i]) = n - 1
<1>1. Cardinality(S) \in Nat
  BY FS_CardinalityType
<1>2. \A i \in S : IsFiniteSet(b[i]) /\ Cardinality(b[i]) \in Nat
  BY FS_Subset, FS_CardinalityType
<1>3. ASSUME NEW i \in S PROVE Cardinality(b[i]) < Cardinality(S)
  <2>1. /\ Cardinality(b[i]) <= Cardinality(S)
        /\ Cardinality(S) = Cardinality(b[i]) => S = b[i]
    BY FS_Subset
  <2>2. QED
    BY <1>1, <1>2, <2>1
<1>4. ASSUME NEW i \in S, NEW j \in S, i \in b[j]
      PROVE Cardinality(b[i]) < Cardinality(b[j])
  <2>1. b[i] \in SUBSET b[j] /\ b[i] # b[j]
    BY <1>4
  <2>2. /\ Cardinality(b[i]) <= Cardinality(b[j])
        /\ Cardinality(b[j]) = Cardinality(b[i]) => b[j] = b[i]
    BY <1>2, <2>1, FS_Subset
  <2>3. QED
    BY <1>2, <2>1, <2>2
<1>5. ASSUME NEW i \in S, NEW j \in S, Cardinality(b[i]) < Cardinality(b[j])
      PROVE i \in b[j]
  <2>1. CASE i = j
    BY <1>2, <1>5, <2>1
  <2>2. CASE j \in b[i]
    <3>1. Cardinality(b[j]) < Cardinality(b[i])
      BY <1>4, <2>2
    <3>2. QED
      BY <1>2, <1>5, <3>1
  <2>3. QED
    BY <2>1, <2>2
<1> DEFINE place == [i \in S |-> Cardinality(b[i]) + 1]
<1>6. place \in Injection(S, 1 .. Cardinality(S))
  <2>1. place \in [S -> 1 .. Cardinality(S)]
    BY <1>1, <1>2, <1>3
  <2>2. ASSUME NEW i \in S, NEW j \in S, place[i] = place[j] PROVE i = j
    <3>1. Cardinality(b[i]) = Cardinality(b[j])
      BY <1>2, <2>2
    <3>2. QED
      BY <1>2, <1>4, <3>1
  <2>3. QED
    BY <2>1, <2>2 DEF Injection, IsInjective
<1>7. place \in Surjection(S, 1 .. Cardinality(S))
  BY <1>1, <1>6, FS_Injection, FS_Interval
<1>8. \A n \in 1 .. Cardinality(S) : \E i \in S : Cardinality(b[i]) = n - 1
  <2>1. \A n \in 1 .. Cardinality(S) : \E i \in S : place[i] = n
    BY <1>7 DEF Surjection
  <2>2. QED
    BY <1>1, <1>2, <2>1
<1>9. QED
  BY <1>1, <1>2, <1>3, <1>4, <1>5, <1>8

LEMMA AtIs ==
  ASSUME NEW seq, NEW places
  PROVE  At(seq, places) =
           [n \in 1 .. Cardinality(places) |->
              seq[CHOOSE i \in places : Cardinality({j \in places : j < i}) = n - 1]]
<1> DEFINE inOrder(q, set) ==
             [n \in 1 .. Cardinality(set) |->
                q[CHOOSE i \in set : Cardinality({j \in set : j < i}) = n - 1]]
<1>1. At(seq, places) = CHOOSE t \in {inOrder(q, set) : q \in {seq}, set \in {places}} : TRUE
  BY DEF At
<1> HIDE DEF inOrder
<1>2. {inOrder(q, set) : q \in {seq}, set \in {places}} = {inOrder(seq, places)}
  OBVIOUS
<1>3. At(seq, places) = inOrder(seq, places)
  BY <1>1, <1>2
<1>4. QED
  BY <1>3 DEF inOrder

(* p[n] is the n-th of some places.                                          *)
Enumerates(p, places) ==
  LET N == Cardinality(places)
  IN /\ p \in [1 .. N -> places]
     /\ \A m, n \in 1 .. N : m < n => p[m] < p[n]
     /\ \A i \in places : \E n \in 1 .. N : p[n] = i

LEMMA AtPlaces ==
  ASSUME NEW seq, NEW places \in SUBSET Int, IsFiniteSet(places)
  PROVE  /\ Cardinality(places) \in Nat
         /\ DOMAIN At(seq, places) = 1 .. Cardinality(places)
         /\ \E p : /\ Enumerates(p, places)
                  /\ \A n \in 1 .. Cardinality(places) : At(seq, places)[n] = seq[p[n]]
<1> DEFINE N == Cardinality(places)
           before(i) == {j \in places : j < i}
           b == [i \in places |-> before(i)]
           p == [n \in 1 .. N |-> CHOOSE i \in places : Cardinality(before(i)) = n - 1]
<1>1. /\ N \in Nat
      /\ \A i \in places : Cardinality(before(i)) \in 0 .. N - 1
      /\ \A i, j \in places : i \in before(j) <=> Cardinality(before(i)) < Cardinality(before(j))
      /\ \A n \in 1 .. N : \E i \in places : Cardinality(before(i)) = n - 1
  <2>1. b \in [places -> SUBSET places]
    OBVIOUS
  <2>2. \A i \in places : i \notin b[i]
    OBVIOUS
  <2>3. \A i, j \in places : i # j => i \in b[j] \/ j \in b[i]
    OBVIOUS
  <2>4. ASSUME NEW i \in places, NEW j \in places, i \in b[j] PROVE b[i] \subseteq b[j]
    <3>1. i \in Int /\ j \in Int /\ i < j
      BY <2>4
    <3>2. \A k \in Int : k < i => k < j
      BY <3>1
    <3>3. QED
      BY <3>2
  <2>5. \A i \in places : b[i] = before(i)
    OBVIOUS
  <2> HIDE DEF b, before
  <2>6. /\ N \in Nat
        /\ \A i \in places : Cardinality(b[i]) \in 0 .. N - 1
        /\ \A i, j \in places : i \in b[j] <=> Cardinality(b[i]) < Cardinality(b[j])
        /\ \A n \in 1 .. N : \E i \in places : Cardinality(b[i]) = n - 1
    BY <2>1, <2>2, <2>3, <2>4, Ranking
  <2>7. QED
    BY <2>5, <2>6
<1>2. At(seq, places) = [n \in 1 .. N |-> seq[p[n]]]
  <2>1. At(seq, places) =
          [n \in 1 .. N |-> seq[CHOOSE i \in places : Cardinality(before(i)) = n - 1]]
    BY AtIs
  <2>2. \A n \in 1 .. N : p[n] = CHOOSE i \in places : Cardinality(before(i)) = n - 1
    OBVIOUS
  <2> HIDE DEF p, N, before
  <2>3. QED
    BY <2>1, <2>2
<1>3. \A i, j \in places : i \in before(j) <=> i < j
  OBVIOUS
<1>4. \A i, j \in places : i < j \/ j < i \/ i = j
  OBVIOUS
<1> HIDE DEF before
<1>5. \A n \in 1 .. N : p[n] \in places /\ Cardinality(before(p[n])) = n - 1
  BY <1>1
<1>6. p \in [1 .. N -> places]
  BY <1>5
<1> HIDE DEF p, N
<1>7. \A m, n \in 1 .. N : m < n => p[m] < p[n]
  <2> SUFFICES ASSUME NEW m \in 1 .. N, NEW n \in 1 .. N, m < n PROVE p[m] < p[n]
    OBVIOUS
  <2>1. Cardinality(before(p[m])) < Cardinality(before(p[n]))
    BY <1>1, <1>5
  <2>2. QED
    BY <1>1, <1>3, <1>5, <2>1
<1>8. \A i \in places : \E n \in 1 .. N : p[n] = i
  <2> SUFFICES ASSUME NEW i \in places PROVE \E n \in 1 .. N : p[n] = i
    OBVIOUS
  <2>1. PICK n \in 1 .. N : Cardinality(before(i)) = n - 1
    <3> DEFINE n == Cardinality(before(i)) + 1
    <3>1. n \in 1 .. N /\ Cardinality(before(i)) = n - 1
      BY <1>1
    <3> HIDE DEF n
    <3>2. QED
      BY <3>1
  <2>2. p[n] \in places /\ Cardinality(before(p[n])) = Cardinality(before(i))
    BY <1>5, <2>1
  <2>3. \A c \in Int : ~ (c < c)
    OBVIOUS
  <2>4. Cardinality(before(i)) \in Int
    BY <1>1
  <2>5. p[n] \notin before(i) /\ i \notin before(p[n])
    BY <1>1, <2>2, <2>3, <2>4
  <2>6. QED
    BY <1>3, <1>4, <2>2, <2>5
<1>9. /\ DOMAIN At(seq, places) = 1 .. N
      /\ \A n \in 1 .. N : At(seq, places)[n] = seq[p[n]]
  BY <1>2
<1>10. Enumerates(p, places)
  BY <1>6, <1>7, <1>8 DEF N, Enumerates
<1>11. QED
  BY <1>1, <1>9, <1>10 DEF N

LEMMA PlacesFinite ==
  ASSUME NEW n \in Nat, NEW places \in SUBSET (1 .. n)
  PROVE  IsFiniteSet(places) /\ places \in SUBSET Int /\ Cardinality(places) <= n
<1>1. IsFiniteSet(1 .. n) /\ Cardinality(1 .. n) = n
  BY FS_Interval
<1>2. places \in SUBSET Int
  OBVIOUS
<1>3. QED
  BY <1>1, <1>2, FS_Subset

LEMMA Least ==
  ASSUME NEW places \in SUBSET Int, IsFiniteSet(places), places # {}
  PROVE  \E i \in places : \A j \in places : i <= j
<1> DEFINE N == Cardinality(places)
<1>1. N \in Nat /\ N # 0
  BY FS_CardinalityType, FS_EmptySet
<1>2. PICK p \in [1 .. N -> places] :
        /\ \A m, n \in 1 .. N : m < n => p[m] < p[n]
        /\ \A i \in places : \E n \in 1 .. N : p[n] = i
  <2>1. PICK p : Enumerates(p, places)
    BY AtPlaces
  <2>2. QED
    BY <2>1 DEF Enumerates
<1> HIDE DEF N
<1>3. 1 \in 1 .. N /\ p[1] \in places
  BY <1>1
<1>4. ASSUME NEW j \in places PROVE p[1] <= j
  <2>1. PICK n \in 1 .. N : p[n] = j
    BY <1>2
  <2>2. CASE n = 1
    BY <1>3, <2>1, <2>2
  <2>3. CASE 1 < n
    <3>1. p[1] < p[n]
      BY <1>2, <1>3, <2>3
    <3>2. \A a, b \in Int : a < b => a <= b
      OBVIOUS
    <3>3. p[1] \in Int /\ j \in Int
      BY <1>3
    <3>4. QED
      BY <2>1, <3>1, <3>2, <3>3
  <2>4. QED
    BY <1>1, <2>2, <2>3
<1>5. QED
  BY <1>3, <1>4

-----------------------------------------------------------------------------
(* What is a sequence, whatever its elements are.                            *)
IsSeq(s) == s \in Seq(ToSet(s))

LEMMA SeqIsSeq ==
  ASSUME NEW T, NEW q \in Seq(T)
  PROVE  IsSeq(q) /\ ToSet(q) \subseteq T
<1>1. PICK n \in Nat : q \in [1 .. n -> T]
  BY SeqDef
<1>2. DOMAIN q = 1 .. n
  BY <1>1
<1>3. q \in [1 .. n -> ToSet(q)]
  BY <1>1, <1>2 DEF ToSet
<1>4. q \in Seq(ToSet(q))
  BY <1>3, SeqDef
<1>5. QED
  BY <1>1, <1>2, <1>4 DEF IsSeq, ToSet

LEMMA IsSeqProperties ==
  ASSUME NEW q, IsSeq(q)
  PROVE  /\ Len(q) \in Nat /\ DOMAIN q = 1 .. Len(q)
         /\ q = [i \in 1 .. Len(q) |-> q[i]]
         /\ \A i \in DOMAIN q : q[i] \in ToSet(q)
         /\ \A x \in ToSet(q) : \E i \in DOMAIN q : q[i] = x
BY DEF IsSeq, ToSet

LEMMA FcnIsSeq ==
  ASSUME NEW n \in Nat, NEW q, DOMAIN q = 1 .. n, q = [i \in 1 .. n |-> q[i]]
  PROVE  IsSeq(q) /\ Len(q) = n
<1>1. q \in [1 .. n -> ToSet(q)]
  BY DEF ToSet
<1>2. q \in Seq(ToSet(q))
  BY <1>1, SeqDef
<1>3. QED
  BY <1>1, <1>2 DEF IsSeq

LEMMA EmptyIsSeq ==
  IsSeq(<<>>) /\ ToSet(<<>>) = {} /\ DOMAIN <<>> = {}
BY DEF IsSeq, ToSet

LEMMA NothingInIt ==
  ASSUME NEW q, IsSeq(q)
  PROVE  q = <<>> <=> ToSet(q) = {}
<1>1. q \in Seq(ToSet(q))
  BY DEF IsSeq
<1>2. ASSUME q # <<>> PROVE ToSet(q) # {}
  <2>1. Len(q) \in Nat \ {0}
    BY <1>1, <1>2, EmptySeq
  <2>2. 1 \in DOMAIN q
    BY <1>1, <2>1
  <2>3. QED
    BY <2>2 DEF ToSet
<1>3. QED
  BY <1>2, EmptyIsSeq

LEMMA ConcatToSet ==
  ASSUME NEW q, NEW r, IsSeq(q), IsSeq(r)
  PROVE  IsSeq(q \o r) /\ ToSet(q \o r) = ToSet(q) \cup ToSet(r)
<1> DEFINE T == ToSet(q) \cup ToSet(r)
<1>1. q \in Seq(T) /\ r \in Seq(T)
  <2>1. q \in Seq(ToSet(q)) /\ r \in Seq(ToSet(r))
    BY DEF IsSeq
  <2>2. QED
    BY <2>1, SeqMonotonic
<1> HIDE DEF T
<1>2. /\ q \o r \in Seq(T)
      /\ Len(q \o r) = Len(q) + Len(r)
      /\ \A i \in 1 .. Len(q) + Len(r) :
           (q \o r)[i] = IF i <= Len(q) THEN q[i] ELSE r[i - Len(q)]
      /\ Len(q) \in Nat /\ Len(r) \in Nat
  BY <1>1, ConcatProperties, LenProperties
<1>3. IsSeq(q \o r) /\ ToSet(q \o r) \subseteq T
  BY <1>2, SeqIsSeq
<1>4. DOMAIN (q \o r) = 1 .. Len(q) + Len(r)
  BY <1>2
<1>5. ASSUME NEW x \in ToSet(q) PROVE x \in ToSet(q \o r)
  <2>1. PICK i \in 1 .. Len(q) : q[i] = x
    BY IsSeqProperties
  <2>2. i \in 1 .. Len(q) + Len(r) /\ (q \o r)[i] = x
    BY <1>2, <2>1
  <2>3. QED
    BY <1>4, <2>2 DEF ToSet
<1>6. ASSUME NEW x \in ToSet(r) PROVE x \in ToSet(q \o r)
  <2>1. PICK i \in 1 .. Len(r) : r[i] = x
    BY IsSeqProperties
  <2>2. /\ Len(q) + i \in 1 .. Len(q) + Len(r) /\ ~ (Len(q) + i <= Len(q))
        /\ (Len(q) + i) - Len(q) = i
    BY <1>2
  <2>3. (q \o r)[Len(q) + i] = x
    BY <1>2, <2>1, <2>2
  <2>4. QED
    BY <1>4, <2>2, <2>3 DEF ToSet
<1>7. QED
  BY <1>3, <1>5, <1>6 DEF T

LEMMA AppendIsSeq ==
  ASSUME NEW q, NEW x, IsSeq(q)
  PROVE  /\ IsSeq(Append(q, x)) /\ ToSet(Append(q, x)) = ToSet(q) \cup {x}
         /\ Len(Append(q, x)) = Len(q) + 1
<1>1. q \in Seq(ToSet(q) \cup {x})
  BY SeqMonotonic DEF IsSeq
<1>2. Append(q, x) \in Seq(ToSet(q) \cup {x}) /\ Len(Append(q, x)) = Len(q) + 1
  BY <1>1, AppendProperties
<1>3. \A i \in 1 .. Len(q) : Append(q, x)[i] = q[i]
  BY <1>1, AppendProperties
<1>4. Append(q, x)[Len(q) + 1] = x
  BY <1>1, AppendProperties
<1>5. DOMAIN Append(q, x) = 1 .. Len(q) + 1 /\ DOMAIN q = 1 .. Len(q) /\ Len(q) \in Nat
  BY <1>1, <1>2
<1>6. ToSet(q) \cup {x} \subseteq ToSet(Append(q, x))
  BY <1>3, <1>4, <1>5 DEF ToSet
<1>7. QED
  BY <1>2, <1>6, SeqIsSeq

(* A function of the elements of a sequence, one by one.                     *)
LEMMA MapIsSeq ==
  ASSUME NEW q, IsSeq(q), NEW m, m = [i \in DOMAIN q |-> m[i]]
  PROVE  /\ IsSeq(m) /\ Len(m) = Len(q) /\ DOMAIN m = DOMAIN q
         /\ ToSet(m) = {m[i] : i \in DOMAIN q}
<1>1. DOMAIN m = DOMAIN q
  BY Zenon
<1>2. QED
  BY <1>1, IsSeqProperties, FcnIsSeq DEF ToSet

LEMMA AtIsSeq ==
  ASSUME NEW q, IsSeq(q), NEW places \in SUBSET DOMAIN q
  PROVE  /\ IsSeq(At(q, places)) /\ ToSet(At(q, places)) = {q[i] : i \in places}
         /\ \E p \in [DOMAIN At(q, places) -> places] :
              /\ \A n \in DOMAIN At(q, places) : At(q, places)[n] = q[p[n]]
              /\ \A m, n \in DOMAIN At(q, places) : m < n => p[m] < p[n]
              /\ \A i \in places : \E n \in DOMAIN At(q, places) : p[n] = i
<1> DEFINE a == At(q, places)
           N == Cardinality(places)
<1>1. IsFiniteSet(places) /\ places \in SUBSET Int
  BY IsSeqProperties, PlacesFinite
<1>2. N \in Nat /\ DOMAIN a = 1 .. N
  BY <1>1, AtPlaces
<1>3. PICK p \in [1 .. N -> places] :
        /\ \A n \in 1 .. N : a[n] = q[p[n]]
        /\ \A m, n \in 1 .. N : m < n => p[m] < p[n]
        /\ \A i \in places : \E n \in 1 .. N : p[n] = i
  <2>1. PICK p : Enumerates(p, places) /\ \A n \in 1 .. N : a[n] = q[p[n]]
    BY <1>1, AtPlaces
  <2>2. QED
    BY <2>1 DEF Enumerates
<1>4. DOMAIN a = 1 .. N /\ a = [n \in 1 .. N |-> a[n]]
  <2> DEFINE place(n) == CHOOSE i \in places : Cardinality({j \in places : j < i}) = n - 1
  <2>1. a = [n \in 1 .. N |-> q[place(n)]]
    BY AtIs, Zenon
  <2> HIDE DEF a, place, N
  <2>2. QED
    BY <2>1
<1> HIDE DEF a, N
<1>5. IsSeq(a)
  BY <1>2, <1>4, FcnIsSeq
<1>6. ToSet(a) = {q[i] : i \in places}
  <2>1. ToSet(a) = {q[p[n]] : n \in 1 .. N}
    BY <1>3, <1>4 DEF ToSet
  <2>2. QED
    BY <1>3, <2>1
<1>7. QED
  BY <1>3, <1>4, <1>5, <1>6 DEF a

LEMMA FirstsAre ==
  ASSUME NEW q, IsSeq(q), NEW keys
  PROVE  /\ IsSeq(Firsts(q, keys)) /\ ToSet(Firsts(q, keys)) \subseteq ToSet(q)
         /\ \E p \in [DOMAIN Firsts(q, keys) -> DOMAIN q] :
              /\ \A n \in DOMAIN Firsts(q, keys) : Firsts(q, keys)[n] = q[p[n]]
              /\ \A m, n \in DOMAIN Firsts(q, keys) : m # n => keys[p[m]] # keys[p[n]]
              /\ \A i \in DOMAIN q : \E n \in DOMAIN Firsts(q, keys) : keys[p[n]] = keys[i]
<1> DEFINE f == Firsts(q, keys)
           places == {i \in DOMAIN q : \A j \in 1 .. i - 1 : keys[j] # keys[i]}
<1>1. f = At(q, places) /\ places \in SUBSET DOMAIN q
  BY DEF Firsts
<1>2. DOMAIN q = 1 .. Len(q) /\ Len(q) \in Nat
  BY IsSeqProperties
<1>3. \A i \in places : \A j \in 1 .. i - 1 : keys[j] # keys[i]
  OBVIOUS
<1>4. ASSUME NEW i \in DOMAIN q PROVE \E j \in places : keys[j] = keys[i]
  <2> DEFINE same == {j \in DOMAIN q : keys[j] = keys[i]}
  <2>1. IsFiniteSet(same) /\ same \in SUBSET Int /\ same # {}
    BY <1>2, PlacesFinite
  <2>2. PICK j \in same : \A k \in same : j <= k
    BY <2>1, Least
  <2>3. j \in DOMAIN q /\ keys[j] = keys[i] /\ \A k \in DOMAIN q : keys[k] = keys[i] => j <= k
    BY <2>2
  <2>4. \A k \in 1 .. j - 1 : k \in DOMAIN q /\ ~ (j <= k)
    BY <1>2, <2>3
  <2>5. \A k \in 1 .. j - 1 : keys[k] # keys[j]
    BY <2>3, <2>4
  <2>6. QED
    BY <2>3, <2>5
<1> HIDE DEF f, places
<1>5. /\ IsSeq(f) /\ ToSet(f) = {q[i] : i \in places}
      /\ \E p \in [DOMAIN f -> places] :
           /\ \A n \in DOMAIN f : f[n] = q[p[n]]
           /\ \A m, n \in DOMAIN f : m < n => p[m] < p[n]
           /\ \A i \in places : \E n \in DOMAIN f : p[n] = i
  BY <1>1, AtIsSeq
<1>6. PICK p \in [DOMAIN f -> places] :
        /\ \A n \in DOMAIN f : f[n] = q[p[n]]
        /\ \A m, n \in DOMAIN f : m < n => p[m] < p[n]
        /\ \A i \in places : \E n \in DOMAIN f : p[n] = i
  BY <1>5
<1>7. ASSUME NEW m \in DOMAIN f, NEW n \in DOMAIN f, m < n PROVE keys[p[m]] # keys[p[n]]
  <2>1. p[m] \in 1 .. Len(q) /\ p[n] \in 1 .. Len(q) /\ p[m] < p[n]
    BY <1>1, <1>2, <1>6, <1>7
  <2>2. p[m] \in 1 .. p[n] - 1
    BY <1>2, <2>1
  <2>3. QED
    BY <1>3, <1>6, <2>2
<1>8. \A m, n \in DOMAIN f : m # n => keys[p[m]] # keys[p[n]]
  <2>1. \A n \in DOMAIN f : n \in Int
    <3>1. DOMAIN f = 1 .. Len(f)
      BY <1>5, IsSeqProperties
    <3>2. QED
      BY <3>1
  <2>2. \A m, n \in Int : m = n \/ m < n \/ n < m
    OBVIOUS
  <2>3. QED
    BY <1>7, <2>1, <2>2
<1>9. \A i \in DOMAIN q : \E n \in DOMAIN f : keys[p[n]] = keys[i]
  BY <1>4, <1>6
<1>10. ToSet(f) \subseteq ToSet(q) /\ p \in [DOMAIN f -> DOMAIN q]
  BY <1>1, <1>5, <1>6 DEF ToSet
<1>11. QED
  BY <1>5, <1>6, <1>8, <1>9, <1>10 DEF f

LEMMA DistinctIs ==
  ASSUME NEW q, IsSeq(q)
  PROVE  IsSeq(Distinct(q)) /\ ToSet(Distinct(q)) = ToSet(q)
<1>1. /\ IsSeq(Distinct(q)) /\ ToSet(Distinct(q)) \subseteq ToSet(q)
      /\ \E p \in [DOMAIN Distinct(q) -> DOMAIN q] :
           /\ \A n \in DOMAIN Distinct(q) : Distinct(q)[n] = q[p[n]]
           /\ \A i \in DOMAIN q : \E n \in DOMAIN Distinct(q) : q[p[n]] = q[i]
  BY FirstsAre DEF Distinct
<1>2. ToSet(q) \subseteq ToSet(Distinct(q))
  BY <1>1 DEF ToSet
<1>3. QED
  BY <1>1, <1>2

(* Of the specifications with one ID one is kept.                            *)
LEMMA DeduplicateKeepsOne ==
  ASSUME NEW q, IsSeq(q)
  PROVE  /\ IsSeq(Deduplicate(q)) /\ ToSet(Deduplicate(q)) \subseteq ToSet(q)
         /\ \A e \in ToSet(q) : \E f \in ToSet(Deduplicate(q)) : StableNodeID(f) = StableNodeID(e)
         /\ \A m, n \in DOMAIN Deduplicate(q) :
              m # n => StableNodeID(Deduplicate(q)[m]) # StableNodeID(Deduplicate(q)[n])
<1> DEFINE keys == [i \in DOMAIN q |-> StableNodeID(q[i])]
           d == Deduplicate(q)
<1>1. d = Firsts(q, keys)
  BY DEF Deduplicate
<1>2. \A i \in DOMAIN q : keys[i] = StableNodeID(q[i])
  OBVIOUS
<1> HIDE DEF keys, d
<1>3. /\ IsSeq(d) /\ ToSet(d) \subseteq ToSet(q)
      /\ \E p \in [DOMAIN d -> DOMAIN q] :
           /\ \A n \in DOMAIN d : d[n] = q[p[n]]
           /\ \A m, n \in DOMAIN d : m # n => keys[p[m]] # keys[p[n]]
           /\ \A i \in DOMAIN q : \E n \in DOMAIN d : keys[p[n]] = keys[i]
  BY <1>1, FirstsAre
<1>4. PICK p \in [DOMAIN d -> DOMAIN q] :
        /\ \A n \in DOMAIN d : d[n] = q[p[n]]
        /\ \A m, n \in DOMAIN d : m # n => keys[p[m]] # keys[p[n]]
        /\ \A i \in DOMAIN q : \E n \in DOMAIN d : keys[p[n]] = keys[i]
  BY <1>3
<1>5. \A n \in DOMAIN d : keys[p[n]] = StableNodeID(d[n]) /\ d[n] \in ToSet(d)
  BY <1>2, <1>4 DEF ToSet
<1>6. \A m, n \in DOMAIN d : m # n => StableNodeID(d[m]) # StableNodeID(d[n])
  BY <1>4, <1>5
<1>7. ASSUME NEW e \in ToSet(q) PROVE \E f \in ToSet(d) : StableNodeID(f) = StableNodeID(e)
  <2>1. PICK i \in DOMAIN q : q[i] = e
    BY DEF ToSet
  <2>2. QED
    BY <1>2, <1>4, <1>5, <2>1
<1>8. QED
  BY <1>3, <1>6, <1>7 DEF d

-----------------------------------------------------------------------------
(* The order of the configuration.                                           *)

\* Element i of a sequence goes before element j.
Precedes(order, i, j) == order[i] < order[j] \/ (order[i] = order[j] /\ i < j)

LEMMA PrecedesIsLinear ==
  ASSUME NEW S \in SUBSET Int, NEW order \in [S -> Int]
  PROVE  /\ \A i \in S : ~ Precedes(order, i, i)
         /\ \A i, j \in S : i # j => Precedes(order, i, j) \/ Precedes(order, j, i)
         /\ \A i, j, k \in S : Precedes(order, i, j) /\ Precedes(order, j, k) => Precedes(order, i, k)
<1>1. \A a, b, c, i, j, k \in Int :
        /\ ~ (a < a)
        /\ i # j => (a < b \/ (a = b /\ i < j)) \/ (b < a \/ (b = a /\ j < i))
        /\ (a < b \/ (a = b /\ i < j)) /\ (b < c \/ (b = c /\ j < k)) => a < c \/ (a = c /\ i < k)
  OBVIOUS
<1>2. \A i \in S : i \in Int /\ order[i] \in Int
  OBVIOUS
<1>3. QED
  BY <1>1, <1>2 DEF Precedes

\* p[n] is the n-th element in that order.
Sorts(p, D, order) ==
  /\ p \in [D -> D]
  /\ \A m, n \in D : m < n => Precedes(order, p[m], p[n])
  /\ \A i \in D : \E n \in D : p[n] = i

LEMMA OrderedIs ==
  ASSUME NEW q, IsSeq(q), NEW order \in [DOMAIN q -> Int]
  PROVE  /\ IsSeq(Ordered(q, order)) /\ DOMAIN Ordered(q, order) = DOMAIN q
         /\ \E p : /\ Sorts(p, DOMAIN q, order)
                  /\ \A n \in DOMAIN q : Ordered(q, order)[n] = q[p[n]]
<1> DEFINE D == DOMAIN q
           before(i) == {j \in D : order[j] < order[i] \/ (order[j] = order[i] /\ j < i)}
           b == [i \in D |-> before(i)]
           p == [n \in D |-> CHOOSE i \in D : Cardinality(before(i)) = n - 1]
           o == Ordered(q, order)
<1>1. D = 1 .. Len(q) /\ Len(q) \in Nat
  BY IsSeqProperties
<1>2. IsFiniteSet(D) /\ Cardinality(D) = Len(q)
  <2>1. \A n \in Nat : IsFiniteSet(1 .. n) /\ Cardinality(1 .. n) = n
    BY FS_Interval
  <2> HIDE DEF D
  <2>2. QED
    BY <1>1, <2>1
<1>3. o = [n \in D |-> q[CHOOSE i \in D : Cardinality(before(i)) = n - 1]]
  BY DEF Ordered
<1>4. \A i, j \in D : i \in before(j) <=> Precedes(order, i, j)
  BY DEF Precedes
<1>5. \A n \in D : p[n] = CHOOSE i \in D : Cardinality(before(i)) = n - 1
  OBVIOUS
<1>6. \A i \in D : b[i] = before(i) /\ before(i) \subseteq D
  OBVIOUS
<1>7. b = [i \in D |-> b[i]] /\ DOMAIN b = D
  OBVIOUS
<1>8. D \in SUBSET Int /\ order \in [D -> Int]
  BY <1>1
<1> HIDE DEF before, b, p, o, D
<1>9. /\ \A i \in D : ~ Precedes(order, i, i)
      /\ \A i, j \in D : i # j => Precedes(order, i, j) \/ Precedes(order, j, i)
      /\ \A i, j, k \in D : Precedes(order, i, j) /\ Precedes(order, j, k) => Precedes(order, i, k)
  BY <1>8, PrecedesIsLinear
<1>10. /\ \A i \in D : Cardinality(b[i]) \in 0 .. Len(q) - 1
       /\ \A i, j \in D : i \in b[j] <=> Cardinality(b[i]) < Cardinality(b[j])
       /\ \A n \in 1 .. Len(q) : \E i \in D : Cardinality(b[i]) = n - 1
  <2>1. b \in [D -> SUBSET D]
    BY <1>6, <1>7
  <2>2. \A i \in D : i \notin b[i]
    BY <1>4, <1>6, <1>9
  <2>3. \A i, j \in D : i # j => i \in b[j] \/ j \in b[i]
    BY <1>4, <1>6, <1>9
  <2>4. \A i, j \in D : i \in b[j] => b[i] \subseteq b[j]
    BY <1>4, <1>6, <1>9
  <2>5. QED
    BY <1>2, <2>1, <2>2, <2>3, <2>4, Ranking
<1>11. ASSUME NEW n \in D PROVE p[n] \in D /\ Cardinality(b[p[n]]) = n - 1
  <2>1. \E i \in D : Cardinality(before(i)) = n - 1
    BY <1>1, <1>6, <1>10
  <2>2. p[n] \in D /\ Cardinality(before(p[n])) = n - 1
    BY <1>5, <2>1
  <2>3. QED
    BY <1>6, <2>2
<1>12. \A n \in D : o[n] = q[p[n]]
  BY <1>3, <1>5
<1>13. ASSUME NEW m \in D, NEW n \in D, m < n PROVE Precedes(order, p[m], p[n])
  <2>1. Cardinality(b[p[m]]) < Cardinality(b[p[n]])
    <3>1. \A i, j \in Int : i < j => i - 1 < j - 1
      OBVIOUS
    <3>2. m - 1 < n - 1
      BY <1>1, <1>13, <3>1
    <3>3. QED
      BY <1>11, <3>2
  <2>2. p[m] \in b[p[n]]
    BY <1>10, <1>11, <2>1
  <2>3. QED
    BY <1>4, <1>6, <1>11, <2>2
<1>14. ASSUME NEW i \in D PROVE \E n \in D : p[n] = i
  <2> DEFINE n == Cardinality(b[i]) + 1
  <2>1. n \in D /\ n - 1 = Cardinality(b[i])
    <3>1. \A l \in Nat : \A c \in 0 .. l - 1 : c + 1 \in 1 .. l /\ (c + 1) - 1 = c
      OBVIOUS
    <3>2. QED
      BY <1>1, <1>10, <3>1
  <2> HIDE DEF n
  <2>2. p[n] \in D /\ Cardinality(b[p[n]]) = Cardinality(b[i])
    BY <1>11, <2>1
  <2>3. \A c \in Int : ~ (c < c)
    OBVIOUS
  <2>4. Cardinality(b[i]) \in Int
    BY <1>10
  <2>5. p[n] \notin b[i] /\ i \notin b[p[n]]
    BY <1>10, <2>2, <2>3, <2>4
  <2>6. p[n] = i
    BY <1>4, <1>6, <1>9, <2>2, <2>5
  <2>7. QED
    BY <2>1, <2>6
<1>15. DOMAIN o = D /\ o = [n \in 1 .. Len(q) |-> o[n]]
  BY <1>1, <1>3
<1>16. IsSeq(o)
  BY <1>1, <1>15, FcnIsSeq
<1>17. Sorts(p, D, order)
  <2>1. p \in [D -> D]
    BY <1>11 DEF p
  <2>2. QED
    BY <1>13, <1>14, <2>1 DEF Sorts
<1>18. QED
  BY <1>12, <1>15, <1>16, <1>17 DEF o, D

(* Every specification becomes one node, and the nodes are in the order of   *)
(* the hashes of their IDs.                                                  *)
LEMMA GenerateIs ==
  ASSUME NEW q, IsSeq(q),
         \A i \in DOMAIN q : HashOrder(StableNodeID(q[i])) \in Int,
         \A i, j \in DOMAIN q :
           i # j => HashOrder(StableNodeID(q[i])) # HashOrder(StableNodeID(q[j]))
  PROVE  /\ IsSeq(Generate(q))
         /\ ToSet(Generate(q)) = {Node(e) : e \in ToSet(q)}
         /\ \A m, n \in DOMAIN Generate(q) :
              m < n => HashOrder(Generate(q)[m].tag) < HashOrder(Generate(q)[n].tag)
<1> DEFINE order == [i \in DOMAIN q |-> HashOrder(StableNodeID(q[i]))]
           nodes == [i \in DOMAIN q |-> Node(q[i])]
           g == Generate(q)
<1>1. g = Ordered(nodes, order)
  <2>1. g = CHOOSE c \in {Ordered(nodes, o) : o \in {order}} : TRUE
    BY DEF Generate
  <2> HIDE DEF nodes, order, g
  <2>2. QED
    BY <2>1
<1>2. /\ order \in [DOMAIN q -> Int]
      /\ \A i \in DOMAIN q : order[i] = HashOrder(StableNodeID(q[i])) /\ nodes[i] = Node(q[i])
      /\ DOMAIN nodes = DOMAIN q /\ nodes = [i \in DOMAIN q |-> nodes[i]]
  OBVIOUS
<1>3. \A e : Node(e).tag = StableNodeID(e)
  BY DEF Node
<1> HIDE DEF order, nodes, g
<1>4. IsSeq(nodes)
  BY <1>2, MapIsSeq
<1>5. /\ IsSeq(g) /\ DOMAIN g = DOMAIN q
      /\ \E p : Sorts(p, DOMAIN q, order) /\ \A n \in DOMAIN q : g[n] = nodes[p[n]]
  BY <1>1, <1>2, <1>4, OrderedIs
<1>6. PICK p \in [DOMAIN q -> DOMAIN q] :
        /\ \A n \in DOMAIN q : g[n] = nodes[p[n]]
        /\ \A m, n \in DOMAIN q : m < n => Precedes(order, p[m], p[n])
        /\ \A i \in DOMAIN q : \E n \in DOMAIN q : p[n] = i
  BY <1>5 DEF Sorts
<1>7. ToSet(g) = {Node(e) : e \in ToSet(q)}
  <2>1. \A n \in DOMAIN q : p[n] \in DOMAIN q /\ g[n] = Node(q[p[n]])
    BY <1>2, <1>6
  <2>2. \A n \in DOMAIN q : g[n] \in {Node(e) : e \in ToSet(q)}
    BY <2>1 DEF ToSet
  <2>3. ASSUME NEW i \in DOMAIN q PROVE Node(q[i]) \in ToSet(g)
    BY <1>5, <1>6, <2>1 DEF ToSet
  <2>4. ToSet(g) = {g[n] : n \in DOMAIN q}
    BY <1>5 DEF ToSet
  <2>5. \A e \in ToSet(q) : Node(e) \in ToSet(g)
    BY <2>3 DEF ToSet
  <2>6. QED
    BY <2>2, <2>4, <2>5
<1>8. ASSUME NEW m \in DOMAIN q, NEW n \in DOMAIN q, m < n
      PROVE HashOrder(g[m].tag) < HashOrder(g[n].tag)
  <2>1. Precedes(order, p[m], p[n]) /\ p[m] \in DOMAIN q /\ p[n] \in DOMAIN q
    BY <1>6, <1>8
  <2>2. g[m].tag = StableNodeID(q[p[m]]) /\ g[n].tag = StableNodeID(q[p[n]])
    BY <1>2, <1>3, <1>6
  <2>3. p[m] # p[n]
    <3>1. DOMAIN q \in SUBSET Int
      <4>1. DOMAIN q = 1 .. Len(q)
        BY IsSeqProperties
      <4>2. QED
        BY <4>1
    <3>2. QED
      BY <1>2, <2>1, <3>1, PrecedesIsLinear
  <2>4. order[p[m]] # order[p[n]]
    BY <1>2, <2>1, <2>3
  <2>5. QED
    BY <1>2, <2>1, <2>2, <2>4 DEF Precedes
<1>9. QED
  BY <1>5, <1>7, <1>8 DEF g

-----------------------------------------------------------------------------
(* What the ID of a specification says of the way it leads out.              *)

SpecOK(e) ==
  /\ e = [type |-> e.type, server |-> e.server, port |-> e.port, cfg |-> e.cfg]
  /\ e.cfg = [k \in DOMAIN e.cfg |-> e.cfg[k]]
  /\ e.type \in Types
  /\ e.type \in StreamTypes => StreamKeys \subseteq DOMAIN e.cfg
  /\ e.type = "socks5" => DOMAIN e.cfg \in {{}, {"username", "password"}}
  /\ "headers" \in DOMAIN e.cfg => IsFiniteSet(DOMAIN e.cfg["headers"])

LEMMA ParsedIsSpec ==
  ASSUME NEW e \in ClashEntries
  PROVE  SpecOK(e)
<1>1. PICK r : Parses(r) /\ e = ParseProxy(r)
  BY DEF ClashEntries
<1> DEFINE typ == Lower(r.type)
           keys == OwnKeys(typ) \cup IF typ \in StreamTypes THEN StreamKeys ELSE {}
<1>2. e = [type |-> typ, server |-> r.server, port |-> r.port,
           cfg |-> [k \in keys |-> Setting(r, typ, k)]]
  BY <1>1 DEF ParseProxy
<1>3. typ \in Types
  BY <1>1 DEF Parses
<1>4. typ = "socks5" => keys = {"username", "password"}
  BY DEF OwnKeys, StreamTypes
<1>5. typ \in StreamTypes => StreamKeys \subseteq keys
  OBVIOUS
<1>6. "headers" \in DOMAIN e.cfg => IsFiniteSet(DOMAIN e.cfg["headers"])
  BY EntriesAssumption
<1> HIDE DEF typ, keys
<1>7. e.cfg = [k \in keys |-> Setting(r, typ, k)]
  BY <1>2
<1>8. DOMAIN e.cfg = keys /\ e.cfg = [k \in keys |-> e.cfg[k]]
  BY <1>7
<1>9. QED
  BY <1>2, <1>3, <1>4, <1>5, <1>6, <1>8 DEF SpecOK

LEMMA AddressIsSpec ==
  ASSUME NEW a
  PROVE  /\ SpecOK(SpecFromAddr(a)) /\ SpecFromAddr(a).type = "socks5"
         /\ SpecFromAddr(a).server = a.host /\ SpecFromAddr(a).port = a.port
         /\ DOMAIN SpecFromAddr(a).cfg = {}
<1> DEFINE e == SpecFromAddr(a)
<1>1. e = [type |-> "socks5", server |-> a.host, port |-> a.port, cfg |-> <<>>]
  BY DEF SpecFromAddr
<1> HIDE DEF e
<1>2. e.cfg = <<>> /\ DOMAIN e.cfg = {}
  BY <1>1
<1>3. e.cfg = [k \in DOMAIN e.cfg |-> e.cfg[k]]
  BY <1>2
<1>4. SpecOK(e)
  BY <1>1, <1>2, <1>3 DEF SpecOK, Types, StreamTypes
<1>5. QED
  BY <1>1, <1>2, <1>4 DEF e

LEMMA EntryIsSpec ==
  ASSUME NEW e \in Entries
  PROVE  SpecOK(e)
BY ParsedIsSpec, AddressIsSpec DEF Entries

\* What is equal in two specifications of one ID.
Alike(e, f) ==
  /\ e.type = f.type /\ Lower(e.server) = Lower(f.server) /\ e.port = f.port
  /\ DOMAIN e.cfg = DOMAIN f.cfg
  /\ \A k \in DOMAIN e.cfg :
       IF k = "headers" THEN CanonicalHeaders(e.cfg[k]) = CanonicalHeaders(f.cfg[k])
       ELSE IF k = "method" THEN Lower(e.cfg[k]) = Lower(f.cfg[k])
       ELSE e.cfg[k] = f.cfg[k]

LEMMA SameID ==
  ASSUME NEW e, NEW f
  PROVE  StableNodeID(e) = StableNodeID(f) <=> Alike(e, f)
<1> DEFINE id(s) == [k \in DOMAIN s.cfg |->
                       CASE k = "headers" -> CanonicalHeaders(s.cfg[k])
                         [] k = "method" -> Lower(s.cfg[k])
                         [] OTHER -> s.cfg[k]]
<1>1. \A s : StableNodeID(s) = [type |-> s.type, server |-> Lower(s.server), port |-> s.port,
                                cfg |-> id(s)]
  BY DEF StableNodeID
<1>2. \A s : /\ DOMAIN id(s) = DOMAIN s.cfg
             /\ \A k \in DOMAIN s.cfg :
                  id(s)[k] = IF k = "headers" THEN CanonicalHeaders(s.cfg[k])
                             ELSE IF k = "method" THEN Lower(s.cfg[k])
                             ELSE s.cfg[k]
             /\ id(s) = [k \in DOMAIN s.cfg |-> id(s)[k]]
  OBVIOUS
<1> HIDE DEF id
<1>3. id(e) = id(f) <=> /\ DOMAIN e.cfg = DOMAIN f.cfg
                        /\ \A k \in DOMAIN e.cfg : id(e)[k] = id(f)[k]
  BY <1>2
<1>4. StableNodeID(e) = StableNodeID(f) <=>
        /\ e.type = f.type /\ Lower(e.server) = Lower(f.server) /\ e.port = f.port
        /\ id(e) = id(f)
  BY <1>1
<1>5. QED
  BY <1>2, <1>3, <1>4, SMTT(30) DEF Alike

LEMMA LowerTwice ==
  \A x : Lower(Lower(x)) = Lower(x)
BY NodeAssumption DEF Lower

\* What the ID keeps of the headers is what reaches the other end.
LEMMA HeadersIncluded ==
  ASSUME NEW h, NEW g, IsFiniteSet(DOMAIN h), IsFiniteSet(DOMAIN g),
         CanonicalHeaders(h) = CanonicalHeaders(g)
  PROVE  HeadersSeen(h) \subseteq HeadersSeen(g)
<1> DEFINE under(x, l) == {k \in DOMAIN x : Lower(k) = l}
           value(x, l) == IF l \in DOMAIN x THEN x[l] ELSE ""
           names(x) == {Lower(k) : k \in DOMAIN x}
           pair(x, k) == <<Lower(k), IF Lower(k) = k THEN x[k] ELSE "">>
<1>1. \A x : CanonicalHeaders(x) =
               [l \in names(x) |-> [times |-> Cardinality(under(x, l)), value |-> value(x, l)]]
  BY DEF CanonicalHeaders
<1>2. \A x : HeadersSeen(x) = {pair(x, k) : k \in DOMAIN x}
  BY DEF HeadersSeen
<1>3. \A x, l : (\E k \in under(x, l) : TRUE) <=> l \in names(x)
  OBVIOUS
<1>4. /\ \A l : IsFiniteSet(under(h, l)) /\ IsFiniteSet(under(g, l))
  BY FS_Subset
<1>5. ASSUME NEW k \in DOMAIN h PROVE pair(h, k) \in {pair(g, j) : j \in DOMAIN g}
  <2> DEFINE l == Lower(k)
  <2>1. l \in names(h) /\ k \in under(h, l) /\ Lower(l) = l
    BY LowerTwice
  <2>2. /\ l \in names(g) /\ Cardinality(under(h, l)) = Cardinality(under(g, l))
        /\ value(h, l) = value(g, l)
    <3> HIDE DEF l, under, value, names
    <3>1. DOMAIN CanonicalHeaders(h) = names(h) /\ DOMAIN CanonicalHeaders(g) = names(g)
      BY <1>1
    <3>2. l \in names(g)
      BY <2>1, <3>1
    <3>3. CanonicalHeaders(h)[l] = CanonicalHeaders(g)[l]
      OBVIOUS
    <3>4. /\ CanonicalHeaders(h)[l].times = Cardinality(under(h, l))
          /\ CanonicalHeaders(g)[l].times = Cardinality(under(g, l))
          /\ CanonicalHeaders(h)[l].value = value(h, l)
          /\ CanonicalHeaders(g)[l].value = value(g, l)
      BY <1>1, <2>1, <3>2
    <3>5. QED
      BY <3>2, <3>3, <3>4
  <2>3. PICK j \in under(g, l) : TRUE
    BY <1>3, <2>2
  <2>4. CASE k = l
    <3>1. CASE l \in DOMAIN g
      <4>1. pair(g, l) = <<l, g[l]>> /\ pair(h, k) = <<l, h[l]>>
        BY <2>1, <2>4
      <4>2. h[l] = g[l]
        BY <2>2, <2>4, <3>1
      <4>3. QED
        BY <3>1, <4>1, <4>2
    <3>2. CASE l \notin DOMAIN g
      <4>1. j # l /\ j \in DOMAIN g /\ Lower(j) = l
        BY <2>3, <3>2
      <4>2. pair(g, j) = <<l, "">> /\ pair(h, k) = <<l, h[l]>>
        BY <2>1, <2>4, <4>1
      <4>3. h[l] = ""
        BY <2>2, <2>4, <3>2
      <4>4. QED
        BY <4>1, <4>2, <4>3
    <3>3. QED
      BY <3>1, <3>2
  <2>5. CASE k # l
    <3>1. CASE \E i \in under(g, l) : i # l
      <4>1. PICK i \in DOMAIN g : i # l /\ Lower(i) = l
        BY <3>1
      <4>2. pair(g, i) = <<l, "">> /\ pair(h, k) = <<l, "">>
        BY <2>5, <4>1
      <4>3. QED
        BY <4>1, <4>2
    <3>2. CASE \A i \in under(g, l) : i = l
      <4>1. under(g, l) = {l}
        BY <2>3, <3>2
      <4>2. Cardinality(under(h, l)) = 1
        BY <2>2, <4>1, FS_Singleton
      <4>3. \E x : under(h, l) = {x}
        BY <1>4, <4>2, FS_Singleton, ZenonT(60)
      <4>4. l \notin DOMAIN h
        BY <2>1, <2>5, <4>3
      <4>5. l \in DOMAIN g /\ g[l] = ""
        BY <2>2, <4>1, <4>4
      <4>6. pair(g, l) = <<l, "">> /\ pair(h, k) = <<l, "">>
        BY <2>1, <2>5, <4>5
      <4>7. QED
        BY <4>5, <4>6
    <3>3. QED
      BY <3>1, <3>2
  <2>6. QED
    BY <2>4, <2>5
<1> HIDE DEF pair
<1>6. QED
  BY <1>2, <1>5

\* Two specifications of one ID lead the same way.
LEMMA SameIDSameWay ==
  ASSUME NEW e, NEW f, SpecOK(e), SpecOK(f), StableNodeID(e) = StableNodeID(f)
  PROVE  Way(Outbound(e)) = Way(Outbound(f)) /\ (Plain(e) <=> Plain(f))
<1>1. Alike(e, f)
  BY SameID
<1>2. HasCredentials(e.cfg) <=> HasCredentials(f.cfg)
  BY <1>1 DEF Alike, HasCredentials
<1>3. e.type = f.type /\ e.type \in Types
  BY <1>1 DEF Alike, SpecOK
<1> DEFINE oe == Outbound(e)
           of == Outbound(f)
           user(o) == [k \in DOMAIN o.user |-> IF k = "method" THEN Lower(o.user[k]) ELSE o.user[k]]
           stream(o) == IF o.protocol \notin StreamTypes THEN <<>>
                        ELSE <<o.stream.network, o.stream.tls>>
           ws(o) == IF o.protocol \in StreamTypes /\ o.stream.network = "ws"
                      THEN <<o.stream.ws[1], HeadersSeen(o.stream.ws[2])>> ELSE <<>>
<1>4. \A s : /\ Outbound(s).protocol = s.type /\ Outbound(s).address = s.server
             /\ Outbound(s).port = s.port
             /\ Outbound(s).user = (IF s.type \in {"socks5", "http"} /\ ~ HasCredentials(s.cfg) THEN <<>>
                                    ELSE [k \in DOMAIN s.cfg \ StreamKeys |-> s.cfg[k]])
             /\ s.type \in StreamTypes => Outbound(s).stream = StreamSettings(s.cfg)
  BY DEF Outbound
<1>5. user(oe) = user(of)
  <2>1. CASE e.type \in {"socks5", "http"} /\ ~ HasCredentials(e.cfg)
    BY <1>2, <1>3, <1>4, <2>1
  <2>2. CASE ~ (e.type \in {"socks5", "http"} /\ ~ HasCredentials(e.cfg))
    <3> DEFINE keys == DOMAIN e.cfg \ StreamKeys
    <3>1. keys = DOMAIN f.cfg \ StreamKeys
      BY <1>1 DEF Alike
    <3>2. oe.user = [k \in keys |-> e.cfg[k]] /\ of.user = [k \in keys |-> f.cfg[k]]
      BY <1>2, <1>3, <1>4, <2>2, <3>1
    <3>3. \A k \in keys : IF k = "method" THEN Lower(e.cfg[k]) = Lower(f.cfg[k]) ELSE e.cfg[k] = f.cfg[k]
      BY <1>1 DEF Alike, StreamKeys
    <3> HIDE DEF keys, oe, of
    <3>4. DOMAIN oe.user = keys /\ DOMAIN of.user = keys
      BY <3>2
    <3>5. QED
      BY <3>2, <3>3, <3>4
  <2>3. QED
    BY <2>1, <2>2
<1>6. stream(oe) = stream(of) /\ ws(oe) = ws(of)
  <2>1. CASE e.type \notin StreamTypes
    BY <1>3, <1>4, <2>1
  <2>2. CASE e.type \in StreamTypes
    <3>1. StreamKeys \subseteq DOMAIN e.cfg /\ StreamKeys \subseteq DOMAIN f.cfg
      BY <1>3, <2>2 DEF SpecOK
    <3>2. \A k \in StreamKeys \ {"headers"} : e.cfg[k] = f.cfg[k]
      BY <1>1, <3>1 DEF Alike, StreamKeys
    <3>3. /\ e.cfg.network = f.cfg.network /\ e.cfg.path = f.cfg.path /\ e.cfg.tls = f.cfg.tls
          /\ e.cfg.skip = f.cfg.skip /\ e.cfg.sni = f.cfg.sni
      BY <3>2 DEF StreamKeys
    <3>4. HeadersSeen(e.cfg["headers"]) = HeadersSeen(f.cfg["headers"])
      <4>1. "headers" \in DOMAIN e.cfg /\ "headers" \in DOMAIN f.cfg
        BY <3>1 DEF StreamKeys
      <4>2. /\ IsFiniteSet(DOMAIN e.cfg["headers"]) /\ IsFiniteSet(DOMAIN f.cfg["headers"])
            /\ CanonicalHeaders(e.cfg["headers"]) = CanonicalHeaders(f.cfg["headers"])
        BY <1>1, <4>1 DEF SpecOK, Alike
      <4>3. QED
        BY <4>2, HeadersIncluded
    <3> DEFINE network(s) == IF s.cfg.network = "" THEN "tcp" ELSE Lower(s.cfg.network)
               tls(s) == IF s.cfg.tls THEN <<s.cfg.skip \/ Mode = "relaxed", s.cfg.sni>> ELSE <<>>
    <3>5. \A s : /\ StreamSettings(s.cfg).network = network(s)
                 /\ StreamSettings(s.cfg).tls = tls(s)
                 /\ network(s) = "ws" => StreamSettings(s.cfg).ws = <<s.cfg.path, s.cfg.headers>>
      BY DEF StreamSettings
    <3>6. network(e) = network(f) /\ tls(e) = tls(f)
      BY <3>3, Zenon
    <3>7. oe.stream = StreamSettings(e.cfg) /\ of.stream = StreamSettings(f.cfg)
      BY <1>3, <1>4, <2>2
    <3> HIDE DEF network, tls, oe, of
    <3>8. oe.stream.network = of.stream.network /\ oe.stream.tls = of.stream.tls
      BY <3>5, <3>6, <3>7
    <3>9. ws(oe) = ws(of)
      <4>1. CASE network(e) = "ws"
        <5>1. /\ oe.stream.ws[1] = e.cfg.path /\ oe.stream.ws[2] = e.cfg["headers"]
              /\ of.stream.ws[1] = f.cfg.path /\ of.stream.ws[2] = f.cfg["headers"]
          <6>1. oe.stream.ws = <<e.cfg.path, e.cfg["headers"]>>
            BY <3>5, <3>7, <4>1
          <6>2. of.stream.ws = <<f.cfg.path, f.cfg["headers"]>>
            BY <3>5, <3>6, <3>7, <4>1
          <6>3. QED
            BY <6>1, <6>2
        <5>2. oe.protocol = of.protocol
          BY <1>3, <1>4 DEF oe, of
        <5>3. QED
          BY <3>3, <3>4, <3>8, <5>1, <5>2
      <4>2. CASE network(e) # "ws"
        <5>1. oe.stream.network # "ws" /\ of.stream.network # "ws"
          BY <3>5, <3>6, <3>7, <4>2
        <5>2. QED
          BY <5>1
      <4>3. QED
        BY <4>1, <4>2
    <3>10. oe.protocol = of.protocol
      BY <1>3, <1>4 DEF oe, of
    <3>11. QED
      BY <3>8, <3>9, <3>10
  <2>3. QED
    BY <2>1, <2>2
<1>7. \A o : Way(o) = [protocol |-> o.protocol, server |-> Lower(o.address), port |-> o.port,
                       user |-> user(o), stream |-> stream(o), ws |-> ws(o)]
  BY DEF Way
<1>8. oe.protocol = of.protocol /\ Lower(oe.address) = Lower(of.address) /\ oe.port = of.port
  BY <1>1, <1>4 DEF Alike
<1> HIDE DEF oe, of, user, stream, ws
<1>9. Way(oe) = Way(of)
  BY <1>5, <1>6, <1>7, <1>8
<1>10. QED
  BY <1>2, <1>3, <1>9 DEF oe, of, Plain

\* Two nodes that lead the same way through a SOCKS5 server.
LEMMA SocksTwins ==
  ASSUME NEW e, NEW f, SpecOK(e), SpecOK(f), StableNodeID(e) # StableNodeID(f),
         e.type = "socks5", Way(Outbound(e)) = Way(Outbound(f))
  PROVE  {StableNodeID(e).cfg, StableNodeID(f).cfg} = {<<>>, [username |-> "", password |-> ""]}
<1> DEFINE lowered(u) == [k \in DOMAIN u |-> IF k = "method" THEN Lower(u[k]) ELSE u[k]]
           user(s) == IF ~ HasCredentials(s.cfg) THEN <<>>
                      ELSE [k \in DOMAIN s.cfg \ StreamKeys |-> s.cfg[k]]
<1>1. \A s : s.type = "socks5" =>
        /\ Way(Outbound(s)).protocol = "socks5" /\ Way(Outbound(s)).server = Lower(s.server)
        /\ Way(Outbound(s)).port = s.port /\ Way(Outbound(s)).user = lowered(user(s))
  <2>1. \A o : /\ Way(o).protocol = o.protocol /\ Way(o).server = Lower(o.address)
               /\ Way(o).port = o.port /\ Way(o).user = lowered(o.user)
    BY DEF Way
  <2>2. \A s : s.type = "socks5" =>
          /\ Outbound(s).protocol = "socks5" /\ Outbound(s).address = s.server
          /\ Outbound(s).port = s.port /\ Outbound(s).user = user(s)
    BY DEF Outbound
  <2> HIDE DEF lowered, user
  <2>3. QED
    BY <2>1, <2>2
<1>2. Way(Outbound(f)).protocol = f.type
  BY DEF Way, Outbound
<1>3. f.type = "socks5" /\ Lower(e.server) = Lower(f.server) /\ e.port = f.port
  <2> HIDE DEF lowered, user
  <2>1. f.type = "socks5"
    BY <1>1, <1>2
  <2>2. QED
    BY <1>1, <2>1
<1>4. ASSUME NEW s, SpecOK(s), s.type = "socks5"
      PROVE  /\ DOMAIN s.cfg = {} \/ DOMAIN s.cfg = {"username", "password"}
             /\ DOMAIN s.cfg = {} =>
                  ~ HasCredentials(s.cfg) /\ StableNodeID(s).cfg = <<>>
             /\ ~ HasCredentials(s.cfg) /\ DOMAIN s.cfg # {} =>
                  /\ s.cfg["username"] = "" /\ s.cfg["password"] = ""
                  /\ StableNodeID(s).cfg = [username |-> "", password |-> ""]
             /\ HasCredentials(s.cfg) =>
                  /\ DOMAIN lowered(user(s)) = {"username", "password"}
                  /\ lowered(user(s))["username"] = s.cfg["username"]
                  /\ lowered(user(s))["password"] = s.cfg["password"]
             /\ ~ HasCredentials(s.cfg) => DOMAIN lowered(user(s)) = {}
  <2>1. DOMAIN s.cfg = {} \/ DOMAIN s.cfg = {"username", "password"}
    BY <1>4 DEF SpecOK
  <2> DEFINE id == StableNodeID(s).cfg
  <2>2. id = [k \in DOMAIN s.cfg |->
                CASE k = "headers" -> CanonicalHeaders(s.cfg[k])
                  [] k = "method" -> Lower(s.cfg[k])
                  [] OTHER -> s.cfg[k]]
    BY DEF StableNodeID
  <2>3. DOMAIN s.cfg = {} => ~ HasCredentials(s.cfg) /\ id = <<>>
    <3>1. DOMAIN s.cfg = {} => ~ HasCredentials(s.cfg)
      BY DEF HasCredentials
    <3>2. ASSUME DOMAIN s.cfg = {} PROVE id = <<>>
      <4>1. DOMAIN id = {} /\ id = [k \in 1 .. 0 |-> id[k]]
        BY <2>2, <3>2
      <4> HIDE DEF id
      <4>2. DOMAIN id = 1 .. 0
        BY <4>1
      <4>3. IsSeq(id) /\ Len(id) = 0
        BY <4>1, <4>2, FcnIsSeq
      <4>4. QED
        BY <4>1, <4>3, NothingInIt DEF ToSet
    <3>3. QED
      BY <3>1, <3>2
  <2>4. ASSUME ~ HasCredentials(s.cfg), DOMAIN s.cfg # {}
        PROVE  /\ s.cfg["username"] = "" /\ s.cfg["password"] = ""
               /\ id = [username |-> "", password |-> ""]
    <3>1. DOMAIN s.cfg = {"username", "password"}
      BY <2>1, <2>4
    <3>2. s.cfg["username"] = "" /\ s.cfg["password"] = ""
      BY <2>4, <3>1 DEF HasCredentials
    <3>3. /\ DOMAIN id = {"username", "password"} /\ id = [k \in {"username", "password"} |-> id[k]]
          /\ id["username"] = "" /\ id["password"] = ""
      BY <2>2, <3>1, <3>2
    <3> HIDE DEF id
    <3>4. id = [username |-> "", password |-> ""]
      BY <3>3
    <3>5. QED
      BY <3>2, <3>4
  <2>5. ASSUME HasCredentials(s.cfg)
        PROVE  /\ DOMAIN lowered(user(s)) = {"username", "password"}
               /\ lowered(user(s))["username"] = s.cfg["username"]
               /\ lowered(user(s))["password"] = s.cfg["password"]
    <3>1. DOMAIN s.cfg = {"username", "password"}
      BY <2>1, <2>3, <2>5
    <3>2. DOMAIN s.cfg \ StreamKeys = {"username", "password"}
      BY <3>1 DEF StreamKeys
    <3>3. user(s) = [k \in {"username", "password"} |-> s.cfg[k]]
      BY <2>5, <3>2
    <3> HIDE DEF user
    <3>4. QED
      BY <3>3
  <2>6. ~ HasCredentials(s.cfg) => DOMAIN lowered(user(s)) = {}
    OBVIOUS
  <2>7. QED
    BY <2>1, <2>3, <2>4, <2>5, <2>6
<1> HIDE DEF lowered, user
<1>5. lowered(user(e)) = lowered(user(f))
  BY <1>1, <1>3
<1>6. HasCredentials(e.cfg) <=> HasCredentials(f.cfg)
  <2>1. {"username", "password"} # {}
    OBVIOUS
  <2>2. QED
    BY <1>3, <1>4, <1>5, <2>1
<1>7. ~ Alike(e, f)
  BY SameID
<1>8. ~ HasCredentials(e.cfg)
  <2> SUFFICES ASSUME HasCredentials(e.cfg) PROVE FALSE
    OBVIOUS
  <2>1. DOMAIN e.cfg = {"username", "password"} /\ DOMAIN f.cfg = {"username", "password"}
    BY <1>3, <1>4, <1>6
  <2>2. e.cfg["username"] = f.cfg["username"] /\ e.cfg["password"] = f.cfg["password"]
    BY <1>3, <1>4, <1>5, <1>6
  <2>3. Alike(e, f)
    BY <1>3, <2>1, <2>2 DEF Alike
  <2>4. QED
    BY <1>7, <2>3
<1>9. DOMAIN e.cfg # DOMAIN f.cfg
  <2> SUFFICES ASSUME DOMAIN e.cfg = DOMAIN f.cfg PROVE FALSE
    OBVIOUS
  <2>1. CASE DOMAIN e.cfg = {}
    BY <1>3, <1>7, <2>1 DEF Alike
  <2>2. CASE DOMAIN e.cfg = {"username", "password"}
    <3>1. /\ e.cfg["username"] = f.cfg["username"] /\ e.cfg["password"] = f.cfg["password"]
      BY <1>3, <1>4, <1>6, <1>8, <2>2
    <3>2. Alike(e, f)
      BY <1>3, <2>2, <3>1 DEF Alike
    <3>3. QED
      BY <1>7, <3>2
  <2>3. QED
    BY <1>4, <2>1, <2>2
<1>10. QED
  BY <1>3, <1>4, <1>6, <1>8, <1>9

-----------------------------------------------------------------------------
(* What the documents come to, as sets.                                      *)

\* The proxies of one document, the addresses of one.
ClashOf(doc) == {ParseProxy(r) : r \in {p \in ToSet(doc) : Parses(p)}}
AddrsOf(doc) == {l.addr : l \in ToSet(doc)}

LEMMA ParseYAMLIs ==
  ASSUME NEW doc, IsSeq(doc)
  PROVE  /\ IsSeq(ParseYAML(doc)) /\ ToSet(ParseYAML(doc)) \subseteq ClashOf(doc)
         /\ \A e \in ClashOf(doc) :
              \E f \in ToSet(ParseYAML(doc)) : StableNodeID(f) = StableNodeID(e)
<1> DEFINE places == {i \in DOMAIN doc : Parses(doc[i])}
           usable == At(doc, places)
           parsed == [i \in DOMAIN usable |-> ParseProxy(usable[i])]
<1>1. ParseYAML(doc) = Deduplicate(parsed)
  BY DEF ParseYAML
<1>2. places \in SUBSET DOMAIN doc
  OBVIOUS
<1>3. {doc[i] : i \in places} = {p \in ToSet(doc) : Parses(p)}
  BY DEF ToSet
<1> HIDE DEF places
<1>4. IsSeq(usable) /\ ToSet(usable) = {p \in ToSet(doc) : Parses(p)}
  BY <1>2, <1>3, AtIsSeq
<1> HIDE DEF usable
<1>5. parsed = [i \in DOMAIN usable |-> parsed[i]]
  OBVIOUS
<1>6. IsSeq(parsed) /\ ToSet(parsed) = {parsed[i] : i \in DOMAIN usable}
  <2> HIDE DEF parsed
  <2>1. QED
    BY <1>4, <1>5, MapIsSeq
<1>7. {parsed[i] : i \in DOMAIN usable} = {ParseProxy(r) : r \in ToSet(usable)}
  BY DEF ToSet
<1>8. ToSet(parsed) = ClashOf(doc)
  BY <1>4, <1>6, <1>7 DEF ClashOf
<1> HIDE DEF parsed
<1>9. QED
  BY <1>1, <1>6, <1>8, DeduplicateKeepsOne

LEMMA AddrsOfLinesIs ==
  ASSUME NEW doc, IsSeq(doc)
  PROVE  IsSeq(AddrsOfLines(doc)) /\ ToSet(AddrsOfLines(doc)) = AddrsOf(doc)
<1> DEFINE m == AddrsOfLines(doc)
<1>1. m = [i \in DOMAIN doc |-> doc[i].addr]
  BY DEF AddrsOfLines
<1> HIDE DEF m
<1>2. m = [i \in DOMAIN doc |-> m[i]]
  BY <1>1
<1>3. IsSeq(m) /\ ToSet(m) = {m[i] : i \in DOMAIN doc}
  BY <1>2, MapIsSeq
<1>4. {m[i] : i \in DOMAIN doc} = AddrsOf(doc)
  BY <1>1 DEF AddrsOf, ToSet
<1>5. QED
  BY <1>3, <1>4 DEF m

LEMMA AddrsOfSpecsIs ==
  ASSUME NEW q, IsSeq(q)
  PROVE  /\ IsSeq(AddrsOfSpecs(q))
         /\ ToSet(AddrsOfSpecs(q)) = {AddrOf(e) : e \in {c \in ToSet(q) : Plain(c)}}
<1> DEFINE places == {i \in DOMAIN q : Plain(q[i])}
           usable == At(q, places)
           m == [i \in DOMAIN usable |-> AddrOf(usable[i])]
<1>1. AddrsOfSpecs(q) = m
  BY DEF AddrsOfSpecs
<1>2. places \in SUBSET DOMAIN q
  OBVIOUS
<1>3. {q[i] : i \in places} = {c \in ToSet(q) : Plain(c)}
  BY DEF ToSet
<1> HIDE DEF places
<1>4. IsSeq(usable) /\ ToSet(usable) = {c \in ToSet(q) : Plain(c)}
  BY <1>2, <1>3, AtIsSeq
<1> HIDE DEF usable
<1>5. m = [i \in DOMAIN usable |-> m[i]]
  OBVIOUS
<1>6. IsSeq(m) /\ ToSet(m) = {m[i] : i \in DOMAIN usable}
  <2> HIDE DEF m
  <2>1. QED
    BY <1>4, <1>5, MapIsSeq
<1>7. {m[i] : i \in DOMAIN usable} = {AddrOf(e) : e \in ToSet(usable)}
  BY DEF ToSet
<1>8. QED
  BY <1>1, <1>4, <1>6, <1>7

LEMMA SpecsOfAddrsIs ==
  ASSUME NEW as, IsSeq(as)
  PROVE  /\ IsSeq(SpecsOfAddrs(as))
         /\ ToSet(SpecsOfAddrs(as)) = {SpecFromAddr(a) : a \in {b \in ToSet(as) : Splits(b)}}
<1> DEFINE places == {i \in DOMAIN as : Splits(as[i])}
           good == At(as, places)
           m == [i \in DOMAIN good |-> SpecFromAddr(good[i])]
<1>1. SpecsOfAddrs(as) = m
  BY DEF SpecsOfAddrs
<1>2. places \in SUBSET DOMAIN as
  OBVIOUS
<1>3. {as[i] : i \in places} = {b \in ToSet(as) : Splits(b)}
  BY DEF ToSet
<1> HIDE DEF places
<1>4. IsSeq(good) /\ ToSet(good) = {b \in ToSet(as) : Splits(b)}
  BY <1>2, <1>3, AtIsSeq
<1> HIDE DEF good
<1>5. m = [i \in DOMAIN good |-> m[i]]
  OBVIOUS
<1>6. IsSeq(m) /\ ToSet(m) = {m[i] : i \in DOMAIN good}
  <2> HIDE DEF m
  <2>1. QED
    BY <1>4, <1>5, MapIsSeq
<1>7. {m[i] : i \in DOMAIN good} = {SpecFromAddr(a) : a \in ToSet(good)}
  BY DEF ToSet
<1>8. QED
  BY <1>1, <1>4, <1>6, <1>7

-----------------------------------------------------------------------------
(* A load: the specifications sp and the addresses as stand for the proxies  *)
(* C of the Clash documents and the addresses R of the lists, with one       *)
(* specification of each ID and one address of each ID without credentials.  *)

ClashIn(docs, sources) ==
  UNION {ClashOf(docs[i]) : i \in {j \in DOMAIN docs : SourceOf[sources[j]].type = "clash_yaml"}}
RawIn(docs, sources) ==
  UNION {AddrsOf(docs[i]) : i \in {j \in DOMAIN docs : SourceOf[sources[j]].type = "raw_list"}}
ListIn(docs) == UNION {AddrsOf(docs[i]) : i \in DOMAIN docs}

StandFor(sp, as, C, R) ==
  /\ IsSeq(sp) /\ IsSeq(as)
  /\ ToSet(sp) \subseteq C
  /\ \A e \in C : \E f \in ToSet(sp) : StableNodeID(f) = StableNodeID(e)
  /\ R \subseteq ToSet(as)
  /\ ToSet(as) \subseteq R \cup {AddrOf(e) : e \in {c \in C : Plain(c)}}
  /\ \A e \in C : Plain(e) =>
       \E f \in C : /\ Plain(f) /\ AddrOf(f) \in ToSet(as)
                    /\ StableNodeID(f) = StableNodeID(e)

LEMMA NothingRead ==
  /\ \A srcs : ClashIn(<<>>, srcs) = {} /\ RawIn(<<>>, srcs) = {}
  /\ ListIn(<<>>) = {}
  /\ StandFor(<<>>, <<>>, {}, {})
BY EmptyIsSeq DEF ClashIn, RawIn, ListIn, StandFor

LEMMA ReadMore ==
  ASSUME NEW docs, IsSeq(docs), NEW doc, NEW srcs
  PROVE  LET type == SourceOf[srcs[Len(docs) + 1]].type
             more == Append(docs, doc)
         IN /\ ClashIn(more, srcs) = ClashIn(docs, srcs) \cup IF type = "clash_yaml" THEN ClashOf(doc) ELSE {}
            /\ RawIn(more, srcs) = RawIn(docs, srcs) \cup IF type = "raw_list" THEN AddrsOf(doc) ELSE {}
            /\ ListIn(more) = ListIn(docs) \cup AddrsOf(doc)
<1> DEFINE more == Append(docs, doc)
           n == Len(docs) + 1
<1>1. docs \in Seq(ToSet(docs) \cup {doc})
  BY SeqMonotonic DEF IsSeq
<1>2. DOMAIN docs = 1 .. Len(docs) /\ Len(docs) \in Nat
  BY <1>1
<1>3. /\ DOMAIN more = DOMAIN docs \cup {n} /\ n \notin DOMAIN docs
      /\ more[n] = doc /\ \A i \in DOMAIN docs : more[i] = docs[i]
  <2>1. DOMAIN more = 1 .. Len(docs) + 1
    BY <1>1, AppendProperties, LenProperties
  <2>2. 1 .. Len(docs) + 1 = 1 .. Len(docs) \cup {n} /\ n \notin 1 .. Len(docs)
    BY <1>2
  <2>3. more[n] = doc /\ \A i \in 1 .. Len(docs) : more[i] = docs[i]
    BY <1>1, AppendProperties
  <2>4. QED
    BY <1>2, <2>1, <2>2, <2>3
<1> HIDE DEF more, n
<1>4. ListIn(more) = ListIn(docs) \cup AddrsOf(doc)
  BY <1>3 DEF ListIn
<1>5. ClashIn(more, srcs) = ClashIn(docs, srcs) \cup
        IF SourceOf[srcs[n]].type = "clash_yaml" THEN ClashOf(doc) ELSE {}
  BY <1>3 DEF ClashIn
<1>6. RawIn(more, srcs) = RawIn(docs, srcs) \cup
        IF SourceOf[srcs[n]].type = "raw_list" THEN AddrsOf(doc) ELSE {}
  BY <1>3 DEF RawIn
<1>7. QED
  BY <1>4, <1>5, <1>6 DEF more, n

LEMMA LinesTaken ==
  ASSUME NEW sp, NEW as, NEW C, NEW R, StandFor(sp, as, C, R), NEW doc, IsSeq(doc)
  PROVE  StandFor(sp, Distinct(as \o AddrsOfLines(doc)), C, R \cup AddrsOf(doc))
<1> DEFINE bs == Distinct(as \o AddrsOfLines(doc))
<1>1. IsSeq(as)
  BY DEF StandFor
<1>2. IsSeq(AddrsOfLines(doc)) /\ ToSet(AddrsOfLines(doc)) = AddrsOf(doc)
  BY AddrsOfLinesIs
<1>3. IsSeq(bs) /\ ToSet(bs) = ToSet(as) \cup AddrsOf(doc)
  BY <1>1, <1>2, ConcatToSet, DistinctIs
<1> HIDE DEF bs
<1>4. StandFor(sp, bs, C, R \cup AddrsOf(doc))
  BY <1>3 DEF StandFor
<1>5. QED
  BY <1>4 DEF bs

LEMMA ProxiesTaken ==
  ASSUME NEW sp, NEW as, NEW C, NEW R, StandFor(sp, as, C, R), NEW doc, IsSeq(doc),
         C \cup ClashOf(doc) \subseteq ClashEntries
  PROVE  StandFor(Deduplicate(sp \o ParseYAML(doc)),
                  Distinct(as \o AddrsOfSpecs(ParseYAML(doc))), C \cup ClashOf(doc), R)
<1> DEFINE found == ParseYAML(doc)
           tp == Deduplicate(sp \o found)
           bs == Distinct(as \o AddrsOfSpecs(found))
           D == C \cup ClashOf(doc)
<1>1. /\ IsSeq(found) /\ ToSet(found) \subseteq ClashOf(doc)
      /\ \A e \in ClashOf(doc) : \E f \in ToSet(found) : StableNodeID(f) = StableNodeID(e)
  BY ParseYAMLIs
<1>2. /\ IsSeq(sp) /\ IsSeq(as) /\ ToSet(sp) \subseteq C
      /\ \A e \in C : \E f \in ToSet(sp) : StableNodeID(f) = StableNodeID(e)
      /\ R \subseteq ToSet(as)
      /\ ToSet(as) \subseteq R \cup {AddrOf(e) : e \in {c \in C : Plain(c)}}
      /\ \A e \in C : Plain(e) =>
           \E f \in C : Plain(f) /\ AddrOf(f) \in ToSet(as) /\ StableNodeID(f) = StableNodeID(e)
  BY DEF StandFor
<1> HIDE DEF found
<1>3. IsSeq(sp \o found) /\ ToSet(sp \o found) = ToSet(sp) \cup ToSet(found)
  BY <1>1, <1>2, ConcatToSet
<1>4. /\ IsSeq(tp) /\ ToSet(tp) \subseteq ToSet(sp) \cup ToSet(found)
      /\ \A e \in ToSet(sp) \cup ToSet(found) : \E f \in ToSet(tp) : StableNodeID(f) = StableNodeID(e)
  BY <1>3, DeduplicateKeepsOne
<1>5. /\ IsSeq(bs)
      /\ ToSet(bs) = ToSet(as) \cup {AddrOf(e) : e \in {c \in ToSet(found) : Plain(c)}}
  <2>1. /\ IsSeq(AddrsOfSpecs(found))
        /\ ToSet(AddrsOfSpecs(found)) = {AddrOf(e) : e \in {c \in ToSet(found) : Plain(c)}}
    BY <1>1, AddrsOfSpecsIs
  <2>2. /\ IsSeq(as \o AddrsOfSpecs(found))
        /\ ToSet(as \o AddrsOfSpecs(found)) = ToSet(as) \cup ToSet(AddrsOfSpecs(found))
    BY <1>2, <2>1, ConcatToSet
  <2>3. QED
    BY <2>1, <2>2, DistinctIs
<1> HIDE DEF tp, bs
<1>6. \A e \in D : \E f \in ToSet(tp) : StableNodeID(f) = StableNodeID(e)
  <2> SUFFICES ASSUME NEW e \in D PROVE \E f \in ToSet(tp) : StableNodeID(f) = StableNodeID(e)
    OBVIOUS
  <2>1. PICK f \in ToSet(sp) \cup ToSet(found) : StableNodeID(f) = StableNodeID(e)
    BY <1>1, <1>2
  <2>2. QED
    BY <1>4, <2>1
<1>7. ASSUME NEW e \in D, Plain(e)
      PROVE \E f \in D : Plain(f) /\ AddrOf(f) \in ToSet(bs) /\ StableNodeID(f) = StableNodeID(e)
  <2>1. CASE e \in C
    BY <1>2, <1>5, <1>7, <2>1
  <2>2. CASE e \in ClashOf(doc)
    <3>1. PICK f \in ToSet(found) : StableNodeID(f) = StableNodeID(e)
      BY <1>1, <2>2
    <3>2. f \in D /\ SpecOK(e) /\ SpecOK(f)
      BY <1>1, ParsedIsSpec
    <3>3. Plain(f)
      BY <1>7, <3>1, <3>2, SameIDSameWay
    <3>4. QED
      BY <1>5, <3>1, <3>2, <3>3
  <2>3. QED
    BY <2>1, <2>2
<1>8. ToSet(tp) \subseteq D /\ R \subseteq ToSet(bs)
  BY <1>1, <1>2, <1>4, <1>5
<1>9. ToSet(bs) \subseteq R \cup {AddrOf(e) : e \in {c \in D : Plain(c)}}
  BY <1>1, <1>2, <1>5
<1>10. StandFor(tp, bs, D, R)
  BY <1>4, <1>5, <1>6, <1>7, <1>8, <1>9 DEF StandFor
<1>11. QED
  BY <1>10 DEF tp, bs, found

-----------------------------------------------------------------------------
(* What the nodes of a load are: all is UpstreamSpecs, from the proxies C    *)
(* and the addresses R of the typed sources and the addresses L of the       *)
(* lists.                                                                    *)

\* The specifications of addresses, and of those of proxies without credentials.
FromAddrs(A) == {SpecFromAddr(a) : a \in {b \in A : Splits(b)}}
NodesOf(C, R, L) == C \cup FromAddrs(R \cup L) \cup FromAddrs({AddrOf(e) : e \in {c \in C : Plain(c)}})

LEMMA AllSpecs ==
  ASSUME NEW sp, NEW as, NEW C, NEW R, StandFor(sp, as, C, R), C \subseteq ClashEntries,
         NEW fs, IsSeq(fs)
  PROVE  LET all == Deduplicate(sp \o SpecsOfAddrs(as) \o SpecsOfAddrs(fs))
         IN /\ IsSeq(all) /\ ToSet(all) \subseteq NodesOf(C, R, ToSet(fs))
            /\ \A e \in NodesOf(C, R, ToSet(fs)) : \E f \in ToSet(all) : StableNodeID(f) = StableNodeID(e)
            /\ \A m, n \in DOMAIN all : m # n => StableNodeID(all[m]) # StableNodeID(all[n])
<1> DEFINE L == ToSet(fs)
           both == sp \o SpecsOfAddrs(as) \o SpecsOfAddrs(fs)
<1>1. /\ IsSeq(sp) /\ IsSeq(as) /\ ToSet(sp) \subseteq C
      /\ \A e \in C : \E f \in ToSet(sp) : StableNodeID(f) = StableNodeID(e)
      /\ R \subseteq ToSet(as)
      /\ ToSet(as) \subseteq R \cup {AddrOf(e) : e \in {c \in C : Plain(c)}}
      /\ \A e \in C : Plain(e) =>
           \E f \in C : Plain(f) /\ AddrOf(f) \in ToSet(as) /\ StableNodeID(f) = StableNodeID(e)
  BY DEF StandFor
<1>2. IsSeq(SpecsOfAddrs(as)) /\ ToSet(SpecsOfAddrs(as)) = FromAddrs(ToSet(as))
  BY <1>1, SpecsOfAddrsIs DEF FromAddrs
<1>3. IsSeq(SpecsOfAddrs(fs)) /\ ToSet(SpecsOfAddrs(fs)) = FromAddrs(L)
  BY SpecsOfAddrsIs DEF FromAddrs
<1>4. /\ IsSeq(sp \o SpecsOfAddrs(as))
      /\ ToSet(sp \o SpecsOfAddrs(as)) = ToSet(sp) \cup FromAddrs(ToSet(as))
  BY <1>1, <1>2, ConcatToSet
<1>5. IsSeq(both) /\ ToSet(both) = ToSet(sp) \cup FromAddrs(ToSet(as)) \cup FromAddrs(L)
  BY <1>3, <1>4, ConcatToSet, ZenonT(60)
<1> HIDE DEF both, L
<1>6. /\ IsSeq(Deduplicate(both)) /\ ToSet(Deduplicate(both)) \subseteq ToSet(both)
      /\ \A e \in ToSet(both) : \E f \in ToSet(Deduplicate(both)) : StableNodeID(f) = StableNodeID(e)
      /\ \A m, n \in DOMAIN Deduplicate(both) :
           m # n => StableNodeID(Deduplicate(both)[m]) # StableNodeID(Deduplicate(both)[n])
  BY <1>5, DeduplicateKeepsOne
<1>7. ToSet(both) \subseteq NodesOf(C, R, L)
  BY <1>1, <1>5 DEF NodesOf, FromAddrs
<1>8. ASSUME NEW e \in NodesOf(C, R, L) PROVE \E f \in ToSet(both) : StableNodeID(f) = StableNodeID(e)
  <2>1. CASE e \in C
    BY <1>1, <1>5, <2>1
  <2>2. CASE e \in FromAddrs(R \cup L)
    BY <1>1, <1>5, <2>2 DEF FromAddrs
  <2>3. CASE e \in FromAddrs({AddrOf(c) : c \in {d \in C : Plain(d)}})
    <3>1. PICK c \in C : Plain(c) /\ Splits(AddrOf(c)) /\ e = SpecFromAddr(AddrOf(c))
      BY <2>3 DEF FromAddrs
    <3>2. PICK d \in C : Plain(d) /\ AddrOf(d) \in ToSet(as) /\ StableNodeID(d) = StableNodeID(c)
      BY <1>1, <3>1
    <3>3. Lower(d.server) = Lower(c.server) /\ d.port = c.port
      BY <3>2, SameID DEF Alike
    <3>4. /\ AddrOf(c).host = c.server /\ AddrOf(c).port = c.port
          /\ AddrOf(d).host = d.server /\ AddrOf(d).port = d.port
      BY DEF AddrOf
    <3>5. Splits(AddrOf(d))
      <4>1. \A x : x \in NoPort <=> Lower(x) \in NoPort
        BY NodeAssumption DEF Lower
      <4>2. QED
        BY <3>1, <3>3, <3>4, <4>1 DEF Splits
    <3>6. Alike(SpecFromAddr(AddrOf(d)), e)
      BY <3>1, <3>3, <3>4, AddressIsSpec DEF Alike
    <3>7. SpecFromAddr(AddrOf(d)) \in ToSet(both)
      BY <1>5, <3>2, <3>5 DEF FromAddrs
    <3>8. QED
      BY <3>6, <3>7, SameID
  <2>4. QED
    BY <2>1, <2>2, <2>3 DEF NodesOf
<1>9. ASSUME NEW e \in NodesOf(C, R, L)
      PROVE \E f \in ToSet(Deduplicate(both)) : StableNodeID(f) = StableNodeID(e)
  <2>1. PICK f \in ToSet(both) : StableNodeID(f) = StableNodeID(e)
    BY <1>8
  <2>2. QED
    BY <1>6, <2>1
<1>10. ToSet(Deduplicate(both)) \subseteq NodesOf(C, R, L)
  BY <1>6, <1>7
<1>11. QED
  BY <1>6, <1>9, <1>10 DEF both, L

LEMMA NodesAreEntries ==
  ASSUME NEW C, C \subseteq ClashEntries, NEW R, R \subseteq ListedAddrs, NEW L, L \subseteq ListedAddrs
  PROVE  NodesOf(C, R, L) \subseteq Entries
BY DEF NodesOf, FromAddrs, Entries, Addresses

\* A configuration: nodes of entries, in the strict order of the hashes.
ConfigOf(c, E) ==
  /\ IsSeq(c) /\ ToSet(c) = {Node(e) : e \in E}
  /\ \A m, n \in DOMAIN c : m < n => HashOrder(c[m].tag) < HashOrder(c[n].tag)

LEMMA SpecsGenerated ==
  ASSUME NEW all, IsSeq(all), ToSet(all) \subseteq Entries,
         \A m, n \in DOMAIN all : m # n => StableNodeID(all[m]) # StableNodeID(all[n])
  PROVE  ConfigOf(Generate(all), ToSet(all))
<1>1. \A n \in DOMAIN all : all[n] \in Entries
  BY IsSeqProperties
<1>2. /\ \A i \in DOMAIN all : HashOrder(StableNodeID(all[i])) \in Int
      /\ \A i, j \in DOMAIN all :
           i # j => HashOrder(StableNodeID(all[i])) # HashOrder(StableNodeID(all[j]))
  BY <1>1, EntriesAssumption
<1>3. QED
  BY <1>2, GenerateIs DEF ConfigOf

LEMMA TagsDiffer ==
  ASSUME NEW c, NEW E, E \subseteq Entries, ConfigOf(c, E)
  PROVE  /\ \A i \in DOMAIN c : \E e \in E : c[i] = Node(e) /\ c[i].tag = StableNodeID(e)
         /\ \A i, j \in DOMAIN c : i # j => c[i].tag # c[j].tag
<1>1. \A i \in DOMAIN c : c[i] \in ToSet(c)
  BY IsSeqProperties DEF ConfigOf
<1>2. \A e : Node(e).tag = StableNodeID(e)
  BY DEF Node
<1>3. \A i \in DOMAIN c : \E e \in E : c[i] = Node(e) /\ c[i].tag = StableNodeID(e)
  BY <1>1, <1>2 DEF ConfigOf
<1>4. \A i \in DOMAIN c : HashOrder(c[i].tag) \in Int /\ i \in Int
  <2>1. \A i \in DOMAIN c : HashOrder(c[i].tag) \in Int
    BY <1>3, EntriesAssumption
  <2>2. DOMAIN c = 1 .. Len(c)
    BY IsSeqProperties DEF ConfigOf
  <2>3. QED
    BY <2>1, <2>2
<1>5. ASSUME NEW i \in DOMAIN c, NEW j \in DOMAIN c, i < j PROVE c[i].tag # c[j].tag
  <2>1. HashOrder(c[i].tag) < HashOrder(c[j].tag)
    BY <1>5 DEF ConfigOf
  <2>2. \A x \in Int : ~ (x < x)
    OBVIOUS
  <2>3. QED
    BY <1>4, <2>1, <2>2
<1>6. \A i, j \in Int : i = j \/ i < j \/ j < i
  OBVIOUS
<1>7. QED
  BY <1>3, <1>4, <1>5, <1>6

-----------------------------------------------------------------------------
(* The inductive invariant: what has been read of the documents, what stands *)
(* for it, and what the configuration holds.                                 *)

CfgOK ==
  cfg \in [xray : BOOLEAN, fallback : BOOLEAN, concurrency : Nat \ {0},
           sources : Seq(DOMAIN SourceOf), lists : Seq(DOMAIN Lists)]

ReadOK ==
  /\ IsSeq(typed) /\ IsSeq(listed)
  /\ ClashIn(typed, cfg.sources) \subseteq ClashEntries
  /\ RawIn(typed, cfg.sources) \subseteq ListedAddrs
  /\ ListIn(listed) \subseteq ListedAddrs

LoadOK ==
  /\ StandFor(specs, addrs, ClashIn(typed, cfg.sources), RawIn(typed, cfg.sources))
  /\ IsSeq(fetched) /\ ToSet(fetched) = ListIn(listed)

ConfigOK == config = <<>> \/ \E E \in SUBSET Entries : ConfigOf(config, E)

CheckOK ==
  /\ IsSeq(passed)
  /\ waiting \cup running \cup ToSet(passed) \subseteq Addresses
  /\ stage # "check" => waiting = {} /\ running = {} /\ passed = <<>>

SourcesInv == TypeOK /\ CfgOK /\ ReadOK /\ LoadOK /\ ConfigOK /\ CheckOK

LEMMA SourcesInit ==
  Init => SourcesInv
<1> SUFFICES ASSUME Init PROVE SourcesInv
  OBVIOUS
<1>1. CfgOK
  <2>1. PICK w \in Written : cfg = ApplyDefaults(w)
    BY DEF Init
  <2>2. w \in [xray : BOOLEAN, fallback : {"unset", "true", "false"}, concurrency : Int,
               sources : Seq(DOMAIN SourceOf), lists : Seq(DOMAIN Lists)]
    BY SourcesAssumption
  <2> DEFINE fallback == w.fallback # "false"
             concurrency == IF w.concurrency <= 0 THEN 200 ELSE w.concurrency
  <2>3. cfg = [w EXCEPT !.concurrency = concurrency, !.fallback = fallback]
    BY <2>1 DEF ApplyDefaults, DefaultConcurrency, FallbackDefault
  <2>4. fallback \in BOOLEAN /\ concurrency \in Nat \ {0}
    BY <2>2
  <2> HIDE DEF fallback, concurrency
  <2>5. QED
    BY <2>2, <2>3, <2>4 DEF CfgOK
<1>2. /\ path = "idle" /\ stage = "load" /\ typed = <<>> /\ addrs = <<>> /\ specs = <<>>
      /\ listed = <<>> /\ fetched = <<>> /\ config = <<>>
      /\ waiting = {} /\ running = {} /\ passed = <<>>
  BY DEF Init
<1>3. TypeOK
  <2>1. cfg.concurrency \in Nat \ {0} /\ Len(cfg.sources) \in Nat /\ Len(cfg.lists) \in Nat
    BY <1>1 DEF CfgOK
  <2>2. Len(typed) = 0 /\ Len(listed) = 0 /\ ToSet(passed) = {}
    BY <1>2, EmptyIsSeq
  <2>3. QED
    BY <1>2, <2>1, <2>2 DEF TypeOK
<1>4. ReadOK /\ LoadOK
  BY <1>2, NothingRead, EmptyIsSeq DEF ReadOK, LoadOK
<1>5. ConfigOK /\ CheckOK
  BY <1>2, EmptyIsSeq DEF ConfigOK, CheckOK
<1>6. QED
  BY <1>1, <1>3, <1>4, <1>5 DEF SourcesInv

\* Forget, wherever the run goes from there.
LEMMA ForgetStep ==
  ASSUME SourcesInv, Forget, path' \in {"idle", "xray", "legacy"}
  PROVE  SourcesInv'
<1>1. CfgOK'
  BY DEF SourcesInv, CfgOK, Forget
<1>2. /\ stage' = "load" /\ typed' = <<>> /\ addrs' = <<>> /\ specs' = <<>>
      /\ listed' = <<>> /\ fetched' = <<>> /\ config' = <<>>
      /\ waiting' = {} /\ running' = {} /\ passed' = <<>>
  BY DEF Forget
<1>3. TypeOK'
  <2>1. cfg'.concurrency \in Nat \ {0} /\ Len(cfg'.sources) \in Nat /\ Len(cfg'.lists) \in Nat
    BY <1>1 DEF CfgOK
  <2>2. Len(typed') = 0 /\ Len(listed') = 0 /\ ToSet(passed') = {}
    BY <1>2, EmptyIsSeq
  <2>3. QED
    BY <1>2, <2>1, <2>2 DEF TypeOK
<1>4. ReadOK' /\ LoadOK'
  BY <1>2, NothingRead, EmptyIsSeq DEF ReadOK, LoadOK
<1>5. ConfigOK' /\ CheckOK'
  BY <1>2, EmptyIsSeq DEF ConfigOK, CheckOK
<1>6. QED
  BY <1>1, <1>3, <1>4, <1>5 DEF SourcesInv

LEMMA AbortStep ==
  ASSUME SourcesInv, Abort
  PROVE  SourcesInv'
BY ForgetStep DEF Abort

LEMMA RunOnceStep ==
  ASSUME SourcesInv, RunOnce
  PROVE  SourcesInv'
<1>1. /\ UNCHANGED <<cfg, stage, typed, addrs, specs, listed, fetched, config, waiting, running, passed>>
      /\ path' \in {"xray", "legacy"}
  BY DEF RunOnce, checkVars
<1>2. TypeOK'
  BY <1>1 DEF SourcesInv, TypeOK
<1>3. CfgOK' /\ ReadOK' /\ LoadOK' /\ ConfigOK' /\ CheckOK'
  BY <1>1 DEF SourcesInv, CfgOK, ReadOK, LoadOK, ConfigOK, CheckOK
<1>4. QED
  BY <1>2, <1>3 DEF SourcesInv

LEMMA DocumentIs ==
  ASSUME NEW s \in DOMAIN SourceOf, NEW d \in SourceOf[s].docs
  PROVE  /\ IsSeq(d)
         /\ SourceOf[s].type = "clash_yaml" => ClashOf(d) \subseteq ClashEntries
         /\ SourceOf[s].type = "raw_list" => AddrsOf(d) \subseteq ListedAddrs
<1>1. IsSeq(d)
  BY SourcesAssumption DEF IsSeq
<1>2. d \in Documents(SourceOf[s].type)
  BY DEF Documents
<1>3. SourceOf[s].type = "clash_yaml" => ClashOf(d) \subseteq ClashEntries
  BY <1>2 DEF ClashOf, ClashEntries
<1>4. SourceOf[s].type = "raw_list" => AddrsOf(d) \subseteq ListedAddrs
  BY <1>2 DEF AddrsOf, ListedAddrs
<1>5. QED
  BY <1>1, <1>3, <1>4

LEMMA ListIs ==
  ASSUME NEW u \in DOMAIN Lists, NEW d \in Lists[u] \cup {<<>>}
  PROVE  IsSeq(d) /\ AddrsOf(d) \subseteq ListedAddrs
<1>1. CASE d = <<>>
  BY <1>1, EmptyIsSeq DEF AddrsOf
<1>2. CASE d \in Lists[u]
  <2>1. IsSeq(d)
    BY <1>2, SourcesAssumption DEF IsSeq
  <2>2. AddrsOf(d) \subseteq ListedAddrs
    BY <1>2 DEF AddrsOf, ListedAddrs
  <2>3. QED
    BY <2>1, <2>2
<1>3. QED
  BY <1>1, <1>2

\* The next typed source, the next list.
LEMMA NextSource ==
  ASSUME SourcesInv, AtTyped
  PROVE  /\ IsSeq(typed) /\ Len(typed) \in Nat /\ Len(typed) + 1 <= Len(cfg.sources)
         /\ cfg.sources[Len(typed) + 1] \in DOMAIN SourceOf
<1>1. IsSeq(typed) /\ Len(typed) \in Nat
  BY IsSeqProperties DEF SourcesInv, ReadOK
<1>2. cfg.sources \in Seq(DOMAIN SourceOf) /\ Len(cfg.sources) \in Nat
  BY DEF SourcesInv, CfgOK
<1>3. Len(typed) <= Len(cfg.sources) /\ Len(typed) # Len(cfg.sources)
  BY DEF SourcesInv, TypeOK, AtTyped, AllTyped
<1>4. Len(typed) + 1 \in 1 .. Len(cfg.sources)
  BY <1>1, <1>2, <1>3
<1>5. QED
  BY <1>1, <1>2, <1>4, ElementOfSeq

LEMMA NextList ==
  ASSUME SourcesInv, AtListed
  PROVE  /\ IsSeq(listed) /\ Len(listed) \in Nat /\ Len(listed) + 1 <= Len(cfg.lists)
         /\ cfg.lists[Len(listed) + 1] \in DOMAIN Lists
<1>1. IsSeq(listed) /\ Len(listed) \in Nat
  BY IsSeqProperties DEF SourcesInv, ReadOK
<1>2. cfg.lists \in Seq(DOMAIN Lists) /\ Len(cfg.lists) \in Nat
  BY DEF SourcesInv, CfgOK
<1>3. Len(listed) <= Len(cfg.lists) /\ Len(listed) # Len(cfg.lists)
  BY DEF SourcesInv, TypeOK, AtListed, AllListed
<1>4. Len(listed) + 1 \in 1 .. Len(cfg.lists)
  BY <1>1, <1>2, <1>3
<1>5. QED
  BY <1>1, <1>2, <1>4, ElementOfSeq

LEMMA ReadSourceStep ==
  ASSUME SourcesInv, ReadSource
  PROVE  SourcesInv'
<1>1. PICK doc \in Source.docs :
        /\ typed' = Append(typed, doc)
        /\ IF Source.type = "raw_list" THEN TakeLines(doc) ELSE TakeProxies(doc)
  BY DEF ReadSource
<1>2. /\ AtTyped /\ Source.type \in {"raw_list", "clash_yaml"}
      /\ UNCHANGED <<cfg, path, stage, listed, fetched, config, waiting, running, passed>>
  BY DEF ReadSource, Supported, checkVars
<1>3. /\ IsSeq(typed) /\ Len(typed) \in Nat /\ Len(typed) + 1 <= Len(cfg.sources)
      /\ cfg.sources[Len(typed) + 1] \in DOMAIN SourceOf
  BY <1>2, NextSource
<1>4. /\ IsSeq(doc)
      /\ Source.type = "clash_yaml" => ClashOf(doc) \subseteq ClashEntries
      /\ Source.type = "raw_list" => AddrsOf(doc) \subseteq ListedAddrs
  BY <1>1, <1>3, DocumentIs DEF Source
<1> DEFINE C == ClashIn(typed, cfg.sources)
           R == RawIn(typed, cfg.sources)
<1>5. /\ StandFor(specs, addrs, C, R) /\ C \subseteq ClashEntries /\ R \subseteq ListedAddrs
  BY DEF SourcesInv, LoadOK, ReadOK
<1>6. /\ IsSeq(typed') /\ Len(typed') = Len(typed) + 1
      /\ ClashIn(typed', cfg.sources) = C \cup IF Source.type = "clash_yaml" THEN ClashOf(doc) ELSE {}
      /\ RawIn(typed', cfg.sources) = R \cup IF Source.type = "raw_list" THEN AddrsOf(doc) ELSE {}
  BY <1>1, <1>3, AppendIsSeq, ReadMore DEF Source
<1> HIDE DEF C, R
<1>7. StandFor(specs', addrs', ClashIn(typed', cfg.sources), RawIn(typed', cfg.sources))
  <2>1. CASE Source.type = "raw_list"
    <3>1. specs' = specs /\ addrs' = Distinct(addrs \o AddrsOfLines(doc))
      BY <1>1, <2>1 DEF TakeLines
    <3>2. StandFor(specs, addrs', C, R \cup AddrsOf(doc))
      BY <1>4, <1>5, <3>1, LinesTaken
    <3>3. ClashIn(typed', cfg.sources) = C /\ RawIn(typed', cfg.sources) = R \cup AddrsOf(doc)
      BY <1>6, <2>1
    <3>4. QED
      BY <3>1, <3>2, <3>3
  <2>2. CASE Source.type = "clash_yaml"
    <3>1. /\ specs' = Deduplicate(specs \o ParseYAML(doc))
          /\ addrs' = Distinct(addrs \o AddrsOfSpecs(ParseYAML(doc)))
      BY <1>1, <2>2 DEF TakeProxies
    <3>2. C \cup ClashOf(doc) \subseteq ClashEntries
      BY <1>4, <1>5, <2>2
    <3>3. StandFor(specs', addrs', C \cup ClashOf(doc), R)
      BY <1>4, <1>5, <3>1, <3>2, ProxiesTaken
    <3>4. ClashIn(typed', cfg.sources) = C \cup ClashOf(doc) /\ RawIn(typed', cfg.sources) = R
      BY <1>6, <2>2
    <3>5. QED
      BY <3>3, <3>4
  <2>3. QED
    BY <1>2, <2>1, <2>2
<1>8. /\ ClashIn(typed', cfg.sources) \subseteq ClashEntries
      /\ RawIn(typed', cfg.sources) \subseteq ListedAddrs
  BY <1>4, <1>5, <1>6
<1>9. LoadOK' /\ ReadOK'
  BY <1>2, <1>6, <1>7, <1>8 DEF SourcesInv, LoadOK, ReadOK
<1>10. TypeOK'
  <2>1. path # "idle" /\ Len(typed') <= Len(cfg'.sources)
    BY <1>2, <1>3, <1>6 DEF AtTyped
  <2>2. QED
    BY <1>2, <2>1 DEF SourcesInv, TypeOK
<1>11. CfgOK' /\ ConfigOK' /\ CheckOK'
  BY <1>2 DEF SourcesInv, CfgOK, ConfigOK, CheckOK
<1>12. QED
  BY <1>9, <1>10, <1>11 DEF SourcesInv

LEMMA PassSourceStep ==
  ASSUME SourcesInv, PassSource
  PROVE  SourcesInv'
<1>1. /\ typed' = Append(typed, <<>>) /\ AtTyped /\ Source.type \notin {"raw_list", "clash_yaml"}
      /\ UNCHANGED <<cfg, path, stage, addrs, specs, listed, fetched, config, waiting, running, passed>>
  BY DEF PassSource, Supported, checkVars
<1>2. /\ IsSeq(typed) /\ Len(typed) \in Nat /\ Len(typed) + 1 <= Len(cfg.sources)
  BY <1>1, NextSource
<1>3. /\ IsSeq(typed') /\ Len(typed') = Len(typed) + 1
      /\ ClashIn(typed', cfg.sources) = ClashIn(typed, cfg.sources)
      /\ RawIn(typed', cfg.sources) = RawIn(typed, cfg.sources)
  <2>1. IsSeq(typed') /\ Len(typed') = Len(typed) + 1
    BY <1>1, <1>2, AppendIsSeq
  <2>2. /\ ClashIn(typed', cfg.sources) = ClashIn(typed, cfg.sources) \cup
             IF Source.type = "clash_yaml" THEN ClashOf(<<>>) ELSE {}
        /\ RawIn(typed', cfg.sources) = RawIn(typed, cfg.sources) \cup
             IF Source.type = "raw_list" THEN AddrsOf(<<>>) ELSE {}
    BY <1>1, <1>2, ReadMore DEF Source
  <2>3. \A X : X \cup {} = X
    OBVIOUS
  <2>4. QED
    BY <1>1, <2>1, <2>2, <2>3
<1>4. LoadOK' /\ ReadOK'
  BY <1>1, <1>3 DEF SourcesInv, LoadOK, ReadOK
<1>5. TypeOK'
  <2>1. path # "idle" /\ Len(typed') <= Len(cfg'.sources)
    BY <1>1, <1>2, <1>3 DEF AtTyped
  <2>2. QED
    BY <1>1, <2>1 DEF SourcesInv, TypeOK
<1>6. CfgOK' /\ ConfigOK' /\ CheckOK'
  BY <1>1 DEF SourcesInv, CfgOK, ConfigOK, CheckOK
<1>7. QED
  BY <1>4, <1>5, <1>6 DEF SourcesInv

LEMMA ReadListStep ==
  ASSUME SourcesInv, ReadList
  PROVE  SourcesInv'
<1>1. PICK doc \in Lists[cfg.lists[Len(listed) + 1]] \cup {<<>>} :
        /\ listed' = Append(listed, doc)
        /\ fetched' = Distinct(fetched \o AddrsOfLines(doc))
  BY DEF ReadList
<1>2. /\ AtListed
      /\ UNCHANGED <<cfg, path, stage, typed, addrs, specs, config, waiting, running, passed>>
  BY DEF ReadList, checkVars
<1>3. /\ IsSeq(listed) /\ Len(listed) \in Nat /\ Len(listed) + 1 <= Len(cfg.lists)
      /\ cfg.lists[Len(listed) + 1] \in DOMAIN Lists
  BY <1>2, NextList
<1>4. IsSeq(doc) /\ AddrsOf(doc) \subseteq ListedAddrs
  BY <1>1, <1>3, ListIs
<1>5. /\ IsSeq(listed') /\ Len(listed') = Len(listed) + 1
      /\ ListIn(listed') = ListIn(listed) \cup AddrsOf(doc)
  BY <1>1, <1>3, AppendIsSeq, ReadMore
<1>6. IsSeq(fetched') /\ ToSet(fetched') = ListIn(listed')
  <2>1. IsSeq(fetched) /\ ToSet(fetched) = ListIn(listed)
    BY DEF SourcesInv, LoadOK
  <2>2. IsSeq(AddrsOfLines(doc)) /\ ToSet(AddrsOfLines(doc)) = AddrsOf(doc)
    BY <1>4, AddrsOfLinesIs
  <2>3. /\ IsSeq(fetched \o AddrsOfLines(doc))
        /\ ToSet(fetched \o AddrsOfLines(doc)) = ListIn(listed) \cup AddrsOf(doc)
    BY <2>1, <2>2, ConcatToSet
  <2>4. QED
    BY <1>1, <1>5, <2>3, DistinctIs
<1>7. LoadOK' /\ ReadOK'
  BY <1>2, <1>4, <1>5, <1>6 DEF SourcesInv, LoadOK, ReadOK
<1>8. TypeOK'
  <2>1. path # "idle" /\ Len(listed') <= Len(cfg'.lists)
    BY <1>2, <1>3, <1>5 DEF AtListed
  <2>2. QED
    BY <1>2, <2>1 DEF SourcesInv, TypeOK
<1>9. CfgOK' /\ ConfigOK' /\ CheckOK'
  BY <1>2 DEF SourcesInv, CfgOK, ConfigOK, CheckOK
<1>10. QED
  BY <1>7, <1>8, <1>9 DEF SourcesInv

\* What stands for the documents when all are read: the nodes of UpstreamSpecs.
LEMMA NodesRead ==
  ASSUME SourcesInv
  PROVE  LET E == NodesOf(ClashIn(typed, cfg.sources), RawIn(typed, cfg.sources), ListIn(listed))
         IN /\ IsSeq(UpstreamSpecs) /\ E \subseteq Entries
            /\ ToSet(UpstreamSpecs) \subseteq E
            /\ \A e \in E : \E f \in ToSet(UpstreamSpecs) : StableNodeID(f) = StableNodeID(e)
            /\ ConfigOf(Generate(UpstreamSpecs), ToSet(UpstreamSpecs))
<1> DEFINE C == ClashIn(typed, cfg.sources)
           R == RawIn(typed, cfg.sources)
           L == ListIn(listed)
<1>1. /\ StandFor(specs, addrs, C, R) /\ C \subseteq ClashEntries
      /\ R \subseteq ListedAddrs /\ L \subseteq ListedAddrs
      /\ IsSeq(fetched) /\ ToSet(fetched) = L
  BY DEF SourcesInv, LoadOK, ReadOK
<1> HIDE DEF C, R, L
<1>2. NodesOf(C, R, L) \subseteq Entries
  BY <1>1, NodesAreEntries
<1>3. /\ IsSeq(UpstreamSpecs) /\ ToSet(UpstreamSpecs) \subseteq NodesOf(C, R, L)
      /\ \A e \in NodesOf(C, R, L) : \E f \in ToSet(UpstreamSpecs) : StableNodeID(f) = StableNodeID(e)
      /\ \A m, n \in DOMAIN UpstreamSpecs :
           m # n => StableNodeID(UpstreamSpecs[m]) # StableNodeID(UpstreamSpecs[n])
  BY <1>1, AllSpecs DEF UpstreamSpecs
<1>4. ConfigOf(Generate(UpstreamSpecs), ToSet(UpstreamSpecs))
  BY <1>2, <1>3, SpecsGenerated
<1>5. QED
  BY <1>2, <1>3, <1>4 DEF C, R, L

LEMMA GenerateConfigStep ==
  ASSUME SourcesInv, GenerateConfig
  PROVE  SourcesInv'
<1>1. /\ config' = Generate(UpstreamSpecs) /\ path = "xray" /\ stage' = "ensure"
      /\ UNCHANGED <<cfg, path, typed, addrs, specs, listed, fetched, waiting, running, passed>>
  BY DEF GenerateConfig, checkVars
<1>2. /\ ToSet(UpstreamSpecs) \in SUBSET Entries
      /\ ConfigOf(config', ToSet(UpstreamSpecs))
  BY <1>1, NodesRead
<1>3. ConfigOK'
  BY <1>2 DEF ConfigOK
<1>4. TypeOK'
  BY <1>1 DEF SourcesInv, TypeOK
<1>5. CheckOK'
  <2>1. stage = "load"
    BY DEF GenerateConfig, Loaded
  <2>2. QED
    BY <1>1, <2>1 DEF SourcesInv, CheckOK
<1>6. CfgOK' /\ ReadOK' /\ LoadOK'
  BY <1>1 DEF SourcesInv, CfgOK, ReadOK, LoadOK
<1>7. QED
  BY <1>3, <1>4, <1>5, <1>6 DEF SourcesInv

LEMMA StartChecksStep ==
  ASSUME SourcesInv, StartChecks
  PROVE  SourcesInv'
<1>1. /\ stage = "load" /\ path = "legacy" /\ stage' = "check"
      /\ typed' = <<>> /\ addrs' = <<>> /\ specs' = <<>>
      /\ listed' = <<>> /\ fetched' = <<>>
      /\ UNCHANGED <<cfg, path, config, running, passed>>
  BY DEF StartChecks, Loaded
<1>2. running = {} /\ passed = <<>>
  BY <1>1 DEF SourcesInv, CheckOK
<1>3. CfgOK'
  BY <1>1 DEF SourcesInv, CfgOK
<1>4. TypeOK'
  <2>1. cfg'.concurrency \in Nat \ {0} /\ Len(cfg'.sources) \in Nat /\ Len(cfg'.lists) \in Nat
    BY <1>3 DEF CfgOK
  <2>2. Len(typed') = 0 /\ Len(listed') = 0 /\ ToSet(passed') = {} /\ running' = {}
    BY <1>1, <1>2, EmptyIsSeq
  <2>3. path' = "legacy" /\ stage' = "check"
    BY <1>1
  <2>4. QED
    BY <2>1, <2>2, <2>3 DEF TypeOK
<1>5. ReadOK' /\ LoadOK'
  BY <1>1, NothingRead, EmptyIsSeq DEF ReadOK, LoadOK
<1>6. waiting' \subseteq Addresses
  <2> DEFINE C == ClashIn(typed, cfg.sources)
             R == RawIn(typed, cfg.sources)
  <2>1. /\ IsSeq(addrs) /\ ToSet(addrs) \subseteq R \cup {AddrOf(e) : e \in {c \in C : Plain(c)}}
        /\ C \subseteq ClashEntries /\ R \subseteq ListedAddrs
        /\ IsSeq(fetched) /\ ToSet(fetched) \subseteq ListedAddrs
    BY DEF SourcesInv, LoadOK, ReadOK, StandFor
  <2> HIDE DEF C, R
  <2>2. ToSet(addrs) \cup ToSet(fetched) \subseteq Addresses
    BY <2>1 DEF Addresses
  <2>3. IsSeq(fetched \o addrs) /\ ToSet(fetched \o addrs) \subseteq Addresses
    BY <2>1, <2>2, ConcatToSet
  <2>4. QED
    BY <2>3, DistinctIs DEF StartChecks, SOCKS5Upstreams
<1>7. ConfigOK' /\ CheckOK'
  <2>1. ToSet(passed') = {} /\ running' = {}
    BY <1>1, <1>2, EmptyIsSeq
  <2>2. QED
    BY <1>1, <1>6, <2>1 DEF SourcesInv, ConfigOK, CheckOK
<1>8. QED
  BY <1>3, <1>4, <1>5, <1>7 DEF SourcesInv

LEMMA BeginCheckStep ==
  ASSUME SourcesInv, NEW a \in waiting, BeginCheck(a)
  PROVE  SourcesInv'
<1>1. /\ waiting' = waiting \ {a} /\ running' = running \cup {a}
      /\ UNCHANGED <<cfg, path, stage, typed, addrs, specs, listed, fetched, config, passed>>
  BY DEF BeginCheck, loadVars
<1>2. TypeOK'
  BY <1>1 DEF SourcesInv, TypeOK
<1>3. CheckOK'
  BY <1>1 DEF SourcesInv, CheckOK
<1>4. CfgOK' /\ ReadOK' /\ LoadOK' /\ ConfigOK'
  BY <1>1 DEF SourcesInv, CfgOK, ReadOK, LoadOK, ConfigOK
<1>5. QED
  BY <1>2, <1>3, <1>4 DEF SourcesInv

LEMMA EndCheckStep ==
  ASSUME SourcesInv, NEW a \in running, NEW ok \in BOOLEAN, EndCheck(a, ok)
  PROVE  SourcesInv'
<1>1. /\ running' = running \ {a} /\ waiting' = waiting
      /\ passed' = IF ok THEN Append(passed, a) ELSE passed
      /\ UNCHANGED <<cfg, path, stage, typed, addrs, specs, listed, fetched, config>>
  BY DEF EndCheck, loadVars
<1>2. IsSeq(passed') /\ ToSet(passed') \subseteq ToSet(passed) \cup {a}
  BY <1>1, AppendIsSeq DEF SourcesInv, CheckOK
<1>3. TypeOK'
  BY <1>1, <1>2 DEF SourcesInv, TypeOK
<1>4. CheckOK'
  BY <1>1, <1>2 DEF SourcesInv, CheckOK
<1>5. CfgOK' /\ ReadOK' /\ LoadOK' /\ ConfigOK'
  BY <1>1 DEF SourcesInv, CfgOK, ReadOK, LoadOK, ConfigOK
<1>6. QED
  BY <1>3, <1>4, <1>5 DEF SourcesInv

LEMMA DeliverStep ==
  ASSUME SourcesInv, NEW entries, Deliver(entries)
  PROVE  SourcesInv'
BY ForgetStep DEF Deliver

LEMMA SourcesStep ==
  SourcesInv /\ [Next]_vars => SourcesInv'
<1> SUFFICES ASSUME SourcesInv, [Next]_vars PROVE SourcesInv'
  OBVIOUS
<1>1. CASE RunOnce
  BY <1>1, RunOnceStep
<1>2. CASE SourceFails \/ XrayFails \/ NothingThere \/ GenerateFails \/ NoUpstreams
  BY <1>2, AbortStep DEF SourceFails, XrayFails, NothingThere, GenerateFails, NoUpstreams
<1>3. CASE ReadSource
  BY <1>3, ReadSourceStep
<1>4. CASE PassSource
  BY <1>4, PassSourceStep
<1>5. CASE ReadList
  BY <1>5, ReadListStep
<1>6. CASE GenerateConfig
  BY <1>6, GenerateConfigStep
<1>7. CASE \E alive \in SUBSET ToSet(Included(config)) : DeliverAlive(alive)
  BY <1>7, DeliverStep DEF DeliverAlive
<1>8. CASE StartChecks
  BY <1>8, StartChecksStep
<1>9. CASE \E a \in waiting : BeginCheck(a)
  BY <1>9, BeginCheckStep
<1>10. CASE \E a \in running, ok \in BOOLEAN : EndCheck(a, ok)
  BY <1>10, EndCheckStep
<1>11. CASE DeliverChecked
  BY <1>11, DeliverStep DEF DeliverChecked
<1>12. CASE UNCHANGED vars
  BY <1>12 DEF vars, loadVars, checkVars, SourcesInv, TypeOK, CfgOK, ReadOK, LoadOK, ConfigOK, CheckOK
<1>13. QED
  BY <1>1, <1>2, <1>3, <1>4, <1>5, <1>6, <1>7, <1>8, <1>9, <1>10, <1>11, <1>12 DEF Next, Work

-----------------------------------------------------------------------------
(* The theorems.                                                             *)

\* What stands for the documents read, and what the configuration holds, is
\* an invariant, however the sources fail, repeat or change between reads.
THEOREM LoadIsSound ==
  Spec => []SourcesInv
<1>1. QED
  BY SourcesInit, SourcesStep, PTL DEF Spec

\* The stages of a run (updater.go:310-403): a run that is idle has nothing in
\* hand, an address is checked once (health.go), there is a slot for a check.
THEOREM SourcesTyped ==
  Spec => []TypeOK
<1>1. SourcesInv => TypeOK
  BY DEF SourcesInv
<1>2. QED
  BY LoadIsSound, <1>1, PTL

\* How far the code is from OneNodeEach: two nodes of one configuration that lead
\* the same way through a SOCKS5 server are one whose ID was made of an address
\* (updater.go:346, no user part) and one whose ID was made of a Clash proxy with
\* empty credentials (spec.go:110-113), whichever documents were read.  Neither
\* two sources of one kind nor two spellings of the server make twins.
THEOREM TwinsAreOnlyThese ==
  Spec => [](\A i, j \in DOMAIN config :
               Twins(i, j) => {config[i].tag.cfg, config[j].tag.cfg}
                                = {<<>>, [username |-> "", password |-> ""]})
<1>1. ASSUME SourcesInv
      PROVE  \A i, j \in DOMAIN config :
               Twins(i, j) => {config[i].tag.cfg, config[j].tag.cfg}
                                = {<<>>, [username |-> "", password |-> ""]}
  <2> SUFFICES ASSUME NEW i \in DOMAIN config, NEW j \in DOMAIN config, i # j,
                      config[i].out.protocol = "socks5",
                      Way(config[i].out) = Way(config[j].out)
               PROVE  {config[i].tag.cfg, config[j].tag.cfg}
                        = {<<>>, [username |-> "", password |-> ""]}
    BY DEF Twins
  <2>1. config # <<>>
    BY EmptyIsSeq
  <2>2. PICK E \in SUBSET Entries : ConfigOf(config, E)
    BY <1>1, <2>1 DEF SourcesInv, ConfigOK
  <2>3. PICK e \in E : config[i] = Node(e) /\ config[i].tag = StableNodeID(e)
    BY <2>2, TagsDiffer
  <2>4. PICK f \in E : config[j] = Node(f) /\ config[j].tag = StableNodeID(f)
    BY <2>2, TagsDiffer
  <2>5. StableNodeID(e) # StableNodeID(f)
    BY <2>2, <2>3, <2>4, TagsDiffer
  <2>6. SpecOK(e) /\ SpecOK(f)
    BY EntryIsSpec
  <2>7. config[i].out = Outbound(e) /\ config[j].out = Outbound(f) /\ Outbound(e).protocol = e.type
    BY <2>3, <2>4 DEF Node, Outbound
  <2>8. e.type = "socks5" /\ Way(Outbound(e)) = Way(Outbound(f))
    BY <2>7
  <2>9. {StableNodeID(e).cfg, StableNodeID(f).cfg} = {<<>>, [username |-> "", password |-> ""]}
    BY <2>5, <2>6, <2>8, SocksTwins
  <2>10. QED
    BY <2>3, <2>4, <2>9
<1>2. QED
  BY <1>1, LoadIsSound, PTL

-----------------------------------------------------------------------------
(* What a load has come to when it ends.                                     *)

\* The reads of the invariant are those of the properties.
LEMMA ReadsAre ==
  /\ ClashRead = ClashIn(typed, cfg.sources)
  /\ AddrsRead = RawIn(typed, cfg.sources) \cup ListIn(listed)
  /\ EntriesRead \cup Doubled = NodesOf(ClashIn(typed, cfg.sources), RawIn(typed, cfg.sources), ListIn(listed))
<1>1. ClashRead = ClashIn(typed, cfg.sources)
  BY DEF ClashRead, ClashIn, ClashOf
<1>2. AddrsRead = RawIn(typed, cfg.sources) \cup ListIn(listed)
  <2> DEFINE raw == {j \in DOMAIN typed : SourceOf[cfg.sources[j]].type = "raw_list"}
             T == UNION {ToSet(typed[i]) : i \in raw}
             S == UNION {ToSet(listed[i]) : i \in DOMAIN listed}
  <2>1. AddrsRead = {l.addr : l \in T \cup S}
    BY DEF AddrsRead
  <2>2. RawIn(typed, cfg.sources) = UNION {{l.addr : l \in ToSet(typed[i])} : i \in raw}
    BY DEF RawIn, AddrsOf
  <2>3. ListIn(listed) = UNION {{l.addr : l \in ToSet(listed[i])} : i \in DOMAIN listed}
    BY DEF ListIn, AddrsOf
  <2>4. UNION {{l.addr : l \in ToSet(typed[i])} : i \in raw} = {l.addr : l \in T}
    OBVIOUS
  <2>5. UNION {{l.addr : l \in ToSet(listed[i])} : i \in DOMAIN listed} = {l.addr : l \in S}
    OBVIOUS
  <2> HIDE DEF raw, T, S
  <2>6. {l.addr : l \in T \cup S} = {l.addr : l \in T} \cup {l.addr : l \in S}
    OBVIOUS
  <2>7. QED
    BY <2>1, <2>2, <2>3, <2>4, <2>5, <2>6
<1>3. EntriesRead = ClashRead \cup FromAddrs(AddrsRead)
  BY DEF EntriesRead, FromAddrs
<1>4. Doubled = FromAddrs({AddrOf(e) : e \in {c \in ClashRead : Plain(c)}})
  BY DEF Doubled, FromAddrs
<1>5. QED
  BY <1>1, <1>2, <1>3, <1>4 DEF NodesOf

\* Only GenerateConfig and StartChecks leave the load.
LEMMA LeavingTheLoad ==
  ASSUME [Next]_vars
  PROVE  (Generated => GenerateConfig) /\ (Checked => StartChecks)
<1>1. ASSUME UNCHANGED stage \/ stage' = "load" PROVE ~ Generated /\ ~ Checked
  BY <1>1 DEF Generated, Checked
<1>2. CASE RunOnce \/ ReadSource \/ PassSource \/ ReadList \/ UNCHANGED vars
  BY <1>1, <1>2 DEF RunOnce, ReadSource, PassSource, ReadList, vars, loadVars
<1>3. CASE SourceFails \/ XrayFails \/ NothingThere \/ GenerateFails \/ NoUpstreams
  BY <1>1, <1>3 DEF SourceFails, XrayFails, NothingThere, GenerateFails, NoUpstreams, Abort, Forget
<1>4. CASE DeliverChecked \/ \E alive \in SUBSET ToSet(Included(config)) : DeliverAlive(alive)
  BY <1>1, <1>4 DEF DeliverChecked, DeliverAlive, Deliver, Forget
<1>5. CASE (\E a \in waiting : BeginCheck(a)) \/ \E a \in running, ok \in BOOLEAN : EndCheck(a, ok)
  BY <1>1, <1>5 DEF BeginCheck, EndCheck, loadVars
<1>6. CASE GenerateConfig
  BY <1>6 DEF GenerateConfig, Checked
<1>7. CASE StartChecks
  BY <1>7 DEF StartChecks, Generated
<1>8. QED
  BY <1>2, <1>3, <1>4, <1>5, <1>6, <1>7 DEF Next, Work

LEMMA PlainWay ==
  ASSUME NEW e, Plain(e)
  PROVE  Outbound(SpecFromAddr(AddrOf(e))) = Outbound(e)
<1> DEFINE f == SpecFromAddr(AddrOf(e))
<1>1. /\ f.type = "socks5" /\ f.server = e.server /\ f.port = e.port /\ DOMAIN f.cfg = {}
  BY AddressIsSpec DEF AddrOf
<1>2. ~ HasCredentials(f.cfg)
  BY <1>1 DEF HasCredentials
<1> HIDE DEF f
<1>3. \A s : s.type = "socks5" /\ ~ HasCredentials(s.cfg) =>
        Outbound(s) = [protocol |-> "socks5", address |-> s.server, port |-> s.port,
                       user |-> <<>>, stream |-> <<>>]
  BY DEF Outbound, StreamTypes
<1>4. e.type = "socks5" /\ ~ HasCredentials(e.cfg)
  BY DEF Plain
<1>5. Outbound(f) = Outbound(e)
  BY <1>1, <1>2, <1>3, <1>4
<1>6. QED
  BY <1>5 DEF f

\* The nodes of the configuration that GenerateConfig makes.
LEMMA ConfigGenerated ==
  ASSUME SourcesInv, GenerateConfig
  PROVE  \E U \in SUBSET (EntriesRead \cup Doubled) :
           /\ ConfigOf(config', U) /\ U \subseteq Entries
           /\ EntriesRead \cup Doubled \subseteq Entries
           /\ \A e \in EntriesRead \cup Doubled : \E f \in U : StableNodeID(f) = StableNodeID(e)
<1>1. config' = Generate(UpstreamSpecs)
  BY DEF GenerateConfig
<1> DEFINE U == ToSet(UpstreamSpecs)
           E == EntriesRead \cup Doubled
<1>2. /\ U \subseteq E /\ ConfigOf(config', U) /\ E \subseteq Entries
      /\ \A e \in E : \E f \in U : StableNodeID(f) = StableNodeID(e)
  BY <1>1, NodesRead, ReadsAre
<1> HIDE DEF U, E
<1>3. \E V \in SUBSET E :
        /\ ConfigOf(config', V) /\ V \subseteq Entries /\ E \subseteq Entries
        /\ \A e \in E : \E f \in V : StableNodeID(f) = StableNodeID(e)
  BY <1>2
<1>4. QED
  BY <1>3 DEF E

\* Which outbounds it has.
LEMMA OutboundsGenerated ==
  ASSUME SourcesInv, GenerateConfig
  PROVE  LET outs == {config'[i].out : i \in DOMAIN config'}
         IN /\ outs \subseteq {Outbound(e) : e \in EntriesRead}
            /\ {Way(o) : o \in outs} = {Way(Outbound(e)) : e \in EntriesRead}
<1> DEFINE outs == {config'[i].out : i \in DOMAIN config'}
<1>1. PICK U \in SUBSET (EntriesRead \cup Doubled) :
        /\ ConfigOf(config', U) /\ U \subseteq Entries
        /\ EntriesRead \cup Doubled \subseteq Entries
        /\ \A e \in EntriesRead \cup Doubled : \E f \in U : StableNodeID(f) = StableNodeID(e)
  BY ConfigGenerated
<1>2. outs = {Outbound(e) : e \in U}
  <2>1. {config'[i] : i \in DOMAIN config'} = {Node(e) : e \in U}
    BY <1>1 DEF ConfigOf, ToSet
  <2>2. outs = {n.out : n \in {config'[i] : i \in DOMAIN config'}}
    OBVIOUS
  <2>3. \A e : Node(e).out = Outbound(e)
    BY DEF Node
  <2> HIDE DEF outs
  <2>4. QED
    BY <2>1, <2>2, <2>3
<1> HIDE DEF outs
<1>3. ASSUME NEW f \in U PROVE Outbound(f) \in {Outbound(e) : e \in EntriesRead}
  <2>1. CASE f \in EntriesRead
    BY <2>1
  <2>2. CASE f \in Doubled
    <3>1. PICK e \in ClashRead : Plain(e) /\ f = SpecFromAddr(AddrOf(e))
      BY <2>2 DEF Doubled
    <3>2. e \in EntriesRead
      BY DEF EntriesRead
    <3>3. QED
      BY <3>1, <3>2, PlainWay
  <2>3. QED
    BY <1>1, <2>1, <2>2
<1>4. outs \subseteq {Outbound(e) : e \in EntriesRead}
  BY <1>2, <1>3
<1>5. {Way(o) : o \in outs} \subseteq {Way(Outbound(e)) : e \in EntriesRead}
  BY <1>4
<1>6. ASSUME NEW e \in EntriesRead PROVE Way(Outbound(e)) \in {Way(o) : o \in outs}
  <2>1. PICK f \in U : StableNodeID(f) = StableNodeID(e)
    BY <1>1
  <2>2. SpecOK(e) /\ SpecOK(f)
    BY <1>1, EntryIsSpec
  <2>3. Way(Outbound(f)) = Way(Outbound(e))
    BY <2>1, <2>2, SameIDSameWay
  <2>4. QED
    BY <1>2, <2>3
<1>7. QED
  BY <1>4, <1>5, <1>6 DEF outs

\* Which addresses StartChecks has checked.
LEMMA AddressesChecked ==
  ASSUME SourcesInv, StartChecks
  PROVE  LET all == AddrsRead \cup {AddrOf(e) : e \in {c \in ClashRead : Plain(c)}}
         IN /\ AddrsRead \subseteq waiting' /\ waiting' \subseteq all
            /\ LowerAddrs(waiting') = LowerAddrs(all)
<1> DEFINE C == ClashRead
           R == RawIn(typed, cfg.sources)
           doubled == {AddrOf(e) : e \in {c \in C : Plain(c)}}
           all == AddrsRead \cup doubled
           low(a) == [a EXCEPT !.host = Lower(@)]
<1>1. /\ IsSeq(addrs) /\ R \subseteq ToSet(addrs) /\ ToSet(addrs) \subseteq R \cup doubled
      /\ \A e \in C : Plain(e) =>
           \E f \in C : Plain(f) /\ AddrOf(f) \in ToSet(addrs) /\ StableNodeID(f) = StableNodeID(e)
      /\ IsSeq(fetched) /\ ToSet(fetched) = ListIn(listed)
  BY ReadsAre DEF SourcesInv, LoadOK, StandFor
<1>2. waiting' = ListIn(listed) \cup ToSet(addrs)
  <2>1. IsSeq(fetched \o addrs) /\ ToSet(fetched \o addrs) = ListIn(listed) \cup ToSet(addrs)
    BY <1>1, ConcatToSet
  <2>2. QED
    BY <2>1, DistinctIs DEF StartChecks, SOCKS5Upstreams
<1>3. AddrsRead = R \cup ListIn(listed)
  BY ReadsAre
<1> HIDE DEF R, C
<1>4. AddrsRead \subseteq waiting' /\ waiting' \subseteq all
  BY <1>1, <1>2, <1>3
<1>5. ASSUME NEW a \in all PROVE \E b \in waiting' : low(b) = low(a)
  <2>1. CASE a \in AddrsRead
    BY <1>4, <2>1
  <2>2. CASE a \in doubled
    <3>1. PICK e \in C : Plain(e) /\ a = AddrOf(e)
      BY <2>2
    <3>2. PICK f \in C : Plain(f) /\ AddrOf(f) \in ToSet(addrs) /\ StableNodeID(f) = StableNodeID(e)
      BY <1>1, <3>1
    <3>3. Lower(f.server) = Lower(e.server) /\ f.port = e.port
      BY <3>2, SameID DEF Alike
    <3>4. \A s : low(AddrOf(s)) = [host |-> Lower(s.server), port |-> s.port]
      BY DEF AddrOf
    <3>5. low(AddrOf(f)) = low(AddrOf(e))
      BY <3>3, <3>4
    <3>6. QED
      BY <1>2, <3>1, <3>2, <3>5
  <2>3. QED
    BY <2>1, <2>2
<1>6. {low(a) : a \in waiting'} = {low(a) : a \in all}
  <2> HIDE DEF low, all
  <2>1. QED
    BY <1>4, <1>5
<1>7. LowerAddrs(waiting') = LowerAddrs(all)
  BY <1>6 DEF LowerAddrs
<1>8. QED
  BY <1>4, <1>7 DEF C

\* Every usable entry of every source is in the configuration, or among the
\* addresses to be checked, and nothing else is (loader.go:37-101,
\* updater.go:310-403, spec.go:259-273), up to the spellings that Way ignores.
THEOREM LoadIsComplete ==
  Spec => CompleteLoad
<1>1. ASSUME SourcesInv, [Next]_vars
      PROVE  /\ Generated =>
                  LET outs == {config'[i].out : i \in DOMAIN config'}
                  IN /\ outs \subseteq {Outbound(e) : e \in EntriesRead}
                     /\ {Way(o) : o \in outs} = {Way(Outbound(e)) : e \in EntriesRead}
                     /\ AllTyped /\ AllListed
             /\ Checked =>
                  LET all == AddrsRead \cup {AddrOf(e) : e \in {c \in ClashRead : Plain(c)}}
                  IN /\ AddrsRead \subseteq waiting' /\ waiting' \subseteq all
                     /\ LowerAddrs(waiting') = LowerAddrs(all)
                     /\ AllTyped /\ AllListed
  <2>1. CASE Generated
    <3>1. GenerateConfig /\ ~ Checked
      BY <1>1, <2>1, LeavingTheLoad DEF Generated, Checked
    <3>2. AllTyped /\ AllListed
      BY <3>1 DEF GenerateConfig, Loaded
    <3>3. QED
      BY <1>1, <3>1, <3>2, OutboundsGenerated
  <2>2. CASE Checked
    <3>1. StartChecks /\ ~ Generated
      BY <1>1, <2>2, LeavingTheLoad DEF Generated, Checked
    <3>2. AllTyped /\ AllListed
      BY <3>1 DEF StartChecks, Loaded
    <3>3. QED
      BY <1>1, <3>1, <3>2, AddressesChecked
  <2>3. QED
    BY <2>1, <2>2
<1>2. QED
  BY <1>1, LoadIsSound, PTL DEF Spec, CompleteLoad

\* The configuration depends on what the sources hold, not on the order of its
\* entries or on which source held them ("Deterministic ordering for stable
\* config hashes", config.go:77), as long as no two entries are in conflict.
THEOREM OrderNeverMatters ==
  Spec => OrderIsImmaterial
<1>1. ASSUME SourcesInv, [Next]_vars
      PROVE  Generated =>
               /\ \A i, j \in DOMAIN config' :
                    i < j => HashOrder(config'[i].tag) < HashOrder(config'[j].tag)
               /\ ~ Conflict(EntriesRead \cup Doubled) =>
                    {config'[i] : i \in DOMAIN config'}
                      = {[tag |-> StableNodeID(e), out |-> Outbound(e)] :
                         e \in EntriesRead \cup Doubled}
  <2> SUFFICES ASSUME Generated
               PROVE  /\ \A i, j \in DOMAIN config' :
                           i < j => HashOrder(config'[i].tag) < HashOrder(config'[j].tag)
                      /\ ~ Conflict(EntriesRead \cup Doubled) =>
                           {config'[i] : i \in DOMAIN config'}
                             = {[tag |-> StableNodeID(e), out |-> Outbound(e)] :
                                e \in EntriesRead \cup Doubled}
    OBVIOUS
  <2> DEFINE E == EntriesRead \cup Doubled
  <2>1. PICK U \in SUBSET E :
          /\ ConfigOf(config', U) /\ U \subseteq Entries /\ E \subseteq Entries
          /\ \A e \in E : \E f \in U : StableNodeID(f) = StableNodeID(e)
    BY <1>1, LeavingTheLoad, ConfigGenerated
  <2> HIDE DEF E
  <2>2. \A i, j \in DOMAIN config' :
          i < j => HashOrder(config'[i].tag) < HashOrder(config'[j].tag)
    BY <2>1 DEF ConfigOf
  <2>3. ASSUME ~ Conflict(E)
        PROVE  {config'[i] : i \in DOMAIN config'} = {Node(e) : e \in E}
    <3>1. {config'[i] : i \in DOMAIN config'} = {Node(e) : e \in U}
      BY <2>1 DEF ConfigOf, ToSet
    <3>2. ASSUME NEW e \in E PROVE \E f \in U : Node(f) = Node(e)
      <4>1. PICK f \in U : StableNodeID(f) = StableNodeID(e)
        BY <2>1
      <4>2. f \in E /\ Outbound(f) = Outbound(e)
        BY <2>3, <4>1 DEF Conflict
      <4>3. QED
        BY <4>1, <4>2 DEF Node
    <3>3. {Node(e) : e \in U} = {Node(e) : e \in E}
      BY <3>2
    <3>4. QED
      BY <3>1, <3>3
  <2>4. {Node(e) : e \in E} = {[tag |-> StableNodeID(e), out |-> Outbound(e)] : e \in E}
    BY DEF Node
  <2>5. QED
    BY <2>2, <2>3, <2>4 DEF E
<1>2. QED
  BY <1>1, LoadIsSound, PTL DEF Spec, OrderIsImmaterial

-----------------------------------------------------------------------------
(* What is delivered is what Affinity takes an update to deliver.            *)

\* A list without duplicates has as many elements as places.
LEMMA Once ==
  ASSUME NEW q, IsSeq(q), \A i, j \in DOMAIN q : i # j => q[i] # q[j], NEW n \in 0 .. Len(q)
  PROVE  /\ IsFiniteSet({q[m] : m \in 1 .. n}) /\ Cardinality({q[m] : m \in 1 .. n}) = n
<1> DEFINE T == {q[m] : m \in 1 .. n}
           f == [m \in 1 .. n |-> q[m]]
<1>1. Len(q) \in Nat /\ DOMAIN q = 1 .. Len(q)
  BY IsSeqProperties
<1>2. n \in Nat /\ 1 .. n \subseteq DOMAIN q
  BY <1>1
<1>3. f \in [1 .. n -> T] /\ \A i, j \in 1 .. n : f[i] = f[j] => i = j
  BY <1>2
<1>4. \A t \in T : \E i \in 1 .. n : f[i] = t
  OBVIOUS
<1> HIDE DEF f
<1>5. f \in Bijection(1 .. n, T)
  BY <1>3, <1>4 DEF Bijection, Injection, Surjection, IsInjective
<1>6. IsFiniteSet(1 .. n) /\ Cardinality(1 .. n) = n
  BY <1>2, FS_Interval
<1>7. QED
  BY <1>5, <1>6, FS_Bijection DEF ExistsBijection

LEMMA AllOfIt ==
  ASSUME NEW q, IsSeq(q), \A i, j \in DOMAIN q : i # j => q[i] # q[j]
  PROVE  Cardinality(ToSet(q)) = Len(q)
<1>1. Len(q) \in 0 .. Len(q) /\ DOMAIN q = 1 .. Len(q)
  BY IsSeqProperties
<1>2. {q[m] : m \in 1 .. Len(q)} = ToSet(q)
  BY <1>1 DEF ToSet
<1>3. QED
  BY <1>1, <1>2, Once

\* A list of IDs in the order of their hashes is the one of its elements.
LEMMA OnlyOneOrder ==
  ASSUME NEW q, IsSeq(q), \A i \in DOMAIN q : HashOrder(q[i]) \in Int,
         \A i, j \in DOMAIN q : i < j => HashOrder(q[i]) < HashOrder(q[j])
  PROVE  q = InOrder(ToSet(q))
<1> DEFINE S == ToSet(q)
           before(x) == {j \in S : HashOrder(j) < HashOrder(x)}
<1>1. /\ Len(q) \in Nat /\ DOMAIN q = 1 .. Len(q) /\ q = [i \in 1 .. Len(q) |-> q[i]]
      /\ \A x \in S : \E i \in DOMAIN q : q[i] = x
      /\ \A i \in DOMAIN q : q[i] \in S
  BY IsSeqProperties
<1>2. \A x, y \in Int : ~ (x < y /\ y <= x)
  OBVIOUS
<1>3. \A i, j \in DOMAIN q : i < j <=> HashOrder(q[i]) < HashOrder(q[j])
  <2> SUFFICES ASSUME NEW i \in DOMAIN q, NEW j \in DOMAIN q, HashOrder(q[i]) < HashOrder(q[j])
               PROVE  i < j
    OBVIOUS
  <2>1. i \in Int /\ j \in Int
    BY <1>1
  <2>2. j < i => HashOrder(q[j]) < HashOrder(q[i])
    OBVIOUS
  <2>3. i = j \/ i < j \/ j < i
    BY <2>1
  <2>4. QED
    BY <2>2, <2>3
<1>4. \A i, j \in DOMAIN q : i # j => q[i] # q[j]
  <2> SUFFICES ASSUME NEW i \in DOMAIN q, NEW j \in DOMAIN q, i # j PROVE q[i] # q[j]
    OBVIOUS
  <2>1. i < j \/ j < i
    BY <1>1
  <2>2. HashOrder(q[i]) # HashOrder(q[j])
    BY <1>3, <2>1
  <2>3. QED
    BY <2>2
<1>5. Cardinality(S) = Len(q)
  BY <1>4, AllOfIt
<1>6. \A n \in DOMAIN q : Cardinality(before(q[n])) = n - 1
  <2> SUFFICES ASSUME NEW n \in DOMAIN q PROVE Cardinality(before(q[n])) = n - 1
    OBVIOUS
  <2>1. n - 1 \in 0 .. Len(q) /\ 1 .. n - 1 \subseteq DOMAIN q
        /\ \A m \in DOMAIN q : m < n <=> m \in 1 .. n - 1
    BY <1>1
  <2>2. before(q[n]) = {q[m] : m \in 1 .. n - 1}
    <3>1. \A x \in S : HashOrder(x) < HashOrder(q[n]) <=> \E m \in 1 .. n - 1 : x = q[m]
      BY <1>1, <1>3, <1>4, <2>1
    <3>2. \A m \in 1 .. n - 1 : q[m] \in S
      BY <1>1, <2>1
    <3>3. QED
      BY <3>1, <3>2
  <2>3. QED
    BY <1>4, <2>1, <2>2, Once
<1> HIDE DEF S, before
<1>7. ASSUME NEW n \in 1 .. Len(q)
      PROVE  (CHOOSE i \in S : Cardinality(before(i)) = n - 1) = q[n]
  <2> DEFINE c == CHOOSE i \in S : Cardinality(before(i)) = n - 1
  <2>1. c \in S /\ Cardinality(before(c)) = n - 1
    BY <1>1, <1>6
  <2> HIDE DEF c
  <2>2. PICK m \in DOMAIN q : q[m] = c
    BY <1>1, <2>1
  <2>3. m - 1 = n - 1 /\ m \in Int /\ n \in Int
    BY <1>1, <1>6, <2>1, <2>2
  <2>4. QED
    BY <2>2, <2>3 DEF c
<1>8. InOrder(S) = [n \in 1 .. Len(q) |-> CHOOSE i \in S : Cardinality(before(i)) = n - 1]
  BY <1>5 DEF InOrder, before
<1>9. InOrder(S) = [n \in 1 .. Len(q) |-> q[n]]
  BY <1>7, <1>8
<1>10. QED
  BY <1>1, <1>9 DEF S

\* The nodes of the configuration that are alive.
LEMMA AliveListed ==
  ASSUME SourcesInv, NEW alive
  PROVE  LET ids == Included(config)
         IN At(ids, {i \in DOMAIN ids : ids[i] \in alive}) \in MemberLists
<1> DEFINE ids == Included(config)
           places == {i \in DOMAIN ids : ids[i] \in alive}
           q == At(ids, places)
<1>1. /\ IsSeq(config)
      /\ \A i \in DOMAIN config : \E e \in Entries : config[i].tag = StableNodeID(e)
      /\ \A i, j \in DOMAIN config : i < j => HashOrder(config[i].tag) < HashOrder(config[j].tag)
  <2>1. CASE config = <<>>
    BY <2>1, EmptyIsSeq
  <2>2. CASE config # <<>>
    <3>1. PICK E \in SUBSET Entries : ConfigOf(config, E)
      BY <2>2 DEF SourcesInv, ConfigOK
    <3>2. QED
      BY <3>1, TagsDiffer DEF ConfigOf
  <2>3. QED
    BY <2>1, <2>2
<1>2. /\ ids = [i \in DOMAIN config |-> ids[i]] /\ DOMAIN ids = DOMAIN config
      /\ \A i \in DOMAIN config : ids[i] = config[i].tag
  BY DEF Included
<1> HIDE DEF ids
<1>3. IsSeq(ids)
  BY <1>1, <1>2, MapIsSeq
<1>4. places \in SUBSET DOMAIN ids
  OBVIOUS
<1> HIDE DEF places
<1>5. /\ IsSeq(q) /\ \E p \in [DOMAIN q -> places] :
           /\ \A n \in DOMAIN q : q[n] = ids[p[n]]
           /\ \A m, n \in DOMAIN q : m < n => p[m] < p[n]
  BY <1>3, <1>4, AtIsSeq
<1> HIDE DEF q
<1>6. /\ \A n \in DOMAIN q : q[n] \in {StableNodeID(e) : e \in Entries}
      /\ \A m, n \in DOMAIN q : m < n => HashOrder(q[m]) < HashOrder(q[n])
  <2>1. PICK p \in [DOMAIN q -> places] :
           /\ \A n \in DOMAIN q : q[n] = ids[p[n]]
           /\ \A m, n \in DOMAIN q : m < n => p[m] < p[n]
    BY <1>5
  <2>2. \A n \in DOMAIN q : p[n] \in DOMAIN config /\ q[n] = config[p[n]].tag
    BY <1>2, <1>4, <2>1
  <2>3. QED
    BY <1>1, <2>1, <2>2
<1>7. \A n \in DOMAIN q : HashOrder(q[n]) \in Int
  BY <1>6, EntriesAssumption
<1>8. q = InOrder(ToSet(q)) /\ ToSet(q) \subseteq {StableNodeID(e) : e \in Entries}
  BY <1>5, <1>6, <1>7, OnlyOneOrder DEF ToSet
<1>9. q \in MemberLists
  BY <1>8, MembersAssumption
<1>10. QED
  BY <1>9 DEF q, places, ids

\* The addresses whose checks passed.
LEMMA PassedListed ==
  ASSUME SourcesInv
  PROVE  Distinct(passed) \in MemberLists
<1> DEFINE q == Distinct(passed)
           S == ToSet(q)
<1>1. IsSeq(q) /\ ToSet(q) = ToSet(passed) /\ ToSet(passed) \subseteq Addresses
  BY DistinctIs DEF SourcesInv, CheckOK
<1>2. \A m, n \in DOMAIN q : m # n => q[m] # q[n]
  BY FirstsAre DEF SourcesInv, CheckOK, Distinct
<1> HIDE DEF q
<1>3. Cardinality(S) = Len(q)
  BY <1>1, <1>2, AllOfIt
<1>4. q \in [1 .. Len(q) -> S] /\ DOMAIN q = 1 .. Len(q)
  BY <1>1, IsSeqProperties
<1>5. q \in SetToSeqs(S)
  BY <1>2, <1>3, <1>4 DEF SetToSeqs
<1>6. S \in SUBSET Addresses
  BY <1>1
<1>7. q \in MemberLists
  BY <1>5, <1>6, MembersAssumption
<1>8. QED
  BY <1>7 DEF q

\* An update of this module is an update of Affinity: it delivers nodes without
\* duplicates, those of the xray way in the order of their hashes
\* (updater.go:235-282, 405-440), or it keeps the members.
THEOREM DeliversMembers ==
  Spec => AffinitySpec
<1>1. Init => AffinityInit
  <2> SUFFICES ASSUME Init PROVE AffinityInit
    OBVIOUS
  <2>1. <<>> \in SetToSeqs({})
    <3>1. Cardinality({}) = 0
      BY FS_EmptySet
    <3>2. 1 .. 0 = {} /\ <<>> \in [{} -> {}]
      OBVIOUS
    <3>3. QED
      BY <3>1, <3>2 DEF SetToSeqs
  <2>2. <<>> \in MemberLists
    BY <2>1, MembersAssumption
  <2>3. QED
    BY <2>2 DEF Init, AffinityInit
<1>2. ASSUME SourcesInv, [Next]_vars PROVE [AffinityNext]_members
  <2>1. ASSUME NEW entries \in MemberLists, Deliver(entries) PROVE [AffinityNext]_members
    BY <2>1 DEF Deliver, AffinityNext
  <2>2. CASE RunOnce \/ ReadSource \/ PassSource \/ ReadList \/ GenerateConfig \/ StartChecks \/ UNCHANGED vars
    BY <2>2 DEF RunOnce, ReadSource, PassSource, ReadList, GenerateConfig, StartChecks, vars
  <2>3. CASE SourceFails \/ XrayFails \/ NothingThere \/ GenerateFails \/ NoUpstreams
    BY <2>3 DEF SourceFails, XrayFails, NothingThere, GenerateFails, NoUpstreams, Abort
  <2>4. CASE (\E a \in waiting : BeginCheck(a)) \/ \E a \in running, ok \in BOOLEAN : EndCheck(a, ok)
    BY <2>4 DEF BeginCheck, EndCheck
  <2>5. CASE \E alive \in SUBSET ToSet(Included(config)) : DeliverAlive(alive)
    BY <1>2, <2>1, <2>5, AliveListed DEF DeliverAlive
  <2>6. CASE DeliverChecked
    BY <1>2, <2>1, <2>6, PassedListed DEF DeliverChecked
  <2>7. QED
    BY <1>2, <2>2, <2>3, <2>4, <2>5, <2>6 DEF Next, Work
<1>3. QED
  BY <1>1, <1>2, LoadIsSound, PTL DEF Spec, AffinitySpec

\* Sessions keep their upstream through any loads: one that is moved has lost
\* its upstream or is moved to one that has just appeared (sticky.go:125-165).
THEOREM LoadsDisruptMinimally ==
  Spec => MinimalDisruption
BY DeliversMembers, DisruptionIsMinimal, PTL

=============================================================================
