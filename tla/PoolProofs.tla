------------------------------- MODULE PoolProofs -------------------------------
(***************************************************************************)
(* Every operation of the pool keeps its type, the agreement of index and  *)
(* entries, and the agreement of failures and penalty.  The lemmas are     *)
(* about single operations, whoever calls them, and are cited by the       *)
(* proofs about the pool's callers.                                        *)
(***************************************************************************)
EXTENDS Pool, SequenceTheorems, TLAPS

PoolInv == PoolTypeOK /\ IndexAgrees /\ HealthAgrees

(* A penalty is a natural number between the two backoffs (pool.go:164-171). *)
LEMMA BackoffRange ==
  ASSUME NEW f
  PROVE  /\ Backoff(f) \in Nat
         /\ Backoff(f) >= BaseBackoff \/ Backoff(f) >= MaxBackoff
         /\ Backoff(f) <= BaseBackoff \/ Backoff(f) <= MaxBackoff
<1> DEFINE d == BaseBackoff * 2 ^ (f - 1)
<1>1. Backoff(f) \in {BaseBackoff, MaxBackoff} \cup (BaseBackoff .. MaxBackoff)
  <2>1. Backoff(f) = IF f = 1 THEN BaseBackoff
                     ELSE IF d \in BaseBackoff .. MaxBackoff THEN d
                     ELSE MaxBackoff
    BY DEF Backoff
  <2>2. QED
    <3> HIDE DEF d
    <3> QED BY <2>1
<1>2. QED
  BY <1>1, PoolAssumption

(* The empty pool the process starts with.                                   *)
LEMMA InitPoolInv ==
  PoolInit => PoolInv
BY DEF PoolInit, PoolInv, PoolTypeOK, IndexAgrees, HealthAgrees

(* Of a list without repetitions, the last position of a key is its only     *)
(* one (pool.go:74-76).                                                      *)
LEMMA LastPositionIsUnique ==
  ASSUME NEW list \in Seq(Keys), DistinctKeys(list), NEW i \in DOMAIN list
  PROVE  LastPosition(list, list[i]) = i
<1>1. \A j \in DOMAIN list : list[j] = list[i] => j = i
  BY DEF DistinctKeys
<1>2. i <= i
  OBVIOUS
<1>3. QED
  BY <1>1, <1>2 DEF LastPosition

(* Update builds an index that agrees with the new entries (pool.go:67-77).  *)
LEMMA UpdatePoolInv ==
  ASSUME NEW list \in Seq(Keys), DistinctKeys(list), Update(list)
  PROVE  PoolInv'
<1>1. /\ entries' = [i \in DOMAIN list |-> Fresh(list[i])]
      /\ index' = [k \in KeysOf(list) |-> LastPosition(list, k)]
      /\ rr' = 0
  BY DEF Update
<1>2. \A i \in DOMAIN list :
        /\ list[i] \in KeysOf(list)
        /\ entries'[i] = Fresh(list[i])
        /\ index'[list[i]] = i
  BY <1>1, LastPositionIsUnique DEF KeysOf
<1>3. \A k \in DOMAIN index' : \E i \in DOMAIN list : k = list[i]
  BY <1>1 DEF KeysOf
<1>4. PoolTypeOK'
  <2> DOMAIN list = 1 .. Len(list) /\ Len(list) \in Nat
    OBVIOUS
  <2>1. entries' \in Seq(Entry)
    <3>1. \A i \in DOMAIN list : Fresh(list[i]) \in Entry
      BY DEF Entry, Fresh, ZeroTime
    <3>2. entries' \in [1 .. Len(list) -> Entry]
      BY <1>1, <3>1
    <3>3. QED
      BY <3>2, SeqDef
  <2>2. DOMAIN index' \subseteq Keys /\ index' \in [DOMAIN index' -> Nat]
    <3>1. \A k \in DOMAIN index' : k \in Keys /\ index'[k] \in Nat
      BY <1>2, <1>3
    <3>2. index' = [k \in DOMAIN index' |-> index'[k]]
      BY <1>1
    <3>3. QED
      BY <3>1, <3>2
  <2>3. QED
    BY <2>1, <2>2, <1>1 DEF PoolTypeOK
<1>5. IndexAgrees'
  <2>1. DOMAIN entries' = DOMAIN list /\ DOMAIN index' = KeysOf(list)
    BY <1>1
  <2>2. \A i \in DOMAIN list : entries'[i].key = list[i]
    <3>1. \A k : Fresh(k).key = k
      BY DEF Fresh
    <3>2. QED
      BY <1>2, <3>1
  <2>3. QED
    BY <1>2, <1>3, <2>1, <2>2 DEF IndexAgrees
<1>6. HealthAgrees'
  BY <1>1 DEF HealthAgrees, Fresh, ZeroTime
<1>7. QED
  BY <1>4, <1>5, <1>6 DEF PoolInv

(* A draw moves the cursor and nothing else (pool.go:82-110).                *)
LEMMA NextEntryPoolInv ==
  ASSUME PoolInv, NEW strategy, NEW t, NEW k, NextEntry(strategy, t, k)
  PROVE  PoolInv'
<1>1. UNCHANGED <<entries, index>>
  BY DEF NextEntry
<1>2. rr' \in Nat
  <2>1. CASE entries = <<>>
    BY <2>1 DEF NextEntry, PoolInv, PoolTypeOK
  <2>2. CASE entries # <<>>
    <3>1. Len(entries) \in Nat \ {0} /\ rr \in Nat
      BY <2>2 DEF PoolInv, PoolTypeOK
    <3>2. Start \in Nat
      BY <3>1 DEF Start
    <3>3. rr' = Start \/ rr' = rr
      BY <2>2 DEF NextEntry, RoundRobin, Random
    <3>4. QED
      BY <3>1, <3>2, <3>3
  <2>3. QED
    BY <2>1, <2>2
<1>3. QED
  BY <1>1, <1>2 DEF PoolInv, PoolTypeOK, IndexAgrees, HealthAgrees

(* A report changes at most one entry, which keeps its place and its key;    *)
(* the record it is given is coherent (pool.go:142-173).                     *)
LEMMA ReportPoolInv ==
  ASSUME PoolInv, NEW key, NEW failures \in Nat, NEW until \in Nat,
         (failures = 0) <=> (until = ZeroTime),
         SetHealth(key, failures, until)
  PROVE  PoolInv'
<1>1. CASE key \notin DOMAIN index
  BY <1>1 DEF SetHealth, PoolInv, PoolTypeOK, IndexAgrees, HealthAgrees
<1>2. CASE key \in DOMAIN index
  <2> DEFINE p == index[key]
             e == [entries[p] EXCEPT !.failures = failures, !.until = until]
  <2>1. p \in DOMAIN entries /\ entries[p] \in Entry
    BY <1>2 DEF PoolInv, IndexAgrees, PoolTypeOK
  <2>2. /\ e \in Entry
        /\ e.key = entries[p].key /\ e.failures = failures /\ e.until = until
        /\ entries' = [entries EXCEPT ![p] = e]
    BY <1>2, <2>1 DEF SetHealth, Entry
  <2>3. entries' \in Seq(Entry)
    BY <2>1, <2>2, ExceptSeq DEF PoolInv, PoolTypeOK
  <2>4. PoolTypeOK'
    BY <2>3 DEF SetHealth, PoolInv, PoolTypeOK
  <2>5. UNCHANGED index /\ DOMAIN entries' = DOMAIN entries
    BY <2>2 DEF SetHealth
  <2>6. IndexAgrees'
    BY <2>1, <2>2, <2>5 DEF PoolInv, IndexAgrees
  <2>7. HealthAgrees'
    BY <2>1, <2>2, <2>5 DEF PoolInv, HealthAgrees
  <2>8. QED
    BY <2>4, <2>6, <2>7 DEF PoolInv
<1>3. QED
  BY <1>1, <1>2

(* MarkSuccess keeps the pool's invariant (pool.go:142-151).                 *)
LEMMA MarkSuccessPoolInv ==
  ASSUME PoolInv, NEW key, MarkSuccess(key)
  PROVE  PoolInv'
BY ReportPoolInv, 0 \in Nat DEF MarkSuccess, ZeroTime

(* MarkFailure keeps it, whatever time it is given (pool.go:153-173).        *)
LEMMA MarkFailurePoolInv ==
  ASSUME PoolInv, NEW key, NEW t \in Nat \ {0}, MarkFailure(key, t)
  PROVE  PoolInv'
<1> DEFINE f == entries[index[key]].failures + 1
<1>1. CASE key \notin DOMAIN index
  BY <1>1 DEF MarkFailure, SetHealth, PoolInv, PoolTypeOK, IndexAgrees, HealthAgrees
<1>2. CASE key \in DOMAIN index
  <2>1. entries[index[key]] \in Entry
    BY <1>2 DEF PoolInv, IndexAgrees, PoolTypeOK
  <2>2. f \in Nat \ {0}
    BY <2>1 DEF Entry
  <2>3. SetHealth(key, f, t + Backoff(f))
    BY DEF MarkFailure
  <2>4. t + Backoff(f) \in Nat /\ t + Backoff(f) # ZeroTime
    BY BackoffRange DEF ZeroTime
  <2> HIDE DEF f
  <2>5. QED
    BY <2>2, <2>3, <2>4, ReportPoolInv DEF ZeroTime
<1>3. QED
  BY <1>1, <1>2

\* What stands at a position of the pool.
LEMMA EntryAt ==
  ASSUME PoolInv, NEW i \in DOMAIN entries
  PROVE  entries[i] \in Entry /\ entries[i].key \in Keys
<1>1. entries[i] \in Entry
  BY ElementOfSeq DEF PoolInv, PoolTypeOK
<1>2. QED
  BY <1>1 DEF Entry

\* Get and Active pass over no member with a clean record, Next over none if
\* it returns nothing.
LEMMA UnusableHasFailed ==
  ASSUME PoolInv, NEW i \in DOMAIN entries, NEW t \in Nat,
         ~ Usable(entries[i], t) \/ ~ Eligible(entries[i], t)
  PROVE  entries[i].failures > 0
<1>1. entries[i] \in Entry
  BY EntryAt
<1>2. entries[i].until # ZeroTime
  BY DEF Usable, Eligible
<1>3. entries[i].failures # 0
  BY <1>2 DEF PoolInv, HealthAgrees
<1>4. QED
  BY <1>1, <1>3 DEF Entry

\* Every position is looked at by one of the Len(entries) turns of the scan.
LEMMA ScanReaches ==
  ASSUME PoolInv, NEW i \in DOMAIN entries
  PROVE  \E n \in 0 .. Len(entries) - 1 : Scan(n) = i
<1> DEFINE N == Len(entries)
           s == Start
<1>1. N \in Nat /\ i \in 1 .. N
  BY DEF PoolInv, PoolTypeOK
<1>2. s \in 0 .. N - 1
  BY <1>1 DEF PoolInv, PoolTypeOK, Start
<1>3. \A n : Scan(n) = ((s + n) % N) + 1
  BY DEF Scan
<1> HIDE DEF N, s
<1>4. CASE i - 1 >= s
  <2>1. (s + (i - 1 - s)) % N = i - 1
    BY <1>1, <1>2, <1>4
  <2>2. i - 1 - s \in 0 .. N - 1
    BY <1>1, <1>2, <1>4
  <2>3. Scan(i - 1 - s) = (i - 1) + 1
    BY <1>3, <2>1
  <2>4. QED
    BY <1>1, <2>2, <2>3 DEF N
<1>5. CASE i - 1 < s
  <2>1. (s + (i - 1 - s + N)) % N = i - 1
    BY <1>1, <1>2, <1>5
  <2>2. i - 1 - s + N \in 0 .. N - 1
    BY <1>1, <1>2, <1>5
  <2>3. Scan(i - 1 - s + N) = (i - 1) + 1
    BY <1>3, <2>1
  <2>4. QED
    BY <1>1, <2>2, <2>3 DEF N
<1>6. QED
  BY <1>1, <1>2, <1>4, <1>5

\* The scan looks at positions of the pool only.
LEMMA ScanInside ==
  ASSUME PoolInv, entries # <<>>, NEW n \in 0 .. Len(entries) - 1
  PROVE  Scan(n) \in DOMAIN entries
<1>1. Len(entries) \in Nat \ {0} /\ DOMAIN entries = 1 .. Len(entries) /\ rr \in Nat
  BY DEF PoolInv, PoolTypeOK
<1>2. Start \in Nat
  BY <1>1 DEF Start
<1>3. (Start + n) % Len(entries) \in 0 .. Len(entries) - 1
  BY <1>1, <1>2
<1>4. QED
  BY <1>1, <1>3 DEF Scan

\* A report writes the record of the entry that carries the key, and no other.
LEMMA ReportEffect ==
  ASSUME PoolInv, NEW key, NEW failures, NEW until, SetHealth(key, failures, until)
  PROVE  /\ DOMAIN entries' = DOMAIN entries
         /\ \A i \in DOMAIN entries :
              /\ entries'[i].key = entries[i].key
              /\ entries[i].key = key =>
                   entries'[i].failures = failures /\ entries'[i].until = until
              /\ entries[i].key # key => entries'[i] = entries[i]
<1>1. CASE key \notin DOMAIN index
  BY <1>1 DEF SetHealth, PoolInv, IndexAgrees
<1>2. CASE key \in DOMAIN index
  <2> DEFINE e == [entries[index[key]] EXCEPT !.failures = failures, !.until = until]
  <2>1. /\ index[key] \in DOMAIN entries /\ entries[index[key]].key = key
        /\ \A i \in DOMAIN entries : entries[i].key = key => i = index[key]
    BY <1>2 DEF PoolInv, IndexAgrees
  <2>2. entries' = [entries EXCEPT ![index[key]] = e]
    BY <1>2 DEF SetHealth
  <2>3. e.key = key /\ e.failures = failures /\ e.until = until
    <3>1. entries[index[key]] \in Entry
      BY <2>1, EntryAt
    <3>2. QED
      BY <2>1, <3>1 DEF Entry
  <2> HIDE DEF e
  <2>4. QED
    BY <2>1, <2>2, <2>3
<1>3. QED
  BY <1>1, <1>2

=============================================================================
