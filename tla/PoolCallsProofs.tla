----------------------------- MODULE PoolCallsProofs -----------------------------
(***************************************************************************)
(* The invariants of the pool under arbitrary calls, and the refinement of *)
(* UpstreamHealth, for every set of keys, every list an update delivers,   *)
(* every pair of backoffs and every bound.                                 *)
(***************************************************************************)
EXTENDS PoolCalls, PoolProofs

CallsInv ==
  /\ PoolInv
  /\ now \in Nat \ {0}
  /\ passed \in [Keys -> Nat]
  /\ PenaltyBounded

(* A report puts the penalty on one entry, counted from the time it carries, *)
(* and leaves the others their own.                                          *)
LEMMA FailurePenalty ==
  ASSUME CallsInv, NEW k \in DOMAIN index, NEW t \in 1 .. now, MarkFailure(k, t)
  PROVE  \E d \in Nat :
           /\ d >= BaseBackoff \/ d >= MaxBackoff
           /\ d <= BaseBackoff \/ d <= MaxBackoff
           /\ index[k] \in DOMAIN entries
           /\ DOMAIN entries' = DOMAIN entries
           /\ entries'[index[k]].failures = entries[index[k]].failures + 1
           /\ entries'[index[k]].until = t + d
           /\ \A i \in DOMAIN entries \ {index[k]} : entries'[i] = entries[i]
<1> DEFINE f == entries[index[k]].failures + 1
           d == Backoff(f)
           e == [entries[index[k]] EXCEPT !.failures = f, !.until = t + d]
<1>1. /\ d \in Nat
      /\ d >= BaseBackoff \/ d >= MaxBackoff
      /\ d <= BaseBackoff \/ d <= MaxBackoff
  BY BackoffRange
<1>2. index[k] \in DOMAIN entries /\ entries[index[k]] \in Entry
  BY DEF CallsInv, PoolInv, IndexAgrees, PoolTypeOK
<1>3. entries' = [entries EXCEPT ![index[k]] = e]
  BY <1>2 DEF MarkFailure, SetHealth
<1>4. e.failures = f /\ e.until = t + d
  <2> HIDE DEF f, d
  <2> QED BY <1>2 DEF Entry
<1> HIDE DEF e, d
<1>5. QED
  BY <1>1, <1>2, <1>3, <1>4

LEMMA CallsInvInit ==
  CallsInit => CallsInv
<1>1. PoolInit => PenaltyBounded
  BY DEF PoolInit, PenaltyBounded
<1>2. QED
  BY <1>1, InitPoolInv DEF CallsInit, CallsInv

LEMMA CallsInvNext ==
  CallsInv /\ [CallsNext]_callVars => CallsInv'
<1> SUFFICES ASSUME CallsInv, [CallsNext]_callVars
             PROVE  CallsInv'
  OBVIOUS
<1> now \in Nat \ {0} /\ BaseBackoff \in Nat /\ MaxBackoff \in Nat
  BY PoolAssumption DEF CallsInv
<1>1. ASSUME DoUpdate PROVE CallsInv'
  <2>1. PICK list \in EntryLists : Update(list)
    BY <1>1 DEF DoUpdate
  <2>2. PoolInv'
    BY <2>1, CallsAssumption, UpdatePoolInv
  <2>3. passed' \in [Keys -> Nat] /\ now' = now
    BY <1>1 DEF DoUpdate
  <2>4. \A i \in DOMAIN entries' : entries'[i].until = 0
    BY <2>1 DEF Update, Fresh, ZeroTime
  <2>5. PenaltyBounded'
    BY <2>3, <2>4 DEF PenaltyBounded
  <2>6. QED
    BY <2>2, <2>3, <2>5 DEF CallsInv
<1>2. ASSUME DoNext PROVE CallsInv'
  <2>1. PICK k \in Keys \cup {None} :
          /\ NextEntry(Strategy, now, k)
          /\ passed' = [q \in Keys |-> IF q \in EligibleKeys(now) /\ q # k
                                         THEN passed[q] + 1 ELSE 0]
    BY <1>2 DEF DoNext
  <2>2. PoolInv'
    BY <2>1, NextEntryPoolInv DEF CallsInv
  <2>3. passed' \in [Keys -> Nat]
    BY <2>1 DEF CallsInv
  <2>4. UNCHANGED <<entries, now>>
    BY <1>2, <2>1 DEF DoNext, NextEntry
  <2>5. QED
    BY <2>2, <2>3, <2>4 DEF CallsInv, PenaltyBounded
<1>3. ASSUME DoMarkSuccess PROVE CallsInv'
  <2>1. PICK k \in Keys : MarkSuccess(k)
    BY <1>3 DEF DoMarkSuccess
  <2>2. PoolInv'
    BY <2>1, MarkSuccessPoolInv DEF CallsInv
  <2>3. PenaltyBounded'
    <3>1. CASE k \notin DOMAIN index
      BY <1>3, <2>1, <3>1 DEF DoMarkSuccess, MarkSuccess, SetHealth, CallsInv, PenaltyBounded
    <3>2. CASE k \in DOMAIN index
      <4>1. index[k] \in DOMAIN entries /\ entries[index[k]] \in Entry
        BY <3>2 DEF CallsInv, PoolInv, IndexAgrees, PoolTypeOK
      <4>2. /\ DOMAIN entries' = DOMAIN entries
            /\ entries'[index[k]].until = 0
            /\ \A i \in DOMAIN entries \ {index[k]} : entries'[i] = entries[i]
        BY <2>1, <3>2, <4>1 DEF MarkSuccess, SetHealth, Entry, ZeroTime
      <4>3. QED
        BY <1>3, <4>2 DEF DoMarkSuccess, CallsInv, PenaltyBounded
    <3>3. QED
      BY <3>1, <3>2
  <2>4. QED
    BY <1>3, <2>2, <2>3 DEF DoMarkSuccess, CallsInv
<1>4. ASSUME DoMarkFailure PROVE CallsInv'
  <2>1. PICK k \in Keys, t \in 1 .. now : MarkFailure(k, t)
    BY <1>4 DEF DoMarkFailure
  <2>2. PoolInv'
    BY <2>1, MarkFailurePoolInv DEF CallsInv
  <2>3. PenaltyBounded'
    <3>1. CASE k \notin DOMAIN index
      BY <1>4, <2>1, <3>1 DEF DoMarkFailure, MarkFailure, SetHealth, CallsInv, PenaltyBounded
    <3>2. CASE k \in DOMAIN index
      <4>1. PICK d \in Nat :
              /\ d <= BaseBackoff \/ d <= MaxBackoff
              /\ DOMAIN entries' = DOMAIN entries
              /\ entries'[index[k]].until = t + d
              /\ \A i \in DOMAIN entries \ {index[k]} : entries'[i] = entries[i]
        BY <2>1, <3>2, FailurePenalty
      <4>2. now' = now
        BY <1>4 DEF DoMarkFailure
      <4>3. ASSUME NEW i \in DOMAIN entries
            PROVE  entries'[i].until <= now + BaseBackoff \/ entries'[i].until <= now + MaxBackoff
        <5>1. CASE i = index[k]
          BY <4>1, <5>1
        <5>2. CASE i # index[k]
          BY <4>1, <5>2 DEF CallsInv, PenaltyBounded
        <5>3. QED
          BY <5>1, <5>2
      <4>4. QED
        BY <4>1, <4>2, <4>3 DEF PenaltyBounded
    <3>3. QED
      BY <3>1, <3>2
  <2>4. QED
    BY <1>4, <2>2, <2>3 DEF DoMarkFailure, CallsInv
<1>5. ASSUME Tick PROVE CallsInv'
  <2>1. PoolInv' /\ passed' = passed /\ now' = now + 1
    BY <1>5 DEF Tick, CallsInv, PoolInv, PoolTypeOK, IndexAgrees, HealthAgrees
  <2>2. ASSUME NEW i \in DOMAIN entries
        PROVE  entries[i].until <= now' + BaseBackoff \/ entries[i].until <= now' + MaxBackoff
    <3>1. entries[i] \in Entry
      BY DEF CallsInv, PoolInv, PoolTypeOK
    <3>2. entries[i].until \in Nat
      BY <3>1 DEF Entry
    <3>3. QED
      BY <2>1, <3>2 DEF CallsInv, PenaltyBounded
  <2>3. PenaltyBounded'
    BY <1>5, <2>2 DEF Tick, PenaltyBounded
  <2>4. QED
    BY <2>1, <2>3 DEF CallsInv
<1>6. ASSUME UNCHANGED callVars PROVE CallsInv'
  BY <1>6 DEF callVars, CallsInv, PoolInv, PoolTypeOK, IndexAgrees, HealthAgrees, PenaltyBounded
<1>7. QED
  BY <1>1, <1>2, <1>3, <1>4, <1>5, <1>6 DEF CallsNext

(* The invariant the rest follows from.                                      *)
THEOREM CallsInvariant ==
  CallsSpec => []CallsInv
BY CallsInvInit, CallsInvNext, PTL DEF CallsSpec

(* The pool, its clock and its history keep their types under any calls.     *)
THEOREM TypeCorrect ==
  CallsSpec => []TypeOK
<1>1. CallsInv => TypeOK
  BY DEF CallsInv, PoolInv, TypeOK
<1>2. QED
  BY <1>1, CallsInvariant, PTL

(* Index and entries describe the same upstreams after any calls             *)
(* (pool.go:67-77, 116-120, 145-149, 156-161).                               *)
THEOREM IndexAlwaysAgrees ==
  CallsSpec => []IndexAgrees
<1>1. CallsInv => IndexAgrees
  BY DEF CallsInv, PoolInv
<1>2. QED
  BY <1>1, CallsInvariant, PTL

(* An entry is disabled exactly while it has failures on record, after any   *)
(* calls (pool.go:149-150, 161-172).                                         *)
THEOREM HealthAlwaysAgrees ==
  CallsSpec => []HealthAgrees
<1>1. CallsInv => HealthAgrees
  BY DEF CallsInv, PoolInv
<1>2. QED
  BY <1>1, CallsInvariant, PTL

(* No upstream is locked out beyond the larger backoff from now, after any   *)
(* calls (pool.go:164-172).                                                  *)
THEOREM PenaltyAlwaysBounded ==
  CallsSpec => []PenaltyBounded
<1>1. CallsInv => PenaltyBounded
  BY DEF CallsInv
<1>2. QED
  BY <1>1, CallsInvariant, PTL

-----------------------------------------------------------------------------
(* The refinement: what each operation is to the map of health records.      *)

Mapped ==
  [k \in DOMAIN index |-> [failures |-> entries[index[k]].failures,
                           until |-> entries[index[k]].until]]

(* The empty pool is the empty map.                                          *)
LEMMA InitRefines ==
  CallsInit => Health!HealthInit
BY DEF CallsInit, PoolInit, Health!HealthInit

(* An update is Replace: every member of the new list starts clean.          *)
LEMMA UpdateRefines ==
  CallsInv /\ DoUpdate => Health!Replace
<1> SUFFICES ASSUME CallsInv, DoUpdate PROVE Health!Replace
  OBVIOUS
<1>1. PICK list \in EntryLists : Update(list)
  BY DEF DoUpdate
<1>2. IndexAgrees' /\ DOMAIN index' \subseteq Keys
  BY <1>1, CallsAssumption, UpdatePoolInv DEF PoolInv, PoolTypeOK
<1>3. \A i \in DOMAIN entries' : entries'[i].failures = 0 /\ entries'[i].until = 0
  BY <1>1 DEF Update, Fresh, ZeroTime
<1>4. Mapped' = [k \in DOMAIN index' |-> Health!Clean]
  BY <1>2, <1>3 DEF Mapped, IndexAgrees, Health!Clean
<1>5. now' = now
  BY DEF DoUpdate
<1>6. QED
  BY <1>2, <1>4, <1>5 DEF Health!Replace, Mapped

(* A draw is a stutter.                                                      *)
LEMMA NextRefines ==
  DoNext => UNCHANGED Health!healthVars
BY DEF DoNext, NextEntry, Health!healthVars

(* A success is Succeed for a member, a stutter for anyone else.             *)
LEMMA SuccessRefines ==
  ASSUME CallsInv, NEW k \in Keys, MarkSuccess(k), UNCHANGED now
  PROVE  (k \in DOMAIN index /\ Health!Succeed(k)) \/ UNCHANGED Health!healthVars
<1>1. CASE k \notin DOMAIN index
  BY <1>1 DEF MarkSuccess, SetHealth, Health!healthVars
<1>2. CASE k \in DOMAIN index
  <2>1. index[k] \in DOMAIN entries /\ entries[index[k]] \in Entry
    BY <1>2 DEF CallsInv, PoolInv, IndexAgrees, PoolTypeOK
  <2>2. /\ DOMAIN entries' = DOMAIN entries
        /\ entries'[index[k]].failures = 0
        /\ entries'[index[k]].until = 0
        /\ \A i \in DOMAIN entries \ {index[k]} : entries'[i] = entries[i]
        /\ index' = index
    BY <1>2, <2>1 DEF MarkSuccess, SetHealth, Entry, ZeroTime
  <2>3. \A q \in DOMAIN index \ {k} : index[q] \in DOMAIN entries \ {index[k]}
    BY <1>2 DEF CallsInv, PoolInv, IndexAgrees
  <2>4. Mapped' = [Mapped EXCEPT ![k] = Health!Clean]
    BY <1>2, <2>2, <2>3 DEF Mapped, Health!Clean
  <2>5. QED
    BY <1>2, <2>4 DEF Health!Succeed, Mapped
<1>3. QED
  BY <1>1, <1>2

(* A failure is Fail for a member, a stutter for anyone else.                *)
LEMMA FailureRefines ==
  ASSUME CallsInv, NEW k \in Keys, NEW t \in 1 .. now, MarkFailure(k, t), UNCHANGED now
  PROVE  (k \in DOMAIN index /\ Health!Fail(k, t)) \/ UNCHANGED Health!healthVars
<1>1. CASE k \notin DOMAIN index
  BY <1>1 DEF MarkFailure, SetHealth, Health!healthVars
<1>2. CASE k \in DOMAIN index
  <2>1. PICK d \in Nat :
          /\ d >= BaseBackoff \/ d >= MaxBackoff
          /\ d <= BaseBackoff \/ d <= MaxBackoff
          /\ index[k] \in DOMAIN entries
          /\ DOMAIN entries' = DOMAIN entries
          /\ entries'[index[k]].failures = entries[index[k]].failures + 1
          /\ entries'[index[k]].until = t + d
          /\ \A i \in DOMAIN entries \ {index[k]} : entries'[i] = entries[i]
    BY <1>2, FailurePenalty
  <2>2. d \in Health!Penalty
    BY <2>1, PoolAssumption DEF Health!Penalty
  <2>3. index' = index
    BY DEF MarkFailure, SetHealth
  <2>4. \A q \in DOMAIN index \ {k} : index[q] \in DOMAIN entries \ {index[k]}
    BY <1>2 DEF CallsInv, PoolInv, IndexAgrees
  <2>5. Mapped' = [Mapped EXCEPT ![k] = [failures |-> @.failures + 1, until |-> t + d]]
    BY <1>2, <2>1, <2>3, <2>4 DEF Mapped
  <2>6. QED
    BY <1>2, <2>2, <2>5 DEF Health!Fail, Mapped
<1>3. QED
  BY <1>1, <1>2

(* The pool implements the map from members to health: whatever positions,   *)
(* index and cursor do, an operation changes the record of the key it names  *)
(* and of no other (pool.go:67-173).                                         *)
THEOREM RefinesHealth ==
  CallsSpec => ImplementsHealth
<1>1. CallsInit => Health!HealthInit
  BY InitRefines
<1>2. CallsInv /\ [CallsNext]_callVars => [Health!HealthNext]_(Health!healthVars)
  <2> SUFFICES ASSUME CallsInv, [CallsNext]_callVars
               PROVE  Health!HealthNext \/ UNCHANGED Health!healthVars
    OBVIOUS
  <2>1. ASSUME DoUpdate PROVE Health!HealthNext
    BY <2>1, UpdateRefines DEF Health!HealthNext
  <2>2. ASSUME DoNext PROVE UNCHANGED Health!healthVars
    BY <2>2, NextRefines
  <2>3. ASSUME DoMarkSuccess PROVE Health!HealthNext \/ UNCHANGED Health!healthVars
    <3>1. PICK k \in Keys : MarkSuccess(k)
      BY <2>3 DEF DoMarkSuccess
    <3>2. (k \in DOMAIN index /\ Health!Succeed(k)) \/ UNCHANGED Health!healthVars
      BY <2>3, <3>1, SuccessRefines DEF DoMarkSuccess
    <3>3. QED
      BY <3>2 DEF Health!HealthNext
  <2>4. ASSUME DoMarkFailure PROVE Health!HealthNext \/ UNCHANGED Health!healthVars
    <3>1. PICK k \in Keys, t \in 1 .. now : MarkFailure(k, t)
      BY <2>4 DEF DoMarkFailure
    <3>2. (k \in DOMAIN index /\ Health!Fail(k, t)) \/ UNCHANGED Health!healthVars
      BY <2>4, <3>1, FailureRefines DEF DoMarkFailure
    <3>3. QED
      BY <3>1, <3>2 DEF Health!HealthNext
  <2>5. ASSUME Tick PROVE Health!HealthNext
    BY <2>5 DEF Tick, Health!HealthNext, Health!Pass
  <2>6. ASSUME UNCHANGED callVars PROVE UNCHANGED Health!healthVars
    BY <2>6 DEF callVars, Health!healthVars
  <2>7. QED
    BY <2>1, <2>2, <2>3, <2>4, <2>5, <2>6 DEF CallsNext
<1>3. QED
  BY <1>1, <1>2, CallsInvariant, PTL DEF CallsSpec, ImplementsHealth, Health!HealthSpec

-----------------------------------------------------------------------------
(* Round robin starves no one: an upstream that is passed over is one turn   *)
(* nearer to the cursor after each call.                                     *)

\* How many positions the next scan looks at before position i.
Ahead(i) == IF i - 1 >= Start THEN i - 1 - Start ELSE i - 1 - Start + Len(entries)

\* What an upstream has waited and what it may still have to wait together stay
\* within one round.
TurnInv ==
  Strategy = "round_robin" =>
    \A i \in DOMAIN entries : passed[entries[i].key] + Ahead(i) < Len(entries)

\* Of n positions and a scan that starts after the cursor c, from 0.
LEMMA TurnsRange ==
  ASSUME NEW n \in Nat \ {0}, NEW c \in Nat, NEW i \in 1 .. n
  PROVE  (IF i - 1 >= (c + 1) % n THEN i - 1 - ((c + 1) % n)
          ELSE i - 1 - ((c + 1) % n) + n) \in 0 .. n - 1
<1>1. (c + 1) % n \in 0 .. n - 1
  OBVIOUS
<1>2. QED
  BY <1>1

LEMMA AheadRange ==
  ASSUME PoolInv, NEW i \in DOMAIN entries
  PROVE  Ahead(i) \in 0 .. Len(entries) - 1
<1>1. Len(entries) \in Nat \ {0} /\ i \in 1 .. Len(entries) /\ rr \in Nat
  BY DEF PoolInv, PoolTypeOK
<1>2. QED
  BY <1>1, TurnsRange DEF Ahead, Start

\* A call brings every position one turn nearer, the one it starts at excepted.
LEMMA TurnsPass ==
  ASSUME PoolInv, NEW i \in DOMAIN entries, Start # i - 1, rr' = Start, UNCHANGED entries
  PROVE  Ahead(i)' = Ahead(i) - 1
<1>1. Len(entries) \in Nat \ {0} /\ i \in 1 .. Len(entries) /\ rr \in Nat
  BY DEF PoolInv, PoolTypeOK
<1>2. Start \in 0 .. Len(entries) - 1 /\ Start' = (Start + 1) % Len(entries)
  BY <1>1 DEF Start
<1>3. Start' = IF Start = Len(entries) - 1 THEN 0 ELSE Start + 1
  BY <1>1, <1>2
<1>4. Ahead(i)' = IF i - 1 >= Start' THEN i - 1 - Start' ELSE i - 1 - Start' + Len(entries)
  BY DEF Ahead
<1>5. QED
  BY <1>1, <1>2, <1>3, <1>4 DEF Ahead

\* The scan starts with the position the cursor is moved to: an eligible
\* upstream there is the one that is returned.
LEMMA FirstOfScan ==
  ASSUME PoolInv, NEW t, NEW k, RoundRobin(t, k), NEW i \in DOMAIN entries,
         Start = i - 1, Eligible(entries[i], t)
  PROVE  k = entries[i].key
<1>1. Len(entries) \in Nat \ {0} /\ i \in 1 .. Len(entries)
  BY DEF PoolInv, PoolTypeOK
<1>2. Scan(0) = i
  BY <1>1 DEF Scan
<1>3. ASSUME NEW n \in 0 .. Len(entries) - 1,
             \A j \in 0 .. n - 1 : ~ Eligible(entries[Scan(j)], t)
      PROVE  n = 0
  <2>1. n # 0 => 0 \in 0 .. n - 1
    BY <1>1
  <2>2. 0 \notin 0 .. n - 1
    BY <1>2, <1>3
  <2>3. QED
    BY <2>1, <2>2
<1>4. 0 \in 0 .. Len(entries) - 1
  BY <1>1
<1>5. QED
  BY <1>2, <1>3, <1>4 DEF RoundRobin

LEMMA TurnInvInit ==
  CallsInit => TurnInv
BY DEF CallsInit, PoolInit, TurnInv

LEMMA TurnInvNext ==
  CallsInv /\ TurnInv /\ [CallsNext]_callVars /\ CallsInv' => TurnInv'
<1> SUFFICES ASSUME CallsInv, TurnInv, [CallsNext]_callVars, CallsInv',
                    Strategy = "round_robin", NEW i \in DOMAIN entries'
             PROVE  passed'[entries'[i].key] + Ahead(i)' < Len(entries')
  BY DEF TurnInv
<1>1. /\ Ahead(i)' \in 0 .. Len(entries') - 1
      /\ entries'[i].key \in Keys
      /\ Len(entries') \in Nat
  <2>1. PoolInv'
    BY DEF CallsInv
  <2>2. entries' \in Seq(Entry) /\ rr' \in Nat
    BY <2>1 DEF PoolInv, PoolTypeOK
  <2>3. Len(entries') \in Nat \ {0} /\ i \in 1 .. Len(entries') /\ entries'[i] \in Entry
    BY <2>2, ElementOfSeq
  <2>4. Ahead(i)' \in 0 .. Len(entries') - 1
    BY <2>2, <2>3, TurnsRange DEF Ahead, Start
  <2>5. QED
    BY <2>3, <2>4 DEF Entry
<1>2. ASSUME passed'[entries'[i].key] = 0
      PROVE  passed'[entries'[i].key] + Ahead(i)' < Len(entries')
  BY <1>1, <1>2
<1>3. ASSUME UNCHANGED <<rr, passed>>, DOMAIN entries' = DOMAIN entries,
             entries'[i].key = entries[i].key
      PROVE  passed'[entries'[i].key] + Ahead(i)' < Len(entries')
  <2>1. Len(entries') = Len(entries)
    BY <1>3 DEF CallsInv, PoolInv, PoolTypeOK
  <2>2. Ahead(i)' = Ahead(i)
    BY <1>3, <2>1 DEF Ahead, Start
  <2>3. QED
    BY <1>3, <2>1, <2>2 DEF TurnInv
<1>4. CASE DoUpdate
  BY <1>1, <1>2, <1>4 DEF DoUpdate
<1>5. CASE DoNext
  <2>1. PICK k \in Keys \cup {None} :
          /\ NextEntry(Strategy, now, k)
          /\ passed' = [q \in Keys |-> IF q \in EligibleKeys(now) /\ q # k
                                         THEN passed[q] + 1 ELSE 0]
    BY <1>5 DEF DoNext
  <2>2. UNCHANGED entries /\ entries # <<>> /\ rr' = Start /\ RoundRobin(now, k)
    BY <2>1 DEF NextEntry, RoundRobin
  <2>3. CASE entries[i].key \in EligibleKeys(now) /\ entries[i].key # k
    <3>1. Eligible(entries[i], now)
      BY <2>2, <2>3 DEF EligibleKeys, CallsInv, PoolInv, IndexAgrees
    <3>2. Start # i - 1
      BY <2>2, <2>3, <3>1, FirstOfScan DEF CallsInv
    <3>3. Ahead(i)' = Ahead(i) - 1
      BY <2>2, <3>2, TurnsPass DEF CallsInv
    <3>4. passed'[entries'[i].key] = passed[entries[i].key] + 1
      BY <1>1, <2>1, <2>2, <2>3
    <3>5. passed[entries[i].key] + Ahead(i) < Len(entries)
      BY <2>2 DEF TurnInv
    <3>6. passed[entries[i].key] \in Nat /\ Ahead(i) \in Nat
      BY <1>1, <2>2, AheadRange DEF CallsInv
    <3>7. QED
      BY <1>1, <2>2, <3>3, <3>4, <3>5, <3>6
  <2>4. CASE ~ (entries[i].key \in EligibleKeys(now) /\ entries[i].key # k)
    BY <1>1, <1>2, <2>1, <2>2, <2>4
  <2>5. QED
    BY <2>3, <2>4
<1>6. CASE DoMarkSuccess
  <2>1. PICK k \in Keys : SetHealth(k, 0, ZeroTime)
    BY <1>6 DEF DoMarkSuccess, MarkSuccess
  <2>2. UNCHANGED <<rr, passed>>
    BY <1>6, <2>1 DEF DoMarkSuccess, SetHealth
  <2>3. QED
    BY <1>3, <2>1, <2>2, ReportEffect DEF CallsInv
<1>7. CASE DoMarkFailure
  <2>1. PICK k \in Keys, t \in 1 .. now : MarkFailure(k, t)
    BY <1>7 DEF DoMarkFailure
  <2>2. \E f, u : SetHealth(k, f, u)
    BY <2>1 DEF MarkFailure
  <2>3. UNCHANGED <<rr, passed>>
    BY <1>7, <2>1 DEF DoMarkFailure, MarkFailure, SetHealth
  <2>4. QED
    BY <1>3, <2>2, <2>3, ReportEffect DEF CallsInv
<1>8. CASE Tick \/ UNCHANGED callVars
  BY <1>3, <1>8 DEF Tick, callVars
<1>9. QED
  BY <1>4, <1>5, <1>6, <1>7, <1>8 DEF CallsNext

(* Whatever is disabled around it, an upstream that stays eligible is        *)
(* returned by one of any Len(entries) consecutive calls of Next             *)
(* (pool.go:99-108).                                                         *)
THEOREM NoOneStarves ==
  CallsSpec => []NoStarvation
<1>1. CallsSpec => []TurnInv
  BY TurnInvInit, TurnInvNext, CallsInvariant, PTL DEF CallsSpec
<1>2. CallsInv /\ TurnInv => NoStarvation
  <2> SUFFICES ASSUME CallsInv, TurnInv, Strategy = "round_robin", NEW i \in DOMAIN entries
               PROVE  passed[entries[i].key] < Len(entries)
    BY DEF NoStarvation
  <2>1. passed[entries[i].key] + Ahead(i) < Len(entries)
    BY DEF TurnInv
  <2>2. /\ passed[entries[i].key] \in Nat /\ Ahead(i) \in Nat /\ Len(entries) \in Nat
    BY EntryAt, AheadRange DEF CallsInv, PoolInv, PoolTypeOK
  <2>3. QED
    BY <2>1, <2>2
<1>3. QED
  BY <1>1, <1>2, CallsInvariant, PTL

=============================================================================
