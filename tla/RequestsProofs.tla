----------------------------- MODULE RequestsProofs ------------------------------
(***************************************************************************)
(* Types, the bound on tries and soft failover, for any number of          *)
(* concurrent requests, any retry limit, any upstreams and any scores.     *)
(***************************************************************************)
EXTENDS Requests, PoolProofs, FiniteSetTheorems

\* The request holds an upstream it has not reported as failed.
Pending(r) == phase[r] \in {"dial", "failed", "served"}

\* A request that left "new" has read the clock; one that is past the selection
\* holds an upstream.
HandlerInv ==
  \A r \in Clients :
    /\ phase[r] # "new" => stamp[r] # 0
    /\ Pending(r) => upstream[r] \in Keys

\* The history against the loop counter: one dial per turn of the loop.
CountInv ==
  \A r \in Clients :
    /\ Len(tried[r]) =
         attempt[r] + IF Pending(r) \/ phase[r] = "badgateway" THEN 1 ELSE 0
    /\ attempt[r] # 0 => profile[r].again

\* Every dial of a soft sticky request is in attempted, save the pending one,
\* and no two are to the same upstream.
SoftInv ==
  \A r \in Clients : SoftSticky(r) =>
    /\ \A i \in DOMAIN tried[r] :
         \/ tried[r][i] \in attempted[r]
         \/ Pending(r) /\ tried[r][i] = upstream[r]
    /\ \A i, j \in DOMAIN tried[r] : tried[r][i] = tried[r][j] => i = j

RequestsInv == PoolInv /\ TypeOK /\ HandlerInv /\ CountInv /\ SoftInv

LEMMA RequestsInvInit ==
  Init => RequestsInv
<1> SUFFICES ASSUME Init PROVE RequestsInv
  OBVIOUS
<1>1. PoolInv
  BY InitPoolInv DEF Init
<1>2. \A r \in Clients : phase[r] = "new" /\ attempt[r] = 0 /\ tried[r] = <<>>
  BY DEF Init
<1>3. TypeOK
  <2>1. <<>> \in Seq(Keys) /\ 0 \in 0 .. Retries
    BY RequestsAssumption
  <2>2. QED
    BY <1>1, <2>1 DEF Init, TypeOK, PoolInv
<1>4. HandlerInv /\ CountInv /\ SoftInv
  BY <1>2 DEF HandlerInv, CountInv, SoftInv, Pending
<1>5. QED
  BY <1>1, <1>3, <1>4 DEF RequestsInv

-----------------------------------------------------------------------------
(* The parts of the invariant speak of one request each: only the request    *)
(* that takes a step has to be looked at.                                    *)
RequestInv(r) ==
  /\ phase[r] # "new" => stamp[r] # 0
  /\ Pending(r) => upstream[r] \in Keys
  /\ Len(tried[r]) =
       attempt[r] + IF Pending(r) \/ phase[r] = "badgateway" THEN 1 ELSE 0
  /\ attempt[r] # 0 => profile[r].again
  /\ SoftSticky(r) =>
       /\ \A i \in DOMAIN tried[r] :
            \/ tried[r][i] \in attempted[r]
            \/ Pending(r) /\ tried[r][i] = upstream[r]
       /\ \A i, j \in DOMAIN tried[r] : tried[r][i] = tried[r][j] => i = j

LEMMA OnlyTheMoverMatters ==
  ASSUME RequestsInv, NEW r \in Clients, PoolInv', TypeOK', RequestInv(r)',
         UNCHANGED profile,
         \A q \in Clients \ {r} :
           /\ phase'[q] = phase[q] /\ attempt'[q] = attempt[q]
           /\ stamp'[q] = stamp[q] /\ upstream'[q] = upstream[q]
           /\ attempted'[q] = attempted[q] /\ tried'[q] = tried[q]
  PROVE  RequestsInv'
<1>1. \A q \in Clients : RequestInv(q)
  BY DEF RequestsInv, HandlerInv, CountInv, SoftInv, RequestInv
<1>2. ASSUME NEW q \in Clients, q # r PROVE RequestInv(q)'
  BY <1>1, <1>2 DEF RequestInv, Pending, SoftSticky, SelectionMode
<1>3. \A q \in Clients : RequestInv(q)'
  BY <1>2
<1>4. QED
  BY <1>3 DEF RequestsInv, HandlerInv, CountInv, SoftInv, RequestInv

\* Profiles of requests that arrive are well formed.
LEMMA ProfileType ==
  ASSUME RequestsInv, NEW r \in Clients
  PROVE  profile[r] \in Profile
BY RequestsAssumption DEF RequestsInv, TypeOK

LEMMA ArriveInv ==
  ASSUME RequestsInv, NEW r \in Clients, Arrive(r)
  PROVE  RequestsInv'
<1>1. PoolInv'
  BY DEF Arrive, poolVars, RequestsInv, PoolInv, PoolTypeOK, IndexAgrees, HealthAgrees
<1>2. TypeOK'
  BY <1>1 DEF Arrive, RequestsInv, TypeOK, PoolInv
<1>3. RequestInv(r)'
  <2>1. /\ phase[r] = "new" /\ phase'[r] = "select" /\ stamp'[r] = now
        /\ tried'[r] = tried[r] /\ attempt'[r] = attempt[r]
        /\ attempted'[r] = attempted[r] /\ profile' = profile
    BY DEF Arrive, RequestsInv, TypeOK
  <2>2. now # 0
    BY DEF RequestsInv, TypeOK
  <2>3. QED
    BY <2>1, <2>2 DEF RequestInv, RequestsInv, CountInv, SoftInv, Pending,
                      SoftSticky, SelectionMode
<1>4. QED
  BY <1>1, <1>2, <1>3, OnlyTheMoverMatters DEF Arrive, RequestsInv, TypeOK

(* A selection, whichever way the upstream was picked: if a soft sticky      *)
(* request was not given one it has attempted, nothing is broken.            *)
LEMMA HoldsInv ==
  ASSUME RequestsInv, NEW r \in Clients, phase[r] = "select", PoolInv',
         NEW k \in Keys \cup {None}, NEW refusal \in {"unknown", "unavailable"},
         SoftSticky(r) /\ k # None => k \notin attempted[r],
         Holds(r, k, refusal)
  PROVE  RequestsInv'
<1>1. /\ UNCHANGED <<now, profile, attempt, stamp, attempted, gone>>
      /\ stamp[r] # 0
      /\ Len(tried[r]) = attempt[r] /\ attempt[r] \in 0 .. Retries
      /\ tried[r] \in Seq(Keys)
  <2>1. UNCHANGED <<now, profile, attempt, stamp, attempted, gone>>
    BY DEF Holds
  <2>2. attempt[r] \in 0 .. Retries /\ tried[r] \in Seq(Keys)
    BY DEF RequestsInv, TypeOK
  <2>3. Len(tried[r]) = attempt[r] + 0
    BY DEF RequestsInv, CountInv, Pending
  <2>4. stamp[r] # 0
    BY DEF RequestsInv, HandlerInv
  <2>5. QED
    BY <2>1, <2>2, <2>3, <2>4, RequestsAssumption
<1>2. CASE k = None
  <2>1. phase' = [phase EXCEPT ![r] = refusal] /\ UNCHANGED <<upstream, tried>>
    BY <1>2 DEF Holds
  <2>2. TypeOK'
    BY <1>1, <2>1 DEF RequestsInv, TypeOK, PoolInv, Final
  <2>3. phase'[r] = refusal
    BY <2>1 DEF RequestsInv, TypeOK
  <2>4. RequestInv(r)'
    BY <1>1, <2>1, <2>3 DEF RequestInv, RequestsInv, CountInv, SoftInv, Pending,
                            SoftSticky, SelectionMode
  <2>5. QED
    BY <1>1, <2>1, <2>2, <2>4, OnlyTheMoverMatters DEF RequestsInv, TypeOK
<1>3. CASE k # None
  <2>1. /\ phase' = [phase EXCEPT ![r] = IF gone[r] THEN "failed" ELSE "dial"]
        /\ upstream' = [upstream EXCEPT ![r] = k]
        /\ tried' = [tried EXCEPT ![r] = Append(@, k)]
    BY <1>3 DEF Holds
  <2>2. Append(tried[r], k) \in Seq(Keys)
    BY <1>1, <1>3
  <2>3. TypeOK'
    BY <1>1, <1>3, <2>1, <2>2 DEF RequestsInv, TypeOK, PoolInv
  <2>4. /\ phase'[r] \in {"dial", "failed"} /\ upstream'[r] = k
        /\ tried'[r] = Append(tried[r], k)
    BY <2>1 DEF RequestsInv, TypeOK
  <2>5. /\ Len(tried'[r]) = attempt[r] + 1
        /\ DOMAIN tried'[r] = 1 .. attempt[r] + 1
        /\ tried'[r][attempt[r] + 1] = k
        /\ \A i \in 1 .. attempt[r] : i \in DOMAIN tried[r] /\ tried'[r][i] = tried[r][i]
    BY <1>1, <1>3, <2>4
  <2>6. SoftSticky(r)' =>
          /\ \A i \in DOMAIN tried'[r] : tried'[r][i] \in attempted[r] \/ tried'[r][i] = k
          /\ \A i, j \in DOMAIN tried'[r] : tried'[r][i] = tried'[r][j] => i = j
    <3> SUFFICES ASSUME SoftSticky(r)
                 PROVE  /\ \A i \in DOMAIN tried'[r] : tried'[r][i] \in attempted[r] \/ tried'[r][i] = k
                        /\ \A i, j \in DOMAIN tried'[r] : tried'[r][i] = tried'[r][j] => i = j
      BY <1>1 DEF SoftSticky, SelectionMode
    <3>1. \A i \in 1 .. attempt[r] : tried[r][i] \in attempted[r]
      BY <2>5 DEF RequestsInv, SoftInv, Pending
    <3>2. \A i, j \in 1 .. attempt[r] : tried[r][i] = tried[r][j] => i = j
      BY <2>5 DEF RequestsInv, SoftInv
    <3>3. \A i \in 1 .. attempt[r] : tried'[r][i] # k
      BY <1>3, <2>5, <3>1
    <3>4. \A i \in DOMAIN tried'[r] : i \in 1 .. attempt[r] \/ i = attempt[r] + 1
      BY <1>1, <2>5
    <3>5. \A i \in DOMAIN tried'[r] : tried'[r][i] \in attempted[r] \/ tried'[r][i] = k
      BY <2>5, <3>1, <3>4
    <3>6. \A i, j \in DOMAIN tried'[r] : tried'[r][i] = tried'[r][j] => i = j
      BY <2>5, <3>2, <3>3, <3>4
    <3>7. QED
      BY <3>5, <3>6
  <2>7. attempt[r] # 0 => profile[r].again
    BY DEF RequestsInv, CountInv
  <2>8. RequestInv(r)'
    BY <1>1, <1>3, <2>4, <2>5, <2>6, <2>7 DEF RequestInv, Pending
  <2>9. QED
    BY <1>1, <2>1, <2>3, <2>8, OnlyTheMoverMatters DEF RequestsInv, TypeOK
<1>4. QED
  BY <1>2, <1>3

LEMMA SelectInv ==
  ASSUME RequestsInv, NEW r \in Clients, Select(r)
  PROVE  RequestsInv'
<1>1. ASSUME UNCHANGED poolVars PROVE PoolInv'
  BY <1>1 DEF poolVars, RequestsInv, PoolInv, PoolTypeOK, IndexAgrees, HealthAgrees
<1>2. CASE SelectForced(r)
  <2> DEFINE k == Get(profile[r].force, stamp[r])
  <2>1. k \in Keys \cup {None}
    BY ElementOfSeq DEF Get, RequestsInv, PoolInv, PoolTypeOK, IndexAgrees, Entry
  <2>2. ~ SoftSticky(r) /\ phase[r] = "select" /\ Holds(r, k, "unknown") /\ PoolInv'
    BY <1>1, <1>2 DEF SelectForced, SoftSticky
  <2> HIDE DEF k
  <2>3. QED
    BY <2>1, <2>2, HoldsInv
<1>3. CASE SelectSticky(r)
  <2>1. PICK k \in Keys \cup {None} :
          /\ PickRendezvous(profile[r].session, Active(stamp[r]), KeyAt, Excluded(r), None, k)
          /\ Holds(r, k, "unavailable")
    BY <1>3 DEF SelectSticky
  <2>2. k # None => k \notin Excluded(r)
    BY <2>1 DEF PickRendezvous, IsBest, Remaining
  <2>3. phase[r] = "select" /\ PoolInv'
    BY <1>1, <1>3 DEF SelectSticky
  <2>4. QED
    BY <2>1, <2>2, <2>3, HoldsInv DEF Excluded
<1>4. CASE SelectNext(r)
  <2>1. PICK k \in Keys \cup {None} :
          NextEntry(profile[r].strategy, stamp[r], k) /\ Holds(r, k, "unavailable")
    BY <1>4 DEF SelectNext
  <2>2. ~ SoftSticky(r) /\ phase[r] = "select"
    BY <1>4 DEF SelectNext, SoftSticky
  <2>3. PoolInv'
    BY <2>1, NextEntryPoolInv DEF RequestsInv
  <2>4. QED
    BY <2>1, <2>2, <2>3, HoldsInv
<1>5. QED
  BY <1>2, <1>3, <1>4 DEF Select

LEMMA DialFailsInv ==
  ASSUME RequestsInv, NEW r \in Clients, DialFails(r)
  PROVE  RequestsInv'
<1>1. PoolInv'
  BY DEF DialFails, poolVars, RequestsInv, PoolInv, PoolTypeOK, IndexAgrees, HealthAgrees
<1>2. TypeOK'
  BY <1>1 DEF DialFails, RequestsInv, TypeOK, PoolInv
<1>3. /\ phase[r] = "dial" /\ phase'[r] = "failed"
      /\ stamp'[r] \in {now, stamp[r]}
      /\ UNCHANGED <<profile, attempt, upstream, attempted, tried>>
  BY DEF DialFails, RequestsInv, TypeOK
<1>4. now # 0 /\ stamp[r] # 0
  BY <1>3 DEF RequestsInv, TypeOK, HandlerInv
<1>5. RequestInv(r)'
  BY <1>3, <1>4 DEF RequestInv, RequestsInv, HandlerInv, CountInv, SoftInv, Pending,
                    SoftSticky, SelectionMode
<1>6. QED
  BY <1>1, <1>2, <1>3, <1>5, OnlyTheMoverMatters DEF DialFails, RequestsInv, TypeOK

(* A client that goes away changes nothing the invariant speaks of.          *)
LEMMA ClientLeavesInv ==
  ASSUME RequestsInv, NEW r \in Clients, ClientLeaves(r)
  PROVE  RequestsInv'
<1>1. PoolInv'
  BY DEF ClientLeaves, poolVars, RequestsInv, PoolInv, PoolTypeOK, IndexAgrees, HealthAgrees
<1>2. TypeOK'
  BY <1>1 DEF ClientLeaves, RequestsInv, TypeOK, PoolInv
<1>3. (HandlerInv /\ CountInv /\ SoftInv)'
  BY DEF ClientLeaves, RequestsInv, HandlerInv, CountInv, SoftInv, Pending,
         SoftSticky, SelectionMode
<1>4. QED
  BY <1>1, <1>2, <1>3 DEF RequestsInv

LEMMA ReportFailureInv ==
  ASSUME RequestsInv, NEW r \in Clients, ReportFailure(r)
  PROVE  RequestsInv'
<1>1. /\ phase[r] = "failed" /\ stamp[r] \in Nat \ {0} /\ upstream[r] \in Keys
      /\ now \in Nat \ {0}
  BY DEF ReportFailure, RequestsInv, TypeOK, HandlerInv, Pending
<1>2. PoolInv'
  BY <1>1, MarkFailurePoolInv DEF ReportFailure, RequestsInv
<1>3. /\ attempted' = [attempted EXCEPT ![r] =
                         IF SoftSticky(r) THEN @ \cup {upstream[r]} ELSE @]
      /\ UNCHANGED <<now, profile, upstream, gone, tried>>
  BY DEF ReportFailure
<1>4. attempted' \in [Clients -> SUBSET Keys]
  BY <1>1, <1>3 DEF RequestsInv, TypeOK
<1>5. Len(tried[r]) = attempt[r] + 1 /\ attempt[r] \in 0 .. Retries /\ Retries \in Nat
  BY <1>1, RequestsAssumption DEF RequestsInv, CountInv, Pending, TypeOK
<1>6. SoftSticky(r)' =>
        /\ \A i \in DOMAIN tried'[r] : tried'[r][i] \in attempted'[r]
        /\ \A i, j \in DOMAIN tried'[r] : tried'[r][i] = tried'[r][j] => i = j
  <2>1. SoftSticky(r)' = SoftSticky(r)
    BY <1>3 DEF SoftSticky, SelectionMode
  <2>2. SoftSticky(r) => attempted'[r] = attempted[r] \cup {upstream[r]}
    BY <1>3 DEF RequestsInv, TypeOK
  <2>3. QED
    BY <1>3, <2>1, <2>2 DEF RequestsInv, SoftInv
<1>7. CASE MayRetry(r)
  <2>1. /\ phase' = [phase EXCEPT ![r] = "select"]
        /\ attempt' = [attempt EXCEPT ![r] = @ + 1]
        /\ stamp' = [stamp EXCEPT ![r] = now]
    BY <1>7 DEF ReportFailure
  <2>2. attempt[r] + 1 \in 0 .. Retries /\ profile[r].again
    BY <1>5, <1>7 DEF MayRetry
  <2>3. TypeOK'
    BY <1>1, <1>2, <1>3, <1>4, <2>1, <2>2 DEF RequestsInv, TypeOK, PoolInv
  <2>4. phase'[r] = "select" /\ attempt'[r] = attempt[r] + 1 /\ stamp'[r] = now
    BY <2>1 DEF RequestsInv, TypeOK
  <2>5. RequestInv(r)'
    BY <1>1, <1>3, <1>5, <1>6, <2>2, <2>4 DEF RequestInv, Pending
  <2>6. QED
    BY <1>2, <1>3, <2>1, <2>3, <2>5, OnlyTheMoverMatters DEF RequestsInv, TypeOK
<1>8. CASE ~ MayRetry(r)
  <2>1. phase' = [phase EXCEPT ![r] = "badgateway"] /\ UNCHANGED <<attempt, stamp>>
    BY <1>8 DEF ReportFailure
  <2>2. TypeOK'
    BY <1>2, <1>3, <1>4, <2>1 DEF RequestsInv, TypeOK, PoolInv, Final
  <2>3. phase'[r] = "badgateway"
    BY <2>1 DEF RequestsInv, TypeOK
  <2>4. attempt[r] # 0 => profile[r].again
    BY DEF RequestsInv, CountInv
  <2>5. RequestInv(r)'
    BY <1>1, <1>3, <1>5, <1>6, <2>1, <2>3, <2>4 DEF RequestInv, Pending
  <2>6. QED
    BY <1>2, <1>3, <2>1, <2>2, <2>5, OnlyTheMoverMatters DEF RequestsInv, TypeOK
<1>9. QED
  BY <1>7, <1>8

LEMMA DialSucceedsInv ==
  ASSUME RequestsInv, NEW r \in Clients, DialSucceeds(r)
  PROVE  RequestsInv'
<1>1. PoolInv'
  BY MarkSuccessPoolInv DEF DialSucceeds, RequestsInv
<1>2. TypeOK'
  BY <1>1 DEF DialSucceeds, RequestsInv, TypeOK, PoolInv, Final
<1>3. /\ phase[r] = "dial" /\ phase'[r] = "served"
      /\ UNCHANGED <<profile, attempt, stamp, upstream, attempted, tried>>
  BY DEF DialSucceeds, RequestsInv, TypeOK
<1>4. RequestInv(r)'
  BY <1>3 DEF RequestInv, RequestsInv, HandlerInv, CountInv, SoftInv, Pending,
              SoftSticky, SelectionMode
<1>5. QED
  BY <1>1, <1>2, <1>3, <1>4, OnlyTheMoverMatters DEF DialSucceeds, RequestsInv, TypeOK

LEMMA BesideInv ==
  ASSUME RequestsInv, UpdatePool \/ Tick \/ UNCHANGED vars
  PROVE  RequestsInv'
<1>1. PoolInv'
  <2>1. CASE UpdatePool
    BY <2>1, RequestsAssumption, UpdatePoolInv DEF UpdatePool
  <2>2. CASE Tick \/ UNCHANGED vars
    BY <2>2 DEF Tick, vars, poolVars, RequestsInv, PoolInv, PoolTypeOK, IndexAgrees, HealthAgrees
  <2>3. QED
    BY <2>1, <2>2
<1>2. UNCHANGED requestVars /\ now' \in Nat \ {0}
  BY DEF UpdatePool, Tick, vars, RequestsInv, TypeOK
<1>3. TypeOK'
  BY <1>1, <1>2 DEF RequestsInv, TypeOK, PoolInv, requestVars
<1>4. (HandlerInv /\ CountInv /\ SoftInv)'
  BY <1>2 DEF requestVars, RequestsInv, HandlerInv, CountInv, SoftInv, Pending,
              SoftSticky, SelectionMode
<1>5. QED
  BY <1>1, <1>3, <1>4 DEF RequestsInv

(* The inductive invariant of the requests and the pool they share.          *)
THEOREM RequestsInvariant ==
  Spec => []RequestsInv
<1>1. RequestsInv /\ [Next]_vars => RequestsInv'
  BY ArriveInv, SelectInv, ClientLeavesInv, DialFailsInv, ReportFailureInv, DialSucceedsInv, BesideInv
  DEF Next
<1>2. QED
  BY <1>1, RequestsInvInit, PTL DEF Spec

(* Types of the pool and of every request's handler.                         *)
THEOREM RequestsTypeCorrect ==
  Spec => []TypeOK
<1>1. RequestsInv => TypeOK
  BY DEF RequestsInv
<1>2. QED
  BY <1>1, RequestsInvariant, PTL

(* However many requests run together, one is sent at most Retries + 1       *)
(* times, and one that must not be sent again once (proxy.go:217, 304, 337;  *)
(* server.go:125).                                                           *)
THEOREM TriesAlwaysBounded ==
  Spec => []TriesBounded
<1>1. RequestsInv => TriesBounded
  <2> SUFFICES ASSUME RequestsInv, NEW r \in Clients
               PROVE  Len(tried[r]) <= IF profile[r].again THEN Retries + 1 ELSE 1
    BY DEF TriesBounded
  <2>1. Len(tried[r]) \in {attempt[r], attempt[r] + 1} /\ attempt[r] \in 0 .. Retries
    BY DEF RequestsInv, CountInv, TypeOK
  <2>2. attempt[r] # 0 => profile[r].again
    BY DEF RequestsInv, CountInv
  <2>3. QED
    BY <2>1, <2>2, RequestsAssumption
<1>2. QED
  BY <1>1, RequestsInvariant, PTL

(* A soft sticky request never dials one upstream twice, whatever other      *)
(* requests, the clock and the updater do to the pool meanwhile              *)
(* (proxy.go:229-233, 246-248).                                              *)
THEOREM SoftNeverRepeatsAlways ==
  Spec => []SoftNeverRepeats
<1>1. RequestsInv => SoftNeverRepeats
  BY DEF RequestsInv, SoftInv, SoftNeverRepeats
<1>2. QED
  BY <1>1, RequestsInvariant, PTL

-----------------------------------------------------------------------------
(* What a selection gives, and when it gives nothing.                        *)

\* Only its own selection takes a request out of "select".
LEMMA OnlySelectsItself ==
  ASSUME RequestsInv, [Next]_vars, NEW r \in Clients, phase[r] = "select",
         phase'[r] # "select" \/ tried'[r] # tried[r]
  PROVE  Select(r)
<1>1. /\ phase \in [Clients -> {"new", "select", "dial", "failed"} \cup Final]
      /\ tried \in [Clients -> Seq(Keys)]
  BY DEF RequestsInv, TypeOK
<1>2. ASSUME NEW q \in Clients, ClientLeaves(q) PROVE FALSE
  BY <1>2 DEF ClientLeaves
<1>3. ASSUME NEW q \in Clients, Arrive(q) PROVE FALSE
  BY <1>1, <1>3 DEF Arrive
<1>4. ASSUME NEW q \in Clients, DialFails(q) PROVE FALSE
  BY <1>1, <1>4 DEF DialFails
<1>5. ASSUME NEW q \in Clients, DialSucceeds(q) PROVE FALSE
  BY <1>1, <1>5 DEF DialSucceeds
<1>6. ASSUME NEW q \in Clients, ReportFailure(q) PROVE FALSE
  BY <1>1, <1>6 DEF ReportFailure
<1>7. ASSUME NEW q \in Clients, q # r, NEW k, NEW refusal, Holds(q, k, refusal) PROVE FALSE
  BY <1>1, <1>7 DEF Holds
<1>8. ASSUME NEW q \in Clients, q # r, Select(q) PROVE FALSE
  BY <1>7, <1>8 DEF Select, SelectForced, SelectSticky, SelectNext
<1>9. CASE UpdatePool \/ Tick \/ UNCHANGED vars
  BY <1>9 DEF UpdatePool, Tick, vars, requestVars
<1>10. QED
  BY <1>2, <1>3, <1>4, <1>5, <1>6, <1>8, <1>9 DEF Next

(* Session affinity, for any scores and any interleaving: a sticky request   *)
(* is only given an upstream if every member above it has a failure on       *)
(* record or was tried by this request (sticky.go:144-165).                  *)
THEOREM HealthyTopRankAlwaysWins ==
  Spec => HealthyTopRankWins
<1> DEFINE Wins ==
      \A r \in Clients :
        (SelectionMode(r) = "sticky" /\ phase[r] = "select" /\ tried'[r] # tried[r]) =>
          \A i \in DOMAIN entries :
            LET rank == Score[profile[r].session]
            IN  rank[entries[i].key] > rank[upstream'[r]] =>
                  entries[i].failures > 0 \/ entries[i].key \in Excluded(r)
<1>1. ASSUME RequestsInv, [Next]_vars PROVE Wins
  <2> SUFFICES ASSUME NEW r \in Clients,
                      SelectionMode(r) = "sticky", phase[r] = "select", tried'[r] # tried[r],
                      NEW i \in DOMAIN entries,
                      Score[profile[r].session][entries[i].key]
                        > Score[profile[r].session][upstream'[r]],
                      entries[i].key \notin Excluded(r)
               PROVE  entries[i].failures > 0
    OBVIOUS
  <2>1. SelectSticky(r)
    BY <1>1, OnlySelectsItself DEF Select, SelectForced, SelectNext
  <2>2. PICK k \in Keys \cup {None} :
          /\ PickRendezvous(profile[r].session, Active(stamp[r]), KeyAt, Excluded(r), None, k)
          /\ Holds(r, k, "unavailable")
    BY <2>1 DEF SelectSticky
  <2>3. k # None /\ upstream'[r] = k
    BY <1>1, <2>2 DEF Holds, RequestsInv, TypeOK
  <2>4. PICK b \in Active(stamp[r]) :
          /\ k = KeyAt[b]
          /\ \A j \in Remaining(Active(stamp[r]), KeyAt, Excluded(r)) :
               Beats(profile[r].session, KeyAt, b, j)
    BY <2>2, <2>3 DEF PickRendezvous, IsBest
  <2>5. KeyAt[b] = entries[b].key /\ KeyAt[i] = entries[i].key
    BY <2>4 DEF KeyAt, Active
  <2>6. profile[r].session \in Sessions
    BY <1>1, ProfileType DEF SelectionMode, Profile
  <2>7. entries[i].key \in Nodes /\ entries[b].key \in Nodes
    BY <1>1, <2>4, EntryAt, RequestsAssumption DEF Active, RequestsInv
  <2>8. /\ Score[profile[r].session][entries[i].key] \in Nat
        /\ Score[profile[r].session][entries[b].key] \in Nat
    BY <2>6, <2>7, ScoreAssumption
  <2>9. ~ Beats(profile[r].session, KeyAt, b, i)
    BY <2>3, <2>4, <2>5, <2>8 DEF Beats
  <2>10. i \notin Active(stamp[r])
    BY <2>4, <2>5, <2>9 DEF Remaining
  <2>11. stamp[r] \in Nat /\ ~ Usable(entries[i], stamp[r])
    BY <1>1, <2>10 DEF Active, RequestsInv, TypeOK
  <2>12. QED
    BY <1>1, <2>11, UnusableHasFailed DEF RequestsInv
<1>2. QED
  BY <1>1, RequestsInvariant, PTL DEF Spec, HealthyTopRankWins

(* No request is refused for want of proxies while a member it has not tried *)
(* has a clean record (pool.go:99-123, proxy.go:222-240,                     *)
(* server.go:127-129).                                                       *)
THEOREM OnlyRefusedWithoutHealthy ==
  Spec => RefusedOnlyWithoutHealthy
<1> DEFINE Justified ==
      \A r \in Clients : \A i \in DOMAIN entries :
        phase[r] = "select" =>
          /\ phase'[r] = "unavailable" =>
               \/ entries[i].failures > 0 \/ entries[i].key \in Excluded(r)
               \/ SelectionMode(r) = "next" /\ profile[r].strategy = "random"
          /\ phase'[r] = "unknown" /\ entries[i].key = profile[r].force =>
               entries[i].failures > 0
<1>1. ASSUME RequestsInv, [Next]_vars PROVE Justified
  <2> SUFFICES ASSUME NEW r \in Clients, NEW i \in DOMAIN entries, phase[r] = "select",
                      phase'[r] \in {"unavailable", "unknown"}
               PROVE  /\ phase'[r] = "unavailable" =>
                           \/ entries[i].failures > 0 \/ entries[i].key \in Excluded(r)
                           \/ SelectionMode(r) = "next" /\ profile[r].strategy = "random"
                      /\ phase'[r] = "unknown" /\ entries[i].key = profile[r].force =>
                           entries[i].failures > 0
    OBVIOUS
  <2>1. Select(r)
    BY <1>1, OnlySelectsItself
  <2>2. stamp[r] \in Nat /\ phase \in [Clients -> {"new", "select", "dial", "failed"} \cup Final]
    BY <1>1 DEF RequestsInv, TypeOK
  <2>3. \A k, refusal : Holds(r, k, refusal) => k = None /\ phase'[r] = refusal
    BY <2>2 DEF Holds
  <2>4. ASSUME ~ Usable(entries[i], stamp[r]) \/ ~ Eligible(entries[i], stamp[r])
        PROVE  entries[i].failures > 0
    BY <1>1, <2>2, <2>4, UnusableHasFailed DEF RequestsInv
  <2>5. entries[i].key \in Keys
    BY <1>1, EntryAt DEF RequestsInv
  <2>6. CASE SelectForced(r)
    <3>1. Get(profile[r].force, stamp[r]) = None /\ phase'[r] = "unknown"
      BY <2>3, <2>6 DEF SelectForced
    <3>2. ASSUME entries[i].key = profile[r].force PROVE ~ Usable(entries[i], stamp[r])
      BY <1>1, <2>5, <3>1, <3>2, PoolAssumption DEF Get, RequestsInv, PoolInv, IndexAgrees
    <3>3. QED
      BY <2>4, <3>1, <3>2
  <2>7. CASE SelectSticky(r)
    <3>1. /\ PickRendezvous(profile[r].session, Active(stamp[r]), KeyAt, Excluded(r), None, None)
          /\ phase'[r] = "unavailable"
      BY <2>3, <2>7 DEF SelectSticky
    <3>2. ASSUME NEW b \in Active(stamp[r]) PROVE KeyAt[b] # None
      BY <1>1, EntryAt, PoolAssumption DEF Active, KeyAt, RequestsInv
    <3>3. Remaining(Active(stamp[r]), KeyAt, Excluded(r)) = {}
      BY <3>1, <3>2 DEF PickRendezvous
    <3>4. entries[i].key \in Excluded(r) \/ ~ Usable(entries[i], stamp[r])
      BY <3>3 DEF Remaining, Active, KeyAt
    <3>5. QED
      BY <2>4, <3>1, <3>4
  <2>8. CASE SelectNext(r)
    <3>1. PICK k \in Keys \cup {None} : NextEntry(profile[r].strategy, stamp[r], k) /\ Holds(r, k, "unavailable")
      BY <2>8 DEF SelectNext
    <3>2. k = None /\ phase'[r] = "unavailable"
      BY <2>3, <3>1
    <3>3. entries # <<>>
      OBVIOUS
    <3>4. CASE profile[r].strategy = "random"
      BY <2>8, <3>2, <3>4 DEF SelectNext
    <3>5. CASE profile[r].strategy = "round_robin"
      <4>1. RoundRobin(stamp[r], None)
        BY <3>1, <3>2, <3>3, <3>5 DEF NextEntry
      <4>2. \A n \in 0 .. Len(entries) - 1 : entries[Scan(n)].key \in Keys
        BY <1>1, EntryAt, ScanInside DEF RequestsInv
      <4>3. ~ Eligible(entries[i], stamp[r])
        BY <1>1, <4>1, <4>2, ScanReaches, PoolAssumption DEF RoundRobin, RequestsInv
      <4>4. QED
        BY <2>4, <3>2, <4>3
    <3>6. profile[r].strategy \in Strategies
      BY <1>1, RequestsAssumption DEF RequestsInv, TypeOK, Profile
    <3>7. QED
      BY <3>4, <3>5, <3>6 DEF Strategies
  <2>9. QED
    BY <2>1, <2>6, <2>7, <2>8 DEF Select
<1>2. QED
  BY <1>1, RequestsInvariant, PTL DEF Spec, RefusedOnlyWithoutHealthy

-----------------------------------------------------------------------------
(* The refinement: what each step of a handler is to the promise of          *)
(* Dispatch.                                                                 *)

TermsOf(r) ==
  IF phase[r] = "new" THEN [tries |-> 0, soft |-> FALSE]
  ELSE [tries |-> IF profile[r].again THEN Retries + 1 ELSE 1,
        soft |-> SoftSticky(r)]

StateOf(r) ==
  CASE phase[r] = "new" -> "new"
    [] phase[r] = "select" -> "waiting"
    [] phase[r] \in {"dial", "failed"} -> "trying"
    [] phase[r] = "served" -> "served"
    [] OTHER -> "refused"

Terms == [r \in Clients |-> TermsOf(r)]
State == [r \in Clients |-> StateOf(r)]

\* The variables of Dispatch under the mapping.
LEMMA PromiseState ==
  UNCHANGED Promise!dispatchVars <=> UNCHANGED <<DOMAIN index, Terms, State, tried>>
BY DEF Promise!dispatchVars, Terms, State, TermsOf, StateOf

\* A request that takes a step leaves the others where they are in the promise.
LEMMA OthersKeepTheirPromise ==
  ASSUME NEW r \in Clients, UNCHANGED profile,
         \A q \in Clients \ {r} : phase'[q] = phase[q]
  PROVE  /\ State' = [State EXCEPT ![r] = StateOf(r)']
         /\ Terms' = [Terms EXCEPT ![r] = TermsOf(r)']
         /\ phase[r] # "new" /\ phase'[r] # "new" => Terms' = Terms
<1>1. ASSUME NEW q \in Clients, q # r
      PROVE  StateOf(q)' = StateOf(q) /\ TermsOf(q)' = TermsOf(q)
  BY <1>1 DEF StateOf, TermsOf, SoftSticky, SelectionMode
<1>2. phase[r] # "new" /\ phase'[r] # "new" => TermsOf(r)' = TermsOf(r)
  BY DEF TermsOf, SoftSticky, SelectionMode
<1>3. QED
  BY <1>1, <1>2 DEF State, Terms

\* A request moves from one state of the promise to another and nothing else
\* changes there.
LEMMA LeaveRefines ==
  ASSUME RequestsInv, NEW r \in Clients, NEW from, NEW to,
         phase[r] # "new", phase'[r] # "new",
         StateOf(r) \in from, StateOf(r)' = to,
         \A q \in Clients \ {r} : phase'[q] = phase[q],
         UNCHANGED <<index, profile, tried>>
  PROVE  Promise!Leave(r, from, to)
<1>1. Terms' = Terms /\ State' = [State EXCEPT ![r] = to] /\ State[r] \in from
  BY OthersKeepTheirPromise DEF State
<1>2. QED
  BY <1>1 DEF Promise!Leave, State, Terms, StateOf, TermsOf

\* An upstream that was selected is a member of the pool.
LEMMA SelectedIsMember ==
  ASSUME RequestsInv, NEW strategy, NEW t \in Nat, NEW k \in Keys, NextEntry(strategy, t, k)
  PROVE  k \in DOMAIN index
<1>1. k # None
  BY PoolAssumption
<1>2. entries # <<>>
  BY <1>1 DEF NextEntry
<1>3. \E i \in DOMAIN entries : k = entries[i].key
  BY <1>1, <1>2, ScanInside DEF NextEntry, RoundRobin, Random, RequestsInv
<1>4. QED
  BY <1>3 DEF RequestsInv, PoolInv, IndexAgrees

(* A selection is a try of a member that soft failover has not used, or the  *)
(* end of the request.                                                       *)
LEMMA HoldsRefines ==
  ASSUME RequestsInv, NEW r \in Clients, phase[r] = "select",
         NEW k \in Keys \cup {None}, NEW refusal \in {"unknown", "unavailable"},
         k # None => k \in DOMAIN index,
         SoftSticky(r) /\ k # None => k \notin attempted[r],
         Holds(r, k, refusal), UNCHANGED index
  PROVE  Promise!DispatchNext
<1>1. /\ phase \in [Clients -> {"new", "select", "dial", "failed"} \cup Final]
      /\ UNCHANGED <<profile, attempted>>
  BY DEF RequestsInv, TypeOK, Holds
<1>2. StateOf(r) = "waiting"
  BY DEF StateOf
<1>3. CASE k = None
  <2>1. phase' = [phase EXCEPT ![r] = refusal] /\ UNCHANGED tried
    BY <1>3 DEF Holds
  <2>2. phase'[r] = refusal /\ \A q \in Clients \ {r} : phase'[q] = phase[q]
    BY <1>1, <2>1
  <2>3. StateOf(r)' = "refused"
    BY <2>2 DEF StateOf
  <2>4. Promise!Leave(r, {"waiting", "trying"}, "refused")
    BY <1>1, <1>2, <2>1, <2>2, <2>3, LeaveRefines
  <2>5. QED
    BY <2>4 DEF Promise!Refuse, Promise!DispatchNext
<1>4. CASE k # None
  <2>1. /\ phase' = [phase EXCEPT ![r] = IF gone[r] THEN "failed" ELSE "dial"]
        /\ tried' = [tried EXCEPT ![r] = Append(@, k)]
    BY <1>4 DEF Holds
  <2>2. phase'[r] \in {"dial", "failed"} /\ \A q \in Clients \ {r} : phase'[q] = phase[q]
    BY <1>1, <2>1
  <2>3. StateOf(r)' = "trying"
    BY <2>2 DEF StateOf
  <2>4. Terms' = Terms /\ State' = [State EXCEPT ![r] = "trying"] /\ State[r] = "waiting"
    BY <1>1, <1>2, <2>2, <2>3, OthersKeepTheirPromise DEF State
  <2>5. /\ Terms[r].tries = IF profile[r].again THEN Retries + 1 ELSE 1
        /\ Terms[r].soft = SoftSticky(r)
    BY DEF Terms, TermsOf
  <2>6. Len(tried[r]) < Terms[r].tries
    <3>1. Len(tried[r]) = attempt[r] + 0 /\ attempt[r] \in 0 .. Retries
      BY DEF RequestsInv, CountInv, Pending, TypeOK
    <3>2. attempt[r] # 0 => profile[r].again
      BY DEF RequestsInv, CountInv
    <3>3. CASE profile[r].again
      BY <2>5, <3>1, <3>3, RequestsAssumption
    <3>4. CASE ~ profile[r].again
      <4>1. Terms[r].tries = 1 /\ Len(tried[r]) = 0
        BY <2>5, <3>1, <3>2, <3>4
      <4>2. QED
        BY <4>1
    <3>5. QED
      BY <3>3, <3>4
  <2>7. Terms[r].soft => \A i \in DOMAIN tried[r] : tried[r][i] # k
    BY <1>4, <2>5, ZenonT(60) DEF RequestsInv, SoftInv, Pending
  <2>8. Promise!Try(r, k)
    BY <1>4, <2>1, <2>4, <2>6, <2>7 DEF Promise!Try, State, Terms, StateOf, TermsOf
  <2>9. QED
    BY <1>4, <2>8 DEF Promise!DispatchNext
<1>5. QED
  BY <1>3, <1>4

LEMMA SelectRefines ==
  ASSUME RequestsInv, NEW r \in Clients, Select(r)
  PROVE  Promise!DispatchNext
<1>1. CASE SelectForced(r)
  <2> DEFINE k == Get(profile[r].force, stamp[r])
  <2>1. /\ k \in Keys \cup {None}
        /\ k # None => k \in DOMAIN index
    BY EntryAt DEF Get, RequestsInv, PoolInv, IndexAgrees
  <2>2. /\ ~ SoftSticky(r) /\ phase[r] = "select" /\ Holds(r, k, "unknown")
        /\ UNCHANGED index
    BY <1>1 DEF SelectForced, SoftSticky, poolVars
  <2> HIDE DEF k
  <2>3. QED
    BY <2>1, <2>2, HoldsRefines
<1>2. CASE SelectSticky(r)
  <2>1. PICK k \in Keys \cup {None} :
          /\ PickRendezvous(profile[r].session, Active(stamp[r]), KeyAt, Excluded(r), None, k)
          /\ Holds(r, k, "unavailable")
    BY <1>2 DEF SelectSticky
  <2>2. k # None => \E i \in DOMAIN entries : k = entries[i].key /\ k \notin Excluded(r)
    BY <2>1 DEF PickRendezvous, IsBest, Remaining, Active, KeyAt
  <2>3. k # None => k \in DOMAIN index
    BY <2>2 DEF RequestsInv, PoolInv, IndexAgrees
  <2>4. phase[r] = "select" /\ UNCHANGED index
    BY <1>2 DEF SelectSticky, poolVars
  <2>5. QED
    BY <2>1, <2>2, <2>3, <2>4, HoldsRefines DEF Excluded
<1>3. CASE SelectNext(r)
  <2>1. PICK k \in Keys \cup {None} :
          NextEntry(profile[r].strategy, stamp[r], k) /\ Holds(r, k, "unavailable")
    BY <1>3 DEF SelectNext
  <2>2. k # None => k \in DOMAIN index
    BY <2>1, SelectedIsMember DEF RequestsInv, TypeOK
  <2>3. ~ SoftSticky(r) /\ phase[r] = "select" /\ UNCHANGED index
    BY <1>3, <2>1 DEF SelectNext, SoftSticky, NextEntry
  <2>4. QED
    BY <2>1, <2>2, <2>3, HoldsRefines
<1>4. QED
  BY <1>1, <1>2, <1>3 DEF Select

(* A report of a failure ends the try, and the request too if it may not be  *)
(* sent again; a success serves it.                                          *)
LEMMA ReportRefines ==
  ASSUME RequestsInv, NEW r \in Clients, ReportFailure(r) \/ DialSucceeds(r)
  PROVE  Promise!DispatchNext
<1>1. /\ phase \in [Clients -> {"new", "select", "dial", "failed"} \cup Final]
      /\ phase[r] \in {"dial", "failed"}
      /\ UNCHANGED <<index, profile, tried>>
  BY DEF RequestsInv, TypeOK, ReportFailure, DialSucceeds, MarkFailure, MarkSuccess, SetHealth
<1>2. StateOf(r) = "trying"
  BY <1>1 DEF StateOf
<1>3. PICK to \in {"select", "badgateway", "served"} : phase' = [phase EXCEPT ![r] = to]
  BY DEF ReportFailure, DialSucceeds
<1>4. phase'[r] = to /\ \A q \in Clients \ {r} : phase'[q] = phase[q]
  BY <1>1, <1>3
<1>5. CASE to = "select"
  <2>1. StateOf(r)' = "waiting"
    BY <1>4, <1>5 DEF StateOf
  <2>2. Promise!GiveUpOn(r)
    BY <1>1, <1>2, <1>4, <1>5, <2>1, LeaveRefines DEF Promise!GiveUpOn
  <2>3. QED
    BY <2>2 DEF Promise!DispatchNext
<1>6. CASE to = "badgateway"
  <2>1. StateOf(r)' = "refused"
    BY <1>4, <1>6 DEF StateOf
  <2>2. Promise!Refuse(r)
    BY <1>1, <1>2, <1>4, <1>6, <2>1, LeaveRefines DEF Promise!Refuse
  <2>3. QED
    BY <2>2 DEF Promise!DispatchNext
<1>7. CASE to = "served"
  <2>1. StateOf(r)' = "served"
    BY <1>4, <1>7 DEF StateOf
  <2>2. Promise!Serve(r)
    BY <1>1, <1>2, <1>4, <1>7, <2>1, LeaveRefines DEF Promise!Serve
  <2>3. QED
    BY <2>2 DEF Promise!DispatchNext
<1>8. QED
  BY <1>3, <1>5, <1>6, <1>7

(* A request that arrives is accepted on the terms of its profile.           *)
LEMMA ArriveRefines ==
  ASSUME RequestsInv, NEW r \in Clients, Arrive(r)
  PROVE  Promise!Accept(r)
<1>1. /\ phase[r] = "new" /\ phase'[r] = "select"
      /\ \A q \in Clients \ {r} : phase'[q] = phase[q]
      /\ UNCHANGED <<index, profile, tried>>
  BY DEF RequestsInv, TypeOK, Arrive, poolVars
<1>2. /\ State[r] = "new" /\ State' = [State EXCEPT ![r] = "waiting"]
      /\ Terms' = [Terms EXCEPT ![r] = TermsOf(r)']
  <2>1. StateOf(r) = "new" /\ StateOf(r)' = "waiting"
    BY <1>1 DEF StateOf
  <2>2. QED
    BY <1>1, <2>1, OthersKeepTheirPromise DEF State
<1>3. \E n \in 1 .. Retries + 1, soft \in BOOLEAN :
        TermsOf(r)' = [tries |-> n, soft |-> soft]
  <2>1. TermsOf(r)' = [tries |-> IF profile[r].again THEN Retries + 1 ELSE 1,
                       soft |-> SoftSticky(r)]
    BY <1>1 DEF TermsOf, SoftSticky, SelectionMode
  <2>2. (IF profile[r].again THEN Retries + 1 ELSE 1) \in 1 .. Retries + 1
    BY RequestsAssumption
  <2>3. SoftSticky(r) \in BOOLEAN
    BY DEF SoftSticky
  <2>4. QED
    BY <2>1, <2>2, <2>3
<1>4. PICK n \in 1 .. Retries + 1, soft \in BOOLEAN :
        Terms' = [Terms EXCEPT ![r] = [tries |-> n, soft |-> soft]]
  BY <1>2, <1>3
<1>5. QED
  BY <1>1, <1>2, <1>4, ZenonT(60) DEF Promise!Accept, State, Terms, StateOf, TermsOf

(* The handlers, concurrent and over the real pool, implement Dispatch: each *)
(* request is tried on members only, no more often than its terms allow,     *)
(* never twice on one upstream if it asked for soft failover, and it ends    *)
(* once (proxy.go:211-272, 298-354; server.go:121-143; pool.go:67-173).      *)
THEOREM PromiseIsKept ==
  Spec => KeepsPromise
<1>1. Init => Promise!DispatchInit
  BY DEF Init, PoolInit, Promise!DispatchInit
<1>2. ASSUME RequestsInv, [Next]_vars
      PROVE  Promise!DispatchNext \/ UNCHANGED Promise!dispatchVars
  <2>1. ASSUME NEW r \in Clients, Arrive(r) PROVE Promise!DispatchNext
    BY <1>2, <2>1, ArriveRefines DEF Promise!DispatchNext
  <2>2. ASSUME NEW r \in Clients, Select(r) PROVE Promise!DispatchNext
    BY <1>2, <2>2, SelectRefines
  <2>3. ASSUME NEW r \in Clients, ReportFailure(r) \/ DialSucceeds(r)
        PROVE  Promise!DispatchNext
    BY <1>2, <2>3, ReportRefines
  <2>4. ASSUME NEW r \in Clients, DialFails(r)
        PROVE  UNCHANGED <<DOMAIN index, Terms, State, tried>>
    <3>1. /\ phase[r] = "dial" /\ phase'[r] = "failed"
          /\ \A q \in Clients \ {r} : phase'[q] = phase[q]
          /\ UNCHANGED <<index, profile, tried>>
      BY <1>2, <2>4 DEF RequestsInv, TypeOK, DialFails, poolVars
    <3>2. StateOf(r)' = StateOf(r)
      BY <3>1 DEF StateOf
    <3>3. QED
      BY <3>1, <3>2, OthersKeepTheirPromise DEF State
  <2>5. ASSUME UNCHANGED <<index, profile, phase, tried>>
        PROVE  UNCHANGED <<DOMAIN index, Terms, State, tried>>
    BY <2>5 DEF Terms, State, TermsOf, StateOf, SoftSticky, SelectionMode
  <2>6. ASSUME UpdatePool PROVE Promise!Renew
    <3>1. DOMAIN index' \subseteq Keys
      BY <1>2, <2>6, BesideInv DEF RequestsInv, PoolInv, PoolTypeOK
    <3>2. UNCHANGED <<Terms, State, tried>>
      BY <2>6 DEF UpdatePool, requestVars, Terms, State, TermsOf, StateOf,
                  SoftSticky, SelectionMode
    <3>3. QED
      BY <3>1, <3>2 DEF Promise!Renew, State, Terms, StateOf, TermsOf
  <2>7. CASE \E r \in Clients : ClientLeaves(r)
    BY <2>5, <2>7, PromiseState DEF ClientLeaves, poolVars
  <2>8. CASE Tick \/ UNCHANGED vars
    BY <2>5, <2>8, PromiseState DEF Tick, vars, poolVars, requestVars
  <2>9. QED
    BY <1>2, <2>1, <2>2, <2>3, <2>4, <2>6, <2>7, <2>8, PromiseState
    DEF Next, Promise!DispatchNext
<1>3. QED
  BY <1>1, <1>2, RequestsInvariant, PTL DEF Spec, KeepsPromise, Promise!DispatchSpec

-----------------------------------------------------------------------------
(* Blame: the failures counted on entries against the dials that failed.     *)

\* The dial that is pending is the last one of the history.
PendingIsLast(r) == Pending(r) => tried[r][Len(tried[r])] = upstream[r]

BlameInv ==
  /\ \A r \in Clients : PendingIsLast(r)
  /\ \A k \in Keys : IsFiniteSet(FailedDials(k))
  /\ BlameIsEarned

\* The history's length, and how much of it has been reported.
LEMMA HistoryLength ==
  ASSUME RequestsInv, NEW r \in Clients
  PROVE  /\ Len(tried[r]) \in 0 .. Retries + 1
         /\ Pending(r) => Len(tried[r]) \in 1 .. Retries + 1
         /\ ReportedFailures(r) = IF Pending(r) THEN Len(tried[r]) - 1 ELSE Len(tried[r])
<1>1. attempt[r] \in 0 .. Retries /\ Retries \in Nat
  BY RequestsAssumption DEF RequestsInv, TypeOK
<1>2. Len(tried[r]) = attempt[r] + IF Pending(r) \/ phase[r] = "badgateway" THEN 1 ELSE 0
  BY DEF RequestsInv, CountInv
<1>3. ReportedFailures(r) = IF Pending(r) THEN Len(tried[r]) - 1 ELSE Len(tried[r])
  BY DEF ReportedFailures, Pending
<1>4. CASE Pending(r) \/ phase[r] = "badgateway"
  BY <1>1, <1>2, <1>3, <1>4
<1>5. CASE ~ Pending(r) /\ phase[r] # "badgateway"
  BY <1>1, <1>2, <1>3, <1>5
<1>6. QED
  BY <1>4, <1>5

\* A step that reports no failure, of a request or of none, moves no blame.
LEMMA QuietStep ==
  ASSUME RequestsInv, BlameInv, RequestsInv',
         \A q \in Clients :
           /\ PendingIsLast(q)'
           /\ ReportedFailures(q)' = ReportedFailures(q)
           /\ \A j \in 1 .. Retries + 1 :
                j <= ReportedFailures(q) => tried'[q][j] = tried[q][j],
         \A i \in DOMAIN entries' :
           \/ entries'[i].failures = 0 /\ entries'[i].until = ZeroTime
           \/ i \in DOMAIN entries /\ entries'[i] = entries[i]
  PROVE  BlameInv'
<1>1. \A k : FailedDials(k)' = FailedDials(k)
  BY DEF FailedDials
<1>2. BlameIsEarned'
  <2> SUFFICES ASSUME NEW i \in DOMAIN entries'
               PROVE  /\ entries'[i].failures <= Cardinality(FailedDials(entries'[i].key))
                      /\ entries'[i].until # ZeroTime => FailedDials(entries'[i].key) # {}
    BY <1>1 DEF BlameIsEarned
  <2>1. entries'[i].key \in Keys
    <3>1. entries' \in Seq(Entry)
      BY DEF RequestsInv, PoolInv, PoolTypeOK
    <3>2. entries'[i] \in Entry
      BY <3>1, ElementOfSeq
    <3>3. QED
      BY <3>2 DEF Entry
  <2>2. Cardinality(FailedDials(entries'[i].key)) \in Nat
    BY <2>1, FS_CardinalityType DEF BlameInv
  <2>3. QED
    BY <2>2 DEF BlameInv, BlameIsEarned
<1>3. QED
  BY <1>1, <1>2 DEF BlameInv

\* The pending dial is put at the end of the history, where no failure has
\* been reported yet.
LEMMA HoldsBlame ==
  ASSUME RequestsInv, BlameInv, RequestsInv', NEW r \in Clients, phase[r] = "select",
         NEW k \in Keys \cup {None}, NEW refusal \in {"unknown", "unavailable"},
         Holds(r, k, refusal), UNCHANGED entries
  PROVE  BlameInv'
<1>1. /\ phase \in [Clients -> {"new", "select", "dial", "failed"} \cup Final]
      /\ upstream \in [Clients -> Keys \cup {None}]
      /\ tried \in [Clients -> Seq(Keys)]
  BY DEF RequestsInv, TypeOK
<1>2. \A q \in Clients \ {r} :
        /\ phase'[q] = phase[q] /\ upstream'[q] = upstream[q] /\ tried'[q] = tried[q]
  BY <1>1 DEF Holds
<1>3. /\ ~ Pending(r) /\ ReportedFailures(r) = Len(tried[r])
      /\ Len(tried[r]) \in 0 .. Retries + 1
  <2>1. ~ Pending(r)
    BY DEF Pending
  <2>2. QED
    BY <2>1, HistoryLength
<1>4. /\ PendingIsLast(r)'
      /\ ReportedFailures(r)' = ReportedFailures(r)
      /\ \A j \in 1 .. Retries + 1 :
           j <= ReportedFailures(r) => tried'[r][j] = tried[r][j]
  <2>1. CASE k = None
    <3>1. phase'[r] = refusal /\ tried'[r] = tried[r]
      BY <1>1, <2>1 DEF Holds
    <3>2. QED
      BY <1>3, <3>1 DEF PendingIsLast, Pending, ReportedFailures
  <2>2. CASE k # None
    <3>1. /\ phase'[r] \in {"dial", "failed"} /\ upstream'[r] = k
          /\ tried'[r] = Append(tried[r], k)
      BY <1>1, <2>2 DEF Holds
    <3>2. tried[r] \in Seq(Keys) /\ k \in Keys
      BY <1>1, <2>2
    <3>3. /\ Len(tried'[r]) = Len(tried[r]) + 1
          /\ tried'[r][Len(tried[r]) + 1] = k
          /\ \A j \in 1 .. Len(tried[r]) : tried'[r][j] = tried[r][j]
      BY <3>1, <3>2
    <3>4. ReportedFailures(r)' = Len(tried'[r]) - 1
      BY <3>1 DEF ReportedFailures
    <3>5. QED
      BY <1>3, <3>1, <3>3, <3>4 DEF PendingIsLast
  <2>3. QED
    BY <2>1, <2>2
<1>5. ASSUME NEW q \in Clients, q # r
      PROVE  /\ PendingIsLast(q)' /\ ReportedFailures(q)' = ReportedFailures(q)
             /\ tried'[q] = tried[q]
  BY <1>2, <1>5 DEF BlameInv, PendingIsLast, Pending, ReportedFailures
<1>6. QED
  BY <1>4, <1>5, QuietStep

\* A failure that is reported is one more failed dial of the upstream it is
\* charged to, and of no other.
LEMMA ReportFailureBlame ==
  ASSUME RequestsInv, BlameInv, RequestsInv', NEW r \in Clients, ReportFailure(r)
  PROVE  BlameInv'
<1>1. /\ phase[r] = "failed" /\ phase'[r] \in {"select", "badgateway"}
      /\ \A q \in Clients \ {r} : phase'[q] = phase[q]
      /\ UNCHANGED <<tried, upstream>>
  BY DEF ReportFailure, RequestsInv, TypeOK
<1>2. Pending(r) /\ ~ Pending(r)' /\ upstream[r] \in Keys
  BY <1>1 DEF Pending, RequestsInv, HandlerInv
<1>3. PICK k, n : /\ k \in Keys /\ k = upstream[r]
                  /\ n \in 1 .. Retries + 1 /\ n = Len(tried[r])
                  /\ tried[r][n] = k
  BY <1>2, HistoryLength DEF BlameInv, PendingIsLast
<1>4. ReportedFailures(r) = n - 1 /\ ReportedFailures(r)' = n
  BY <1>1, <1>3 DEF ReportedFailures
<1>5. \A q \in Clients \ {r} : ReportedFailures(q)' = ReportedFailures(q)
  BY <1>1 DEF ReportedFailures
<1>6. /\ FailedDials(k)' = FailedDials(k) \cup {<<r, n>>}
      /\ <<r, n>> \notin FailedDials(k)
      /\ \A q : q # k => FailedDials(q)' = FailedDials(q)
  <2>1. \A j \in 1 .. Retries + 1 : j <= n <=> (j <= n - 1 \/ j = n)
    BY <1>3
  <2>2. ASSUME NEW q, NEW d \in Clients \X (1 .. Retries + 1)
        PROVE  d \in FailedDials(q)' <=> d \in FailedDials(q) \/ (q = k /\ d = <<r, n>>)
    <3>1. d = <<d[1], d[2]>> /\ d[1] \in Clients /\ d[2] \in 1 .. Retries + 1
      OBVIOUS
    <3>2. CASE d[1] # r
      BY <1>1, <1>5, <3>1, <3>2 DEF FailedDials
    <3>3. CASE d[1] = r
      BY <1>1, <1>3, <1>4, <2>1, <3>1, <3>3 DEF FailedDials
    <3>4. QED
      BY <3>2, <3>3
  <2>3. \A q : FailedDials(q)' \subseteq Clients \X (1 .. Retries + 1)
    BY DEF FailedDials
  <2>4. \A q : FailedDials(q) \subseteq Clients \X (1 .. Retries + 1)
    BY DEF FailedDials
  <2>5. <<r, n>> \in Clients \X (1 .. Retries + 1)
    BY <1>3
  <2>6. <<r, n>> \notin FailedDials(k)
    BY <1>3, <1>4 DEF FailedDials
  <2>7. ASSUME NEW q, NEW d
        PROVE  d \in FailedDials(q)' <=> d \in FailedDials(q) \/ (q = k /\ d = <<r, n>>)
    BY <2>2, <2>3, <2>4, <2>5
  <2>8. FailedDials(k)' = FailedDials(k) \cup {<<r, n>>}
    BY <2>7
  <2>9. ASSUME NEW q, q # k PROVE FailedDials(q)' = FailedDials(q)
    BY <2>7, <2>9
  <2>10. QED
    BY <2>6, <2>8, <2>9
<1>7. /\ IsFiniteSet(FailedDials(k)')
      /\ Cardinality(FailedDials(k)') = Cardinality(FailedDials(k)) + 1
  <2>1. IsFiniteSet(FailedDials(k))
    BY <1>3 DEF BlameInv
  <2>2. ASSUME NEW S, NEW T, NEW x, IsFiniteSet(S), x \notin S, T = S \cup {x}
        PROVE  IsFiniteSet(T) /\ Cardinality(T) = Cardinality(S) + 1
    BY <2>2, FS_AddElement
  <2>3. QED
    BY <1>6, <2>1, <2>2
<1>8. \A q \in Keys : IsFiniteSet(FailedDials(q)')
  BY <1>6, <1>7 DEF BlameInv
<1>9. /\ DOMAIN entries' = DOMAIN entries
      /\ \A i \in DOMAIN entries :
           /\ entries'[i].key = entries[i].key
           /\ entries[i].key = k => entries'[i].failures = entries[i].failures + 1
           /\ entries[i].key # k => entries'[i] = entries[i]
  <2> DEFINE f == entries[index[k]].failures + 1
  <2>1. SetHealth(k, f, stamp[r] + Backoff(f))
    BY <1>3 DEF ReportFailure, MarkFailure
  <2>2. \A i \in DOMAIN entries : entries[i].key = k => f = entries[i].failures + 1
    BY DEF RequestsInv, PoolInv, IndexAgrees
  <2> HIDE DEF f
  <2>3. QED
    BY <2>1, <2>2, ReportEffect DEF RequestsInv
<1>10. BlameIsEarned'
  <2> SUFFICES ASSUME NEW i \in DOMAIN entries, NEW q, q = entries[i].key
               PROVE  /\ entries'[i].failures <= Cardinality(FailedDials(q)')
                      /\ entries'[i].until # ZeroTime => FailedDials(q)' # {}
    BY <1>9 DEF BlameIsEarned
  <2>1. /\ entries[i].failures <= Cardinality(FailedDials(q))
        /\ entries[i].until # ZeroTime => FailedDials(q) # {}
    BY DEF BlameInv, BlameIsEarned
  <2>2. CASE q = k
    <3>1. /\ entries[i].failures \in Nat
          /\ Cardinality(FailedDials(k)) \in Nat
      BY <1>3, EntryAt, FS_CardinalityType DEF RequestsInv, BlameInv, Entry
    <3>2. QED
      BY <1>6, <1>7, <1>9, <2>1, <2>2, <3>1
  <2>3. CASE q # k
    BY <1>6, <1>9, <2>1, <2>3
  <2>4. QED
    BY <2>2, <2>3
<1>11. \A q \in Clients : PendingIsLast(q)'
  BY <1>1, <1>2 DEF BlameInv, PendingIsLast, Pending
<1>12. QED
  BY <1>8, <1>10, <1>11 DEF BlameInv

LEMMA BlameInvInit ==
  Init => BlameInv
<1> SUFFICES ASSUME Init PROVE BlameInv
  OBVIOUS
<1>1. \A r \in Clients : phase[r] = "new" /\ tried[r] = <<>> /\ ReportedFailures(r) = 0
  BY DEF Init, ReportedFailures
<1>2. \A k : FailedDials(k) = {}
  BY <1>1, RequestsAssumption DEF FailedDials
<1>3. \A r \in Clients : PendingIsLast(r)
  BY <1>1 DEF PendingIsLast, Pending
<1>4. BlameIsEarned
  BY DEF Init, PoolInit, BlameIsEarned
<1>5. QED
  BY <1>2, <1>3, <1>4, FS_EmptySet DEF BlameInv

LEMMA BlameInvNext ==
  RequestsInv /\ BlameInv /\ [Next]_vars /\ RequestsInv' => BlameInv'
<1> SUFFICES ASSUME RequestsInv, BlameInv, [Next]_vars, RequestsInv'
             PROVE  BlameInv'
  OBVIOUS
<1>1. ASSUME NEW r \in Clients, Select(r) PROVE BlameInv'
  <2>1. PICK k \in Keys \cup {None}, refusal \in {"unknown", "unavailable"} :
          phase[r] = "select" /\ Holds(r, k, refusal) /\ UNCHANGED entries
    <3>1. CASE SelectForced(r)
      <4>1. Get(profile[r].force, stamp[r]) \in Keys \cup {None}
        BY EntryAt DEF Get, RequestsInv, PoolInv, IndexAgrees
      <4>2. QED
        BY <3>1, <4>1 DEF SelectForced, poolVars
    <3>2. CASE SelectSticky(r)
      BY <3>2 DEF SelectSticky, poolVars
    <3>3. CASE SelectNext(r)
      BY <3>3 DEF SelectNext, NextEntry
    <3>4. QED
      BY <1>1, <3>1, <3>2, <3>3 DEF Select
  <2>2. QED
    BY <2>1, HoldsBlame
<1>2. ASSUME NEW r \in Clients, ReportFailure(r) PROVE BlameInv'
  BY <1>2, ReportFailureBlame
<1>3. ASSUME UNCHANGED <<tried, upstream>>,
             \A q \in Clients : phase'[q] = phase[q] \/ (Pending(q) /\ Pending(q)')
                                \/ (phase[q] = "new" /\ phase'[q] = "select"),
             \A i \in DOMAIN entries' :
               \/ entries'[i].failures = 0 /\ entries'[i].until = ZeroTime
               \/ i \in DOMAIN entries /\ entries'[i] = entries[i]
      PROVE  BlameInv'
  <2>1. \A q \in Clients : PendingIsLast(q)' /\ ReportedFailures(q)' = ReportedFailures(q)
    BY <1>3 DEF BlameInv, PendingIsLast, Pending, ReportedFailures
  <2>2. QED
    BY <1>3, <2>1, QuietStep
<1>4. ASSUME NEW r \in Clients, Arrive(r) \/ DialFails(r) \/ ClientLeaves(r) PROVE BlameInv'
  <2>1. /\ UNCHANGED <<tried, upstream, entries>>
        /\ \A q \in Clients : phase'[q] = phase[q] \/ (Pending(q) /\ Pending(q)')
                              \/ (phase[q] = "new" /\ phase'[q] = "select")
    BY <1>4 DEF Arrive, DialFails, ClientLeaves, poolVars, RequestsInv, TypeOK, Pending
  <2>2. QED
    BY <1>3, <2>1
<1>5. ASSUME NEW r \in Clients, DialSucceeds(r) PROVE BlameInv'
  <2>1. /\ UNCHANGED <<tried, upstream>>
        /\ \A q \in Clients : phase'[q] = phase[q] \/ (Pending(q) /\ Pending(q)')
    BY <1>5 DEF DialSucceeds, RequestsInv, TypeOK, Pending
  <2>2. SetHealth(upstream[r], 0, ZeroTime)
    BY <1>5 DEF DialSucceeds, MarkSuccess
  <2>3. \A i \in DOMAIN entries' :
          \/ entries'[i].failures = 0 /\ entries'[i].until = ZeroTime
          \/ i \in DOMAIN entries /\ entries'[i] = entries[i]
    BY <2>2, ReportEffect DEF RequestsInv
  <2>4. QED
    BY <1>3, <2>1, <2>3
<1>6. ASSUME UpdatePool PROVE BlameInv'
  <2>1. \A i \in DOMAIN entries' : entries'[i].failures = 0 /\ entries'[i].until = ZeroTime
    BY <1>6 DEF UpdatePool, Update, Fresh
  <2>2. UNCHANGED <<tried, upstream, phase>>
    BY <1>6 DEF UpdatePool, requestVars
  <2>3. QED
    BY <1>3, <2>1, <2>2
<1>7. ASSUME Tick \/ UNCHANGED vars PROVE BlameInv'
  <2>1. UNCHANGED <<tried, upstream, phase, entries>>
    BY <1>7 DEF Tick, vars, requestVars, poolVars
  <2>2. QED
    BY <1>3, <2>1
<1>8. QED
  BY <1>1, <1>2, <1>4, <1>5, <1>6, <1>7 DEF Next

(* However reports, updates and other requests interleave, an upstream       *)
(* counts no more failures than dials to it failed, and is disabled only if  *)
(* one did (pool.go:74, 145, 156).                                           *)
THEOREM BlameIsAlwaysEarned ==
  Spec => []BlameIsEarned
<1>1. Spec => []BlameInv
  BY BlameInvInit, BlameInvNext, RequestsInvariant, PTL DEF Spec
<1>2. BlameInv => BlameIsEarned
  BY DEF BlameInv
<1>3. QED
  BY <1>1, <1>2, PTL

=============================================================================
