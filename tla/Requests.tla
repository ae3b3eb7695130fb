-------------------------------- MODULE Requests --------------------------------
(***************************************************************************)
(* Requests being dispatched concurrently by the three handlers that share *)
(* the pool: handleConnect and handleForward of the HTTP listener, dial of *)
(* the SOCKS5 listener.  Each goes round its retry loop in steps of its    *)
(* own: read the clock, ask the pool for an upstream, wait for the dial,   *)
(* report what happened.  Between two steps of one request the others run, *)
(* the clock advances and the updater replaces the pool.                   *)
(*                                                                         *)
(* The result of a dial (for a forwarded request, of client.Do) is chosen  *)
(* by the environment.  A client that goes away ends the context of a      *)
(* forwarded request: its attempt fails at once, and so do its retries.    *)
(* Of a CONNECT, hijacked before the loop, and of a SOCKS5 request the     *)
(* handler does not learn it.                                              *)
(***************************************************************************)
EXTENDS Pool, Rendezvous, FiniteSets

CONSTANTS
  Clients,     \* the requests
  Retries,     \* selection.retries
  Profiles,    \* the kinds of request that arrive
  EntryLists,  \* the lists of keys an update may deliver
  MaxTime      \* bound: the clock stops here

\* What a request asks for, once its headers are read, and how its listener is
\* configured to select:
\*   kind      its handler
\*   force     the upstream named by X-EasyProxyPool-Upstream, or None
\*   session   its session key if stickiness is enabled for it, or None
\*   failover  "soft" or "hard"
\*   again     it may be sent again: isRetryableRequest, for "forward"
\*   strategy  selection.strategy
Profile ==
  [kind : {"connect", "forward", "socks"},
   force : Keys \cup {None},
   session : Sessions \cup {None},
   failover : {"soft", "hard"},
   again : BOOLEAN,
   strategy : Strategies]

\* The SOCKS5 listener knows neither header nor session, and both it and
\* CONNECT retry whatever they carry.
ASSUME RequestsAssumption ==
  /\ Retries \in Nat
  /\ Profiles \subseteq Profile
  /\ \A p \in Profiles :
       /\ p.kind = "socks" => p.force = None /\ p.session = None
       /\ p.kind # "forward" => p.again
  /\ None \notin Sessions
  /\ Nodes = Keys
  /\ EntryLists \subseteq Seq(Keys)
  /\ \A list \in EntryLists : list # <<>> /\ DistinctKeys(list)
  /\ MaxTime \in Nat

VARIABLES
  now,        \* the clock
  profile,    \* request -> what it asks for
  phase,      \* request -> where its handler is
  attempt,    \* request -> the loop counter
  stamp,      \* request -> the time its handler read last
  upstream,   \* request -> the key of the entry it holds
  attempted,  \* request -> the set of the same name
  gone,       \* request -> its context has ended
  tried       \* history: request -> the upstreams it dialled, in order

requestVars == <<profile, phase, attempt, stamp, upstream, attempted, gone, tried>>
vars == <<entries, index, rr, now, requestVars>>

Final == {"served", "unknown", "unavailable", "badgateway"}

Init ==
  /\ PoolInit
  /\ now = 1
  /\ profile \in [Clients -> Profiles]
  /\ \A r, q \in Clients : profile[r].strategy = profile[q].strategy
  /\ phase = [r \in Clients |-> "new"]
  /\ attempt = [r \in Clients |-> 0]
  /\ stamp = [r \in Clients |-> 0]
  /\ upstream = [r \in Clients |-> None]
  /\ attempted = [r \in Clients |-> {}]
  /\ gone = [r \in Clients |-> FALSE]
  /\ tried = [r \in Clients |-> <<>>]

-----------------------------------------------------------------------------
(* The head of the loop reads the clock; the pool is asked in a later step.  *)

Arrive(r) ==
  /\ phase[r] = "new"
  /\ phase' = [phase EXCEPT ![r] = "select"]
  /\ stamp' = [stamp EXCEPT ![r] = now]
  /\ UNCHANGED <<poolVars, now, profile, attempt, upstream, attempted, gone, tried>>

SelectionMode(r) ==
  IF profile[r].force # None THEN "forced"
  ELSE IF profile[r].session # None THEN "sticky"
  ELSE "next"

\* With soft failover a sticky request passes over what it already tried.
SoftSticky(r) == SelectionMode(r) = "sticky" /\ profile[r].failover = "soft"

\* Mutant: what was attempted is not passed over.
Excluded_Nothing(r) == {}

Excluded(r) == IF SoftSticky(r) THEN attempted[r] ELSE {}

KeyAt == [i \in DOMAIN entries |-> entries[i].key]

\* The handler goes on with the entry k, or gives up with the given answer.
\* client.Do fails before it dials when the context has ended.
Holds(r, k, refusal) ==
  /\ IF k = None
       THEN /\ phase' = [phase EXCEPT ![r] = refusal]
            /\ UNCHANGED <<upstream, tried>>
       ELSE /\ phase' = [phase EXCEPT ![r] = IF gone[r] THEN "failed" ELSE "dial"]
            /\ upstream' = [upstream EXCEPT ![r] = k]
            /\ tried' = [tried EXCEPT ![r] = Append(@, k)]
  /\ UNCHANGED <<now, profile, attempt, stamp, attempted, gone>>

SelectForced(r) ==
  /\ phase[r] = "select" /\ SelectionMode(r) = "forced"
  /\ Holds(r, Get(profile[r].force, stamp[r]), "unknown")
  /\ UNCHANGED poolVars

SelectSticky(r) ==
  /\ phase[r] = "select" /\ SelectionMode(r) = "sticky"
  /\ \E k \in Keys \cup {None} :
       /\ PickRendezvous(profile[r].session, Active(stamp[r]), KeyAt,
                         Excluded(r), None, k)
       /\ Holds(r, k, "unavailable")
  /\ UNCHANGED poolVars

SelectNext(r) ==
  /\ phase[r] = "select" /\ SelectionMode(r) = "next"
  /\ \E k \in Keys \cup {None} :
       NextEntry(profile[r].strategy, stamp[r], k) /\ Holds(r, k, "unavailable")

-----------------------------------------------------------------------------
\* Nothing changes if it is noticed before the report instead of after it.
ClientLeaves(r) ==
  /\ profile[r].kind = "forward" /\ phase[r] \in {"select", "dial"}
  /\ ~ gone[r]
  /\ gone' = [gone EXCEPT ![r] = TRUE]
  /\ UNCHANGED <<poolVars, now, profile, phase, attempt, stamp, upstream, attempted, tried>>

(* The dial, and the report.  The HTTP handlers report a failure with the    *)
(* time they read before the dial, the SOCKS5 listener reads it again.       *)

DialFails(r) ==
  /\ phase[r] = "dial"
  /\ phase' = [phase EXCEPT ![r] = "failed"]
  /\ stamp' = [stamp EXCEPT ![r] = IF profile[r].kind = "socks" THEN now ELSE @]
  /\ UNCHANGED <<poolVars, now, profile, attempt, upstream, attempted, gone, tried>>

\* Mutant: any request may be sent again.
MayRetry_Anything(r) == attempt[r] < Retries

\* Mutant: the limit is off by one.
MayRetry_OnceMore(r) == profile[r].again /\ attempt[r] <= Retries

\* Mutant: there is no limit.
MayRetry_Forever(r) == profile[r].again

MayRetry(r) == profile[r].again /\ attempt[r] < Retries

ReportFailure(r) ==
  /\ phase[r] = "failed"
  /\ MarkFailure(upstream[r], stamp[r])
  /\ attempted' = [attempted EXCEPT ![r] =
                     IF SoftSticky(r) THEN @ \cup {upstream[r]} ELSE @]
  /\ IF MayRetry(r)
       THEN /\ phase' = [phase EXCEPT ![r] = "select"]
            /\ attempt' = [attempt EXCEPT ![r] = @ + 1]
            /\ stamp' = [stamp EXCEPT ![r] = now]
       ELSE /\ phase' = [phase EXCEPT ![r] = "badgateway"]
            /\ UNCHANGED <<attempt, stamp>>
  /\ UNCHANGED <<now, profile, upstream, gone, tried>>

\* From here the connection is the tunnel's, or the response is copied.
DialSucceeds(r) ==
  /\ phase[r] = "dial"
  /\ MarkSuccess(upstream[r])
  /\ phase' = [phase EXCEPT ![r] = "served"]
  /\ UNCHANGED <<now, profile, attempt, stamp, upstream, attempted, gone, tried>>

-----------------------------------------------------------------------------
(* What runs beside the requests.                                            *)

UpdatePool ==
  /\ \E list \in EntryLists : Update(list)
  /\ UNCHANGED <<now, requestVars>>

Tick ==
  /\ now < MaxTime
  /\ now' = now + 1
  /\ UNCHANGED <<poolVars, requestVars>>

Select(r) == SelectForced(r) \/ SelectSticky(r) \/ SelectNext(r)

Next ==
  \/ \E r \in Clients :
       \/ Arrive(r) \/ Select(r) \/ ClientLeaves(r)
       \/ DialFails(r) \/ ReportFailure(r) \/ DialSucceeds(r)
  \/ UpdatePool
  \/ Tick

Spec == Init /\ [][Next]_vars

\* A handler is a goroutine that is always scheduled again, and client.Do
\* returns when the context has ended.  Nothing else makes a dial end.
Fairness ==
  \A r \in Clients :
    /\ WF_vars(Select(r))
    /\ WF_vars(gone[r] /\ (DialFails(r) \/ DialSucceeds(r)))
    /\ WF_vars(ReportFailure(r))

FairSpec == Spec /\ Fairness

-----------------------------------------------------------------------------
(* Types.                                                                    *)
TypeOK ==
  /\ PoolTypeOK
  /\ now \in Nat \ {0}
  /\ profile \in [Clients -> Profiles]
  /\ phase \in [Clients -> {"new", "select", "dial", "failed"} \cup Final]
  /\ attempt \in [Clients -> 0 .. Retries]
  /\ stamp \in [Clients -> Nat]
  /\ upstream \in [Clients -> Keys \cup {None}]
  /\ attempted \in [Clients -> SUBSET Keys]
  /\ gone \in [Clients -> BOOLEAN]
  /\ tried \in [Clients -> Seq(Keys)]

(* Soft failover tries the next upstream of the ranking: a sticky request    *)
(* never dials one upstream twice, although the backoff of the first may     *)
(* have run out, or another request's success cleared it, or an update put   *)
(* it back clean, before the retry looks (proxy.go:229-233, 246-248).        *)
SoftNeverRepeats ==
  \A r \in Clients : SoftSticky(r) =>
    \A i, j \in DOMAIN tried[r] : tried[r][i] = tried[r][j] => i = j

(* A request is sent at most Retries + 1 times, and one that must not be     *)
(* sent again at most once, whichever of the two handlers' ways out of the   *)
(* loop it takes (proxy.go:217, 304, 337; server.go:125).                    *)
TriesBounded ==
  \A r \in Clients :
    Len(tried[r]) <= IF profile[r].again THEN Retries + 1 ELSE 1

\* How many of the dials of r have been reported as failed.
ReportedFailures(r) ==
  IF phase[r] \in {"dial", "failed", "served"} THEN Len(tried[r]) - 1
  ELSE Len(tried[r])

FailedDials(k) ==
  {d \in Clients \X (1 .. Retries + 1) :
     d[2] <= ReportedFailures(d[1]) /\ tried[d[1]][d[2]] = k}

(* No upstream is blamed for another's failure: however reports and updates  *)
(* interleave, an entry counts no more failures than attempts for which its  *)
(* key was selected have failed, for whatever reason, and is disabled only   *)
(* if one has (pool.go:74, 145, 156).  What an attempt leaves through is     *)
(* Transport's question.                                                     *)
BlameIsEarned ==
  \A i \in DOMAIN entries :
    /\ entries[i].failures <= Cardinality(FailedDials(entries[i].key))
    /\ entries[i].until # ZeroTime => FailedDials(entries[i].key) # {}

(* Session affinity: when a sticky request is given an upstream, every       *)
(* member that ranks above it has a failure on record or was tried by this   *)
(* very request; nothing else, no update, no other session and no clock,     *)
(* moves a session off the top of its ranking (sticky.go:144-165).           *)
HealthyTopRankWins ==
  [][\A r \in Clients :
       (SelectionMode(r) = "sticky" /\ phase[r] = "select" /\ tried'[r] # tried[r]) =>
         \A i \in DOMAIN entries :
           LET rank == Score[profile[r].session]
           IN  rank[entries[i].key] > rank[upstream'[r]] =>
                 entries[i].failures > 0 \/ entries[i].key \in Excluded(r)]_vars

(* A request is refused for want of proxies only when there is none: every   *)
(* member has a failure on record, or was tried by this very request; and    *)
(* the upstream it names is unknown to it only if that is no member or has a *)
(* failure on record, its own first attempt's included (pool.go:99-123,      *)
(* proxy.go:222-240, server.go:127-129).  Draws at random, which are with    *)
(* replacement, promise nothing of the kind (pool.go:92-97).                 *)
RefusedOnlyWithoutHealthy ==
  [][\A r \in Clients : \A i \in DOMAIN entries :
       phase[r] = "select" =>
         /\ phase'[r] = "unavailable" =>
              \/ entries[i].failures > 0 \/ entries[i].key \in Excluded(r)
              \/ SelectionMode(r) = "next" /\ profile[r].strategy = "random"
         /\ phase'[r] = "unknown" /\ entries[i].key = profile[r].force =>
              entries[i].failures > 0]_vars

\* A dial that nobody calls off.
Dialling(r) == phase[r] = "dial" /\ ~ gone[r]

(* Every request that arrives ends (its last phase is final), unless one of  *)
(* its dials never does: retries are finite even when updates and the clock  *)
(* keep handing failed upstreams back, and a forward whose client has gone   *)
(* ends although its dial may hang (proxy.go:217-272, 304-354, 376;          *)
(* server.go:125-140).                                                       *)
EveryRequestEnds ==
  \A r \in Clients :
    []<>(phase[r] \in {"new"} \cup Final) \/ <>[]Dialling(r)

-----------------------------------------------------------------------------
(* The handlers, concurrent and over the real pool, keep the promise of      *)
(* Dispatch.                                                                 *)
Promise ==
  INSTANCE Dispatch WITH
    MaxTries <- Retries + 1,
    members <- DOMAIN index,
    terms <- [r \in Clients |->
                IF phase[r] = "new" THEN [tries |-> 0, soft |-> FALSE]
                ELSE [tries |-> IF profile[r].again THEN Retries + 1 ELSE 1,
                      soft |-> SoftSticky(r)]],
    state <- [r \in Clients |->
                CASE phase[r] = "new" -> "new"
                  [] phase[r] = "select" -> "waiting"
                  [] phase[r] \in {"dial", "failed"} -> "trying"
                  [] phase[r] = "served" -> "served"
                  [] OTHER -> "refused"],
    used <- tried

KeepsPromise == Promise!DispatchSpec

-----------------------------------------------------------------------------
(* What the documents say and the code does not do.                          *)

(* Every retry changes the upstream (config.yaml:62).                        *)
RetryChangesUpstream ==
  \A r \in Clients : profile[r].force = None =>
    \A i, j \in DOMAIN tried[r] : j = i + 1 => tried[r][i] # tried[r][j]

(* A failing upstream is disabled for a while (README.md:16): once a failure *)
(* has been reported it is not eligible.                                     *)
FailureDisables ==
  [][\A r \in Clients :
       (phase[r] = "failed" /\ phase'[r] # "failed") =>
         \A i \in DOMAIN entries :
           entries[i].key = upstream[r] => ~ Eligible(entries'[i], now)]_vars

=============================================================================
