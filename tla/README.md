# EasyProxyPool: a TLA+ verification project

EasyProxyPool keeps a pool of upstream proxies, refreshed periodically from
lists on the network, and offers it to clients through an HTTP and a SOCKS5
listener. This directory holds TLA+ modules translated from its source, TLC
configurations that model-check them on small instances, and proofs checked by
TLAPS that hold for every value of the constants. `PROJECT.json` names the
lines each definition stands for, the runs, the mutants that show each property
can fail, the hazards, and the theorems.

## 1. Inventory

| Component (src/) | State | Operations | Interacts with |
|---|---|---|---|
| Upstream pool, `internal/pool` | entries with failures and disabledUntil, key index, cursor, updating flag | Update, Next, Get, Active, MarkSuccess, MarkFailure, UpdatingCAS/Clear | called by listeners, updater, admin |
| HTTP proxy, `server/httpproxy/proxy.go` | per request: attempt, attempted; one shared http.Transport | handleConnect, handleForward, dialThroughSOCKS5, tunnel | pool, sticky selection, upstreams |
| Sticky selection, `server/httpproxy/sticky.go` | none | sessionKey, policy, hrwScore, pickRendezvous | HTTP proxy |
| SOCKS5 listener, `server/socks5proxy` | per request: attempt | dial, dialViaUpstream, credentials | pool, upstreams |
| Updater, `orchestrator/updater.go` | ticker, wait group | Start, runOnce (xray, fallback, legacy), Stop | sources, fetcher, health, xray, pool, status |
| Status, `orchestrator/status.go` | last start, end, error, counts | SetStart, SetEnd, Snapshot | updater, admin |
| xray instance, `xray/manager.go` | process handle, hash of its configuration | Ensure, Stop, waitReady | updater, the xray process |
| xray configuration and metrics, `xray/config.go`, `metrics.go` | none | Generate, Fetch | updater |
| Node identity, `upstream/spec.go` | none | StableNodeID, Deduplicate | sources, updater |
| Sources, fetcher, clash parser, health checker | none | Load, Fetch, ParseYAML, Check | updater |
| Log buffer, `logging` | ring, subscribers | Append, SnapshotSince, Subscribe, cancel | every component, admin |
| Admin server, `server/admin` | slots for event streams | handleLogsSSE; read-only endpoints | log buffer, status, pool |
| Configuration, process | none | defaults, validation, start and stop order | all |

What is hard here, and what would make each component correct:

* **Pool.** Requests hold a copy of an entry while others report on it, and an
  update may renew the whole list in between. Reports name an upstream by key,
  with a time read before the dial. Correct: a report reaches the entry it
  means or none; failures and penalty stay in step whatever the order of
  reports; a penalty is bounded; no eligible upstream is starved.
* **Listeners.** A retry loop over a pool that changes under it. Correct: a
  request ends, is sent no more often than allowed and only once if it must not
  be repeated, is not refused while a healthy upstream exists, and blames only
  upstreams it has tried.
* **Sticky selection.** Sessions must stay on their upstream across updates
  that change the members and their order, and across other sessions' failures.
* **Updater and xray.** One update at a time; three ways to fail, each followed
  by the fallback; a process that is restarted by killing it, may die by
  itself, and serves node IDs the pool keeps when an update finds none alive.
  Correct: every way out ends the update with a status that tells what the pool
  holds, no process is leaked or outlives the program, no failure empties the
  pool; what the pool lists is what the running process can route.
* **Log stream.** A ring that overwrites, subscribers dropped when they are
  slow, a handler that takes its snapshot and subscribes in two steps. Correct:
  events of a stream come in order, once, and slots are given back.
* **HTTP transport and tunnel.** Idle connections are kept by target while
  upstreams are chosen per request. Two copies run until one ends, which closes
  one side only. Correct: each end reads what the other sent, in order and once;
  nothing stays open when the handler has returned; a client that goes away ends
  the tunnel.
* **Sources.** Several documents that overlap, change between two reads and
  fail, one node in several spellings, two paths that use them differently.
  Correct: all or nothing of what is configured is used; nodes that lead out in
  different ways stay apart and one way is one node; the order of the entries
  does not restart xray; health checks come to an end.

The hazards list of `PROJECT.json` puts each of these at its line.

## 2. What is modelled

### The pool: `Pool`, `PoolCalls`, `UpstreamHealth`

`Pool` has one operator per method of `pool.go`. Every method holds `p.mu` from
first line to last, so each is one atomic step. An entry is its key and its
health. The cursor is kept modulo the number of entries, which is all `Next`
reads of it (the wrap at 2^64, after which the sequence of positions jumps
once, is not represented). Random selection is any sequence of `Len(entries)`
draws with replacement: any eligible entry, or none if some entry is disabled.
The two readings of "disabled" (`now.After` in `Next`, `!now.Before` in `Get`
and `Active`) are two operators, `Eligible` and `Usable`.

`PoolCalls` puts the pool under every sequence of calls, with reports for keys
that may be gone and any time up to the present: an environment that includes
all real callers, so that what holds here holds for them. `UpstreamHealth` is
the abstract specification: a map from members to health, in which an operation
touches the record it names and no other.

### Dispatching: `Requests`, `Dispatch`, `Rendezvous`

`Requests` composes the pool and the selection of `Rendezvous` with concurrent
requests of the three handlers that share it. A handler's loop is cut where the
code can be interrupted:

| Action | Code |
|---|---|
| `Arrive` | the loop's head: `now := time.Now()` |
| `SelectForced`, `SelectSticky`, `SelectNext` | `Get`, `Active` + `pickRendezvous`, `Next`, each with the time read before, and the refusal if they return nothing |
| `ClientLeaves` | the context of a forwarded request ends: its attempt may fail at once, its retries do |
| `DialFails` | the dial (for a forwarded request, `client.Do`) returns an error; the SOCKS5 listener reads the clock again |
| `ReportFailure` | `MarkFailure`, the `attempted` set, then the next turn of the loop or the 502 |
| `DialSucceeds` | the dial returns a connection, `MarkSuccess` |
| `UpdatePool`, `Tick` | the updater delivers a list; time passes |

`Dispatch` is the promise to a request: tried on members of the pool one at a
time, within its terms, never twice on one upstream if soft, ended once.
`KeepsPromise` checks that `Requests` implements it. The hash that ranks
upstreams for a session is the constant `Score`, any function to the naturals,
collisions included. A profile (handler, forced upstream, session, failover,
repeatable, strategy) stands for what the handlers read from the request's
headers and from `selection`; the strategy is the argument of `Next`, the same
for all requests.

A client that goes away is an actor only for a forward. A CONNECT is hijacked
before its loop, after which the server watches the connection no more, and
go-socks5 dials with a context of its own. The retries of a forward whose client
has gone fail before they dial, and are reported like any failure: one impatient
client charges up to Retries + 1 healthy upstreams.

### One CONNECT: `Tunnel`

From `Hijack` to the return of the handler: the client, the upstream with the
target behind it, and the two `io.Copy` between them.

| Action | Code (proxy.go) |
|---|---|
| `Hijack` | 202-207; the reader it returns is dropped, and bytes that were in it are lost |
| `Refuse`, `DialFails`, `DialSucceeds` | the loop, 217-251: Requests has its selection; whatever `http.Error` writes after the hijack reaches nobody |
| `WriteAnswer` | 253, and the start of the two goroutines |
| `Read`, `ReadEnds`, `Write`, `WriteIsLost`, `WriteFails` | one `io.Copy`, 255-263: a chunk is read and then written, possibly in parts |
| `FirstEnded`, `SecondEnded` | 265-268 |
| `Send`, `End`, `Leave`, `TakeUp` | what an end does: it sends, closes its direction, goes, reads |

A byte is its number in the stream of its sender, so that "in order, once,
without a gap" can be said. `got` is what was handed to the kernel for an end;
what the kernel does with it after a close is not modelled.

### From the sources to the members: `NodeIdentity`, `Sources`, `Affinity`

`NodeIdentity` has the pure functions, one operator each: `ParseYAML` and
`ParseProxy` (clash/parser.go), `SpecFromAddr` (updater.go), `StableNodeID`,
`CanonicalHeaders` and `Deduplicate` (upstream/spec.go), `Outbound` and
`Generate` (xray/config.go). A Clash proxy is the map of the keys it sets; an ID
is the record of what `canonicalString` writes, so that two nodes have one ID
exactly if they have one canonical string. The order of the hashes is the
constant `HashOrder`. Loops that filter or sort are written by the places of
what they keep: `At` (the elements at given places, in order), `Firsts` (those
whose key is new) and `Ordered` (by ascending keys).

`Sources` is an update as far as data are concerned. Each read is a step and
finds any document the source may have at that moment; the xray path reads the
typed sources and then the lists, the legacy path the lists and then the typed
sources. A typed source that fails ends the path, a list that fails counts as
empty, nothing at all is an error. Every error of the xray path leads to the
legacy path, which reads everything again, or to the end. `GenerateConfig` and
`DeliverAlive` end the xray path (`Ensure` and the metrics are in `Updater` and
succeed or fail here as they like); `StartChecks`, `BeginCheck`, `EndCheck` and
`DeliverChecked` are the goroutines of the legacy path with their semaphore.

`Affinity` is the abstract specification: any list of distinct nodes may follow
any other, in content and in order. It states what rendezvous hashing is chosen
for; `Sources` is shown to implement it, so that sessions keep their upstreams
over what updates really deliver. Its constant `MemberLists` is what any list
may look like; `MembersAssumption` says what it has to include.

### Connections under a forward: `Transport`

`Requests` ends at `client.Do`. What it does with the upstream it is given is
modelled apart, for sticky requests over one pool: the shared `http.Transport`
reads the upstream only when it dials, keeps connections by target, and may
hand the connection dialled for one request to another that waits for the same
target. The actions of the library are marked external; the selection and the
dial are the code's.

### The update cycle: `XrayInstance`, `Updater`

`XrayInstance` is the manager and the processes. `Ensure` is cut where it
waits: `Replace` (kill and start) or `ReplaceFails`, then `Ready` or `NotReady`;
`ensuring` says that it holds `i.mu`, for which `Stop` waits (`TypeOK` of `Updater`
has that it is held just while a run waits for its process). The system moves
in between: `Bind` (the first process to bind the ports serves, another exits),
`Release` (a killed process lets go of them in its own time), `Die`, and
`KilledByContext` (`exec.CommandContext`). The probes and the metrics client
talk to whoever is `Answering`, which need not be the process the handle names.

`Updater` is the goroutine of `Start`:

| Action | Code |
|---|---|
| `Tick`, `RunOnce` | the ticker's channel of one; the head of `runOnce` |
| `LoadSpecs`, `LoadSpecsFails` | `loadUpstreamSpecs` and `Generate` |
| `EnsureUnchanged`, `EnsureReplaces`, `EnsureFails`, `EnsureReady`, `EnsureTimesOut` | `Ensure`, with the steps of `XrayInstance` |
| `FetchMetrics`, `FetchMetricsFails` | `Fetch`, `SetRelaxedNodeHealth`, the entries, `Update`, `SetEnd` |
| `CheckLegacy`, `LegacyFails` | `runOnceLegacy` |
| `ContextEnds`, `StopBegins`, `StopXray`, `LoopExits` | the signal; `Stop`, whose wait ends with the loop or with its deadline |

`Abandon` is what every failure of the xray path comes to: the legacy path, or
the end of the run if `fallback_to_legacy_on_error` is off. `Faults` says which
faults the environment commits in a run; a failure the code can always meet
(the context has ended, no process answers) does not depend on it.

The pool's updating flag is left out: runs never overlap, so it is never found
set. A generated configuration is a model value (the hash tells configurations
apart) and the nodes it includes.

### Logs: `LogBuffer`, `LogStream`

`LogBuffer` has one operator per method, atomic under `b.mu`; the ring is the
array with `start` and `size` as in the code. `LogStream` is the handler of
`/api/events/logs` over it: slot, snapshot, one written event at a time,
subscription, one received event at a time, and the deferred calls in `Leave`,
whichever way out is taken. The writer of the log runs between any two of
these. What a handler has yet to write of its snapshot is kept by the places the
events had in it, those that were written being gone. `levels`, `sent`,
`snapAt`, `joinedAt` are history that no step reads.

## 3. The runs

| Run | Question | Instance |
|---|---|---|
| `pool_calls` | is the pool consistent, fair and bounded under any calls, and does it implement `UpstreamHealth`? | 3 keys, lists that grow, shrink and change order |
| `requests` | do CONNECT, forward and SOCKS5 requests that compete for a pool keep the promise, clients that leave included; does a session stay with its ranking, does soft failover never repeat, does every request end unless a dial hangs that nobody calls off? | 2 requests, 1 retry, 3 upstreams; either round-robin and forced picks (clock to 3), or 2 sessions with opposite rankings, one with a collision, beside random draws (clock to 2); under fairness |
| `sources` | is what is loaded complete and nothing else and independent of its order; do updates implement `Affinity`, move only the sessions they have to, and end? | 4 configurations over 4 typed sources and 2 lists with up to 3 documents each; at most 5 nodes; 1, 2 or 200 checks at a time; under fairness |
| `twin_nodes` | violation: the same node has one ID, and sources are de-duplicated (`issues/2025-12-23_22-22-56-clash-yaml-xray-observatory.csv:4`, README.md:11) | 1 configuration with 1 Clash source |
| `tunnel` | is a CONNECT relayed in order, complete where the code promises it, closed on both sides, and ended when its client goes? | 1 retry, 2 bytes each way, room for 1; under fairness |
| `slow_dial` | violation: a reported failure disables its upstream (README.md:16) | 1 request |
| `same_node` | violation: every retry changes the upstream (config.yaml:62) | 1 request |
| `pinned_egress` | violation: a session is pinned to a fixed egress (README.md:112) | 2 requests, 1 target |
| `update_cycle` | whatever fails: no process leaked, none after Stop, the pool never emptied, the status true of the pool, every update ends | 2 configurations that share a node, 2 pids, every fault, the fallback; under fairness |
| `stale_nodes` | violation: the running xray can route every node in the pool (docs/xray-adapter.md:16) | the same, without faults |
| `dead_xray` | violation: an update starts an xray that does not run (docs/xray-adapter.md:26) | 1 configuration, only deaths |
| `log_stream` | are streams in order, complete but for the handover, ended when slow, their slots returned? | ring of 2, channel of 1, 2 handlers for 1 slot, 4 events |

**Bounds.** `MaxTime` stops the clock and `MaxFailures` the count of failures
on one entry. With backoffs 1 and 2 a clock of 3 lets a first penalty be
active, at its boundary and over; the second doubling reaches the cap and the
third failure meets it. Two requests with two attempts show every pairwise
interleaving of select, dial and report; two lists of which one drops and
reorders members show every effect of an update on a key held by a request
(kept, moved, gone, back with a clean record). Three upstreams are the fewest
in which a scan passes over a disabled one and still has a choice.

For the update cycle two pids are all the system needs at a time: the process
the handle names and a killed one that still holds the ports. Two configurations
that share a node let a probe or a metrics answer from the wrong process matter,
and let an update go back to the hash of the one before. For the log, four
events over a ring of two wrap it twice and pass a handler's snapshot,
subscription and full channel; the second handler meets the taken slot, or the
one that was given back. `update_cycle` has xray enabled and the fallback on,
which is the way through both paths; the theorems hold for the other settings
too. One query names an ID the log has not reached.

For the sources, one configuration has every kind of source, an unsupported one
between the others and no fallback, and more nodes than `MaxNodes` in some of
its documents; one has the fallback; two are legacy, with fewer slots than
addresses. The documents hold what identity has to tell apart or take for one:
a SOCKS5 node as a line and as a proxy, in two spellings, with and without
credentials; WebSocket nodes that differ in the path or in a header; an IPv6
address that `net.SplitHostPort` refuses; proxies that do not parse. For the
tunnel, two bytes let a copier read them together or one by one, and room for
one makes it wait in the middle of a chunk. In `requests` both requests are of
one strategy, as in the program. Mixes that differ only in the names of the
requests are left out, and so are two requests that ask for the same, unless
they share a session (`MixInit`). The clock of the mixes that draw at random
stops at 2 (`RandomHorizon`), where a first penalty is over.

**Fairness.** In `Requests` selecting and reporting are steps of a goroutine
that nothing blocks: weak fairness. A dial need not end, since the code sets no
deadline on one through an upstream; only when the context has ended does
`client.Do` return. `EveryRequestEnds` therefore excepts a request that dials
for ever with nobody to call it off. Neither the clock, nor updates, nor
arrivals, nor departures need to happen. In `Sources` an update that runs goes
on: every read has the client's timeout of 30 s (fetcher.go:24) and every check
its own (health.go:31). In `Tunnel` the handler and the two copiers go on when
they can; the ends need do nothing. In `Updater` the ticker ticks, the
goroutine goes on (each of its waits has a timeout: the start timeout, the
metrics client's 3 s, the fetcher's and the health checker's), and so does
`Stop`, whose deadline is 10 s; a started process binds the ports or exits and
a killed one lets go of them. Nothing else need happen: no fault, no signal, no
death. In `LogStream` a handler whose client reads goes on; neither the writer
nor a client has to.

**Deadlock** is checked except where the system may really stop: after the loop
has exited and `Stop` has returned (`Updater`), when every connection has been
served and the events are used up (`LogStream`, `Transport`), when the handler
has returned (`Tunnel`).

**Mutants.** Each property of a passing run comes with a mutation of a mapped
definition (a dropped guard, an index built too early, a limit off by one) under
which TLC finds it violated; the mutated forms are beside the definitions.

## 4. What is proved

Every safety invariant and every action property of a passing run, and each
refinement, is a theorem: for every set of keys, requests, handlers, documents
and lists, every backoff, retry count, score, capacity and number of bytes, with
no bound on the clock beyond its being a natural number.

| Theorem | Module | States |
|---|---|---|
| `TypeCorrect`, `IndexAlwaysAgrees`, `HealthAlwaysAgrees`, `PenaltyAlwaysBounded`, `NoOneStarves` | `PoolCallsProofs` | the invariants of `PoolCalls` |
| `RefinesHealth` | `PoolCallsProofs` | the pool implements `UpstreamHealth` |
| `RequestsTypeCorrect`, `TriesAlwaysBounded`, `SoftNeverRepeatsAlways`, `BlameIsAlwaysEarned` | `RequestsProofs` | the invariants of `Requests` |
| `HealthyTopRankAlwaysWins`, `OnlyRefusedWithoutHealthy` | `RequestsProofs` | what a selection gives, and when it gives nothing |
| `PromiseIsKept` | `RequestsProofs` | the requests implement `Dispatch` |
| `DisruptionIsMinimal` | `AffinityProofs` | a session moves only if its upstream left or its new one just came |
| `SourcesTyped` | `SourcesProofs` | the type invariant of `Sources` |
| `TwinsAreOnlyThese` | `SourcesProofs` | how far the code is from `OneNodeEach`, which `twin_nodes` shows violated |
| `LoadIsComplete`, `OrderNeverMatters` | `SourcesProofs` | what a load has come to when it ends |
| `DeliversMembers`, `LoadsDisruptMinimally` | `SourcesProofs` | updates implement `Affinity`, hence move only the sessions they have to |
| `BytesAreRelayed`, `NothingIsLeftOpen`, `NothingIsTruncated` and the types | `TunnelProofs` | the invariants of `Tunnel` |
| `RingHoldsTail`, `RegisteredAreOpen`, `SlotsAreBalanced`, `StreamInOrderOnce`, `OneHoleOnly` and the types | `LogStreamProofs` | the invariants of `LogBuffer` and `LogStream` |
| `UpdaterTypes`, `NoProcessLeaks`, `HashIsOfProcess`, `StopIsFinal`, `StatusIsOfPool` | `UpdaterProofs` | the invariants of `Updater` |
| `PoolKeepsMembers` | `UpdaterProofs` | no step empties a pool that has members |

**Assumptions.** They rest on the named assumptions of the modules:
`PoolAssumption` (positive backoffs, what `applyDefaults` guarantees),
`CallsAssumption` and `RequestsAssumption` (one of two strategies, what
`validate` guarantees; an update delivers a non-empty list of distinct keys,
which both paths of the updater ensure before they call `Update`; of distinct
keys `DeliversMembers` proves it),
`AffinityAssumption` (scores without collision, which the property needs: with
one, the order of the list decides), `XrayAssumption` (the nil handle is no
process and the empty hash no configuration's), `UpdaterAssumption` (finitely
many nodes and addresses, and no node ID that is an address), and for the
sources:

* `NodeAssumption`: a spelling in lower case has no other, and an IPv6 address
  is one in any spelling;
* `SourcesAssumption`: documents are finite lists, configurations have their
  fields;
* `EntriesAssumption`: no two IDs of entries have one hash, and a proxy has
  finitely many headers;
* `MembersAssumption`: the lists that `Affinity` allows an update to deliver
  include the IDs of any entries in the order of their hashes and any addresses
  without repetition. This makes `DeliversMembers` say just that: whatever a
  load delivers has this form.

**The arguments.** The lemmas about one operation each are in `PoolProofs`: an
update makes index and entries agree *because* the keys are distinct; a report
writes one position only, and index agreement says it is the position of the key
it names.

* `CallsInv` is types, `IndexAgrees`, `HealthAgrees` and `PenaltyBounded`
  together. Types alone are not inductive: a report indexes `entries` by
  `index[key]`, so even that the entry it rewrites is one of the pool's rests
  on `IndexAgrees`. `PenaltyBounded` needs the report's time to be at most
  `now` and the backoff to be at most the larger setting (`BackoffBounded`).
* `NoStarvation` follows from `TurnInv`: the calls an upstream has been passed
  over and the calls until the scan starts with it are together fewer than the
  pool has entries. Each call of `Next` takes one from the second to the first.
* `RequestsInv` adds to the types and `IndexAgrees` how the dials of a request
  relate to its loop counter and its phase: after `n` retries it has dialled
  `n` times when it is about to select and `n + 1` times from then on, which
  makes the limit on the counter a limit on the dials; and for a soft sticky
  request that what it dialled and has been reported is in `attempted`, which
  is what the next selection excludes. Its `PoolInv` has `HealthAgrees`: an
  entry that a selection passes over has a failure on record
  (`UnusableHasFailed`), which the two theorems on selection need.
* `BlameInv` adds to `BlameIsEarned` that the dial a request has pending is the
  last of its history and that the failed dials of a key are finitely many: a
  report adds one to the failures and exactly that dial to the set they are
  compared with, for any set of requests, finite or not.
* `PromiseIsKept` goes action by action: arriving, selecting and reporting are
  steps of `Dispatch`, a failing dial and an update that keeps the keys are
  stutters.
* `TunnelInv` says where the handler is and what it has open (`ControlInv`); of
  each direction that what was read, what is in the copier's hands and what was
  written are runs of the sender's bytes, each beginning where the one before
  ends (`Ordered`, `Relays`); and of a client that still listens that it is the
  upstream's end that ends the first copy, with all bytes written
  (`ListensInv`), which is what `Untruncated` comes to when the handler closes.
* `StreamInv` gives the ring's content by the number of the last event, each
  handler's snapshot and channel as a stretch of the log, and what has been sent
  as the stretch before. The events behind the snapshot and before the
  subscription are the only hole, and a channel that is closed is not in the
  table of subscribers.
* `SourcesInv` relates what a load holds to what it has read (`StandFor`): the
  specifications are some of the proxies read and hold one of each ID; the
  addresses include all of the lists and, of the proxies without credentials,
  one of each ID. It is the *IDs* that have to be tracked, not the entries, since
  `Deduplicate` keeps whichever came first; that entries of one ID lead the same
  way (`SameIDSameWay`) turns this into completeness at the end of the load. The
  configuration is the image of a set of entries in the strict order of their
  hashes (`ConfigOf`), which makes it a function of that set and, without
  entries in conflict, of what was read.
* `UpdaterInv` ties the goroutine to the instance. `StatusTellsPool` is not
  inductive by itself: a run that arrives at the metrics has to
  know that the handle, if it is set, is that of its own configuration
  (`Coupled`), the entries of an xray run are those of that configuration until
  the next `Replace` (`Reported`), and the nodes of an answering process are
  nodes of the sources because whoever holds the ports was started
  (`StartedWithConfig`). `StoppedForGood` follows from `NoOrphan` and the nil
  handle: a run that outlives Stop's deadline cannot start a process, since the
  context ended before Stop began (`Stopping`).

The pure operators have lemmas of their own in `SourcesProofs`: what `At`,
`Firsts`, `Deduplicate`, `Ordered`, `Generate`, `ParseYAML`, `AddrsOfSpecs` and
`SpecsOfAddrs` return, for sequences of any length. They are defined by places
and ranks instead of recursion, so that this can be proved without induction
over data: the place of an element in a filtered or sorted list is the number of
those before it (`Ranking`).

## 5. Only model-checked

`EveryRequestEnds`, `EveryRunEnds`, `EventsArrive`, `LoadEnds` and `TunnelEnds`
are liveness under fairness: they need ENABLED and well-founded arguments that
the prover does not reach, and stay with TLC. The six properties that are
expected to be violated are TLC's by nature. Cardinalities rest on the library's
theorems about finite sets; nothing is proved by induction over data.

## 6. Findings

* `slow_dial`: the HTTP handlers report a failure with the time they read
  before the dial, so a dial slower than the backoff disables nothing.
* `same_node`: a retry without a session asks the pool again, and only the
  penalty keeps it off the upstream that failed; an update in between, or a
  penalty that is over, sends it to the same one although another is healthy.
* `twin_nodes`: a SOCKS5 node without credentials that comes from a Clash document
  is two nodes in xray, and two upstreams in the pool: once as the proxy and once
  as the address that `Load` lists for the legacy path (loader.go:89), which
  `loadUpstreamSpecs` turns into a node whose ID has no user part
  (updater.go:322-326, spec.go:110). The plan of the feature asks for one stable ID
  per node, with different sources merged and de-duplicated
  (`issues/2025-12-23_22-22-56-clash-yaml-xray-observatory.csv:4`; README.md:11).
  One document with one proxy is enough, and a node listed in one source and
  described in another fares the same. `TwinsAreOnlyThese` proves that SOCKS5
  nodes have no other twins: repetitions within lists, within Clash documents and
  in another spelling are found.
* `stale_nodes`: xray is reconfigured before it is known which nodes are alive,
  and if the metrics show none (which is so right after a start) the pool keeps
  entries of the old configuration, for whose IDs the running xray has neither
  user nor rule.
* `dead_xray`: a process that has died keeps its handle and hash, so `Ensure`
  takes it for up to date; while the sources stay as they are every update
  falls back.
* `pinned_egress`: a forward may go out on an idle connection another session's
  upstream was dialled for; failures and successes are then reported on the
  upstream that was selected, not on the one that was used.

Further observations, which no document contradicts or which have no run of
their own:

* Random selection may refuse a request while an eligible upstream exists, since
  its draws are with replacement (pool.go:92-97); `RefusedOnlyWithoutHealthy`
  excepts it, which the proof for every strategy showed to be needed. And a
  first failure's penalty is not capped by `max_backoff_seconds`
  (`PenaltyBounded` is stated with the larger of the two).
* A forward whose client has gone is retried all the same, each time on another
  upstream, and each of these is reported as failed (proxy.go:331-338).
* `canonicalHeaders` looks values up under the lower-case name: two WebSocket
  nodes that differ only in a `Host` header are one node, and the one that is
  read first wins, so the order of the entries decides (spec.go:188-198).
  The same goes for Shadowsocks nodes whose method is spelled in two ways
  (spec.go:117): one ID, two outbounds. `CompleteLoad` and `OrderIsImmaterial`
  except exactly these, and the spelling of the server's name; the second
  exception came out of the proof that entries of one ID lead the same way.
* On the xray path a failing typed source also keeps the proxy lists from being
  used, and on the legacy path proxy lists without an entry keep the typed
  sources from being used (updater.go:316-319, 376-379).
* What a client sends behind its CONNECT without waiting for the answer may be
  lost with the reader that `Hijack` returns (proxy.go:202); `Relayed` says that
  nothing else is.
* A client that closes its own direction early may get less than the upstream
  sent, because the end of the first copy closes the upstream (proxy.go:265);
  `Untruncated` says that others get all. And a copier that waits for an upstream
  that takes up nothing has no deadline, so the tunnel of a client that has gone
  may stay; `TunnelEnds` says that it ends otherwise.

## 7. Not modelled, and the plan

Not modelled for good: rendering (`Stats`, `SafeSummary`, the admin's JSON
endpoints, the UI), the syntax of YAML and the conversion of numbers and
Booleans from text, TLS and SOCKS5 handshakes, the parts of xray's configuration
that are the same for every list of nodes. Of the configuration only what the
other modules depend on is there: as `ApplyDefaults` and `Validates` in
`Sources`, elsewhere as assumptions on the constants. Authentication and the
precedence of headers in `stickyPolicyFromRequest` are functions of one request
that the repository's tests reach; `Requests` begins with their result, a
`Profile`. The goroutines that a cancelled dial or a check that timed out leaves
behind (proxy.go:372, health.go:45) hold nothing another step reads and are not
followed.

What is left for later: the defaults and checks of `config.go` beyond those in
`Sources`; the counts in the update's status; the metrics client's decoding.
Theorems that would add something: that `PoolCalls` admits every step of
`Requests` and of `Updater` on the pool, so that its invariants hold there
without being restated; and a closed form of what the running xray can route
after each way out of an update, of which `stale_nodes` shows the gap.
