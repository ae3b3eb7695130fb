-------------------------------- MODULE Sources ---------------------------------
(***************************************************************************)
(* What an update reads and what becomes of it: the loader of the typed    *)
(* sources (internal/sources/loader.go), the fetcher of the lists          *)
(* (internal/fetcher), the two ways of the updater through them, the       *)
(* health checks of the legacy way (internal/health) and the delivery to   *)
(* the pool.  Its members are those of Affinity: node IDs in the xray      *)
(* way, addresses in the legacy way.                                       *)
(*                                                                         *)
(* Updater has the xray process, the ticks and the status; here Ensure and *)
(* the metrics succeed or fail as the environment likes.  Each read finds  *)
(* any document the source may have, so it may change between two reads.   *)
(* An address is [host, port], a line is an address with or without        *)
(* "socks5://"; comments and blank lines are gone.                         *)
(***************************************************************************)
EXTENDS NodeIdentity, Affinity

CONSTANTS
  Written,   \* the configuration files, as they are written
  SourceOf,  \* name of a typed source -> [type, from, docs]
  Lists      \* URL of a list -> the documents it may have

\* from is "both" or "" for a source with url and path, or with neither.
ASSUME SourcesAssumption ==
  /\ \A s \in DOMAIN SourceOf :
       /\ SourceOf[s].from \in {"url", "path", "both", ""}
       /\ \A d \in SourceOf[s].docs : d \in Seq(ToSet(d))
  /\ \A u \in DOMAIN Lists : \A d \in Lists[u] : d \in Seq(ToSet(d))
  /\ \A w \in Written :
       w \in [xray : BOOLEAN, fallback : {"unset", "true", "false"}, concurrency : Int,
              sources : Seq(DOMAIN SourceOf), lists : Seq(DOMAIN Lists)]

VARIABLES
  cfg,      \* [xray, fallback, concurrency, sources, lists]
  path,     \* the way runOnce is on, or "idle"
  stage,    \* "load", "ensure", "check"
  typed,    \* the documents read from cfg.sources, in order
  addrs,    \* Result.SOCKS5Addrs of those
  specs,    \* Result.Specs of those
  listed,   \* the documents read from cfg.lists, <<>> for one that was not got
  fetched,  \* the addresses of those
  config,   \* genRelaxed
  waiting,  \* health checks: the goroutines before the semaphore
  running,  \* those that hold a slot
  passed    \* results, in the order they came

loadVars == <<path, stage, typed, addrs, specs, listed, fetched>>
checkVars == <<waiting, running, passed>>
vars == <<members, cfg, loadVars, config, checkVars>>

-----------------------------------------------------------------------------
(* The part of the configuration this is about: config.go.                   *)

DefaultConcurrency == 200

\* A *bool: "unset" means true.
FallbackDefault(b) == b # "false"

ApplyDefaults(w) ==
  [w EXCEPT !.concurrency = IF @ <= 0 THEN DefaultConcurrency ELSE @,
            !.fallback = FallbackDefault(@)]

Validates(c) == c.lists # <<>> \/ c.sources # <<>>

-----------------------------------------------------------------------------
(* What the documents come to.                                               *)

\* The set of the entries seen and the slice of the new ones.
Distinct(seq) == Firsts(seq, seq)

AddrsOfLines(doc) == [i \in DOMAIN doc |-> doc[i].addr]

\* What the legacy way can use of a Clash document.
Plain(s) == s.type = "socks5" /\ ~ HasCredentials(s.cfg)
AddrOf(s) == [host |-> s.server, port |-> s.port]

AddrsOfSpecs(found) ==
  LET usable == At(found, {i \in DOMAIN found : Plain(found[i])})
  IN [i \in DOMAIN usable |-> AddrOf(usable[i])]

SpecsOfAddrs(as) ==
  LET good == At(as, {i \in DOMAIN as : Splits(as[i])}) IN [i \in DOMAIN good |-> SpecFromAddr(good[i])]

\* All that the sources may ever hold.
Documents(type) ==
  UNION {SourceOf[s].docs : s \in {t \in DOMAIN SourceOf : SourceOf[t].type = type}}
ClashEntries ==
  {ParseProxy(r) : r \in {p \in UNION {ToSet(d) : d \in Documents("clash_yaml")} : Parses(p)}}
ListedAddrs ==
  {l.addr : l \in UNION {ToSet(d) : d \in Documents("raw_list") \cup (UNION {Lists[u] : u \in DOMAIN Lists})}}
Addresses == ListedAddrs \cup {AddrOf(e) : e \in {c \in ClashEntries : Plain(c)}}
Entries == ClashEntries \cup {SpecFromAddr(a) : a \in {b \in Addresses : Splits(b)}}

\* No two IDs have one hash.
ASSUME EntriesAssumption ==
  /\ \A e, f \in Entries :
       /\ HashOrder(StableNodeID(e)) \in Int
       /\ HashOrder(StableNodeID(e)) = HashOrder(StableNodeID(f))
            => StableNodeID(e) = StableNodeID(f)
  /\ \A e \in ClashEntries : "headers" \in DOMAIN e.cfg => IsFiniteSet(DOMAIN e.cfg.headers)

\* IDs in the order of their hashes.
InOrder(ids) ==
  [n \in 1 .. Cardinality(ids) |->
     CHOOSE i \in ids : Cardinality({j \in ids : HashOrder(j) < HashOrder(i)}) = n - 1]

\* An update may deliver nodes in this order and addresses in any.
ASSUME MembersAssumption ==
  /\ \A ids \in SUBSET {StableNodeID(e) : e \in Entries} : InOrder(ids) \in MemberLists
  /\ \A as \in SUBSET Addresses : SetToSeqs(as) \subseteq MemberLists

UpstreamSpecs == Deduplicate(specs \o SpecsOfAddrs(addrs) \o SpecsOfAddrs(fetched))

SOCKS5Upstreams == Distinct(fetched \o addrs)

-----------------------------------------------------------------------------
(* Reading.  loadUpstreamSpecs reads the sources first, loadSOCKS5Upstreams  *)
(* the lists.                                                                *)

AllTyped == Len(typed) = Len(cfg.sources)
AllListed == Len(listed) = Len(cfg.lists)

NothingTyped == AllTyped /\ typed # <<>> /\ addrs = <<>> /\ specs = <<>>
NothingListed == AllListed /\ listed # <<>> /\ fetched = <<>>

\* The next read is that of a typed source, of a list.
AtTyped ==
  /\ path # "idle" /\ stage = "load" /\ ~ AllTyped
  /\ path = "legacy" => AllListed /\ ~ NothingListed
AtListed ==
  /\ path # "idle" /\ stage = "load" /\ ~ AllListed
  /\ path = "xray" => AllTyped /\ ~ NothingTyped

Init ==
  /\ cfg \in {ApplyDefaults(w) : w \in {v \in Written : Validates(v)}}
  /\ members = <<>>
  /\ path = "idle" /\ stage = "load"
  /\ typed = <<>> /\ addrs = <<>> /\ specs = <<>>
  /\ listed = <<>> /\ fetched = <<>>
  /\ config = <<>>
  /\ waiting = {} /\ running = {} /\ passed = <<>>

\* The locals of the run are gone; the next one begins anew.
Forget ==
  /\ stage' = "load"
  /\ typed' = <<>> /\ addrs' = <<>> /\ specs' = <<>>
  /\ listed' = <<>> /\ fetched' = <<>>
  /\ config' = <<>>
  /\ waiting' = {} /\ running' = {} /\ passed' = <<>>
  /\ UNCHANGED cfg

\* An error on the xray way leads to the legacy way or, as there, to the end.
Abort ==
  /\ Forget
  /\ path' = IF path = "xray" /\ cfg.fallback THEN "legacy" ELSE "idle"
  /\ UNCHANGED members

RunOnce ==
  /\ path = "idle"
  /\ path' = IF cfg.xray THEN "xray" ELSE "legacy"
  /\ UNCHANGED <<members, cfg, stage, typed, addrs, specs, listed, fetched, config, checkVars>>

\* Load takes a document of addresses, of Clash proxies.
TakeLines(doc) ==
  /\ addrs' = Distinct(addrs \o AddrsOfLines(doc))
  /\ UNCHANGED specs
TakeProxies(doc) ==
  \E found \in {ParseYAML(doc)} :
    /\ specs' = Deduplicate(specs \o found)
    /\ addrs' = Distinct(addrs \o AddrsOfSpecs(found))

Source == SourceOf[cfg.sources[Len(typed) + 1]]
Supported == Source.type \in {"raw_list", "clash_yaml"}

\* A list of addresses got by URL must not be empty: it comes from Fetch.
ReadSource ==
  /\ AtTyped /\ Supported /\ Source.from \in {"url", "path"}
  /\ \E doc \in Source.docs :
       /\ Source.type = "raw_list" /\ Source.from = "url" => doc # <<>>
       /\ typed' = Append(typed, doc)
       /\ IF Source.type = "raw_list" THEN TakeLines(doc) ELSE TakeProxies(doc)
  /\ UNCHANGED <<members, cfg, path, stage, listed, fetched, config, checkVars>>

\* "unsupported (use raw_list or clash_yaml)"
PassSource ==
  /\ AtTyped /\ ~ Supported
  /\ typed' = Append(typed, <<>>)
  /\ UNCHANGED <<members, cfg, path, stage, addrs, specs, listed, fetched, config, checkVars>>

\* It cannot be had, is no YAML, is an empty list, or is configured wrongly.
SourceFails ==
  /\ AtTyped /\ Supported
  /\ Abort

\* A list that cannot be had counts as empty.
ReadList ==
  /\ AtListed
  /\ \E doc \in Lists[cfg.lists[Len(listed) + 1]] \cup {<<>>} :
       /\ listed' = Append(listed, doc)
       /\ fetched' = Distinct(fetched \o AddrsOfLines(doc))
  /\ UNCHANGED <<members, cfg, path, stage, typed, addrs, specs, config, checkVars>>

\* "no usable entries from sources", "no proxies fetched from any source"
NothingThere ==
  /\ path # "idle" /\ stage = "load"
  /\ NothingTyped \/ NothingListed
  /\ Abort

Loaded ==
  /\ path # "idle" /\ stage = "load"
  /\ AllTyped /\ AllListed /\ ~ NothingTyped /\ ~ NothingListed

-----------------------------------------------------------------------------
(* The xray way from here.                                                   *)

Deliver(entries) ==
  /\ members' = IF entries # <<>> THEN entries ELSE members
  /\ path' = "idle"
  /\ Forget

GenerateConfig ==
  /\ path = "xray" /\ Loaded
  /\ \E all \in {UpstreamSpecs} : ~ TooMany(all) /\ config' = Generate(all)
  /\ stage' = "ensure"
  /\ UNCHANGED <<members, cfg, path, typed, addrs, specs, listed, fetched, checkVars>>

GenerateFails ==
  /\ path = "xray" /\ Loaded /\ TooMany(UpstreamSpecs)
  /\ Abort

\* Ensure or the metrics.
XrayFails ==
  /\ stage = "ensure"
  /\ Abort

DeliverAlive(alive) ==
  /\ stage = "ensure"
  /\ \E ids \in {Included(config)} :
       Deliver(At(ids, {i \in DOMAIN ids : ids[i] \in alive}))

-----------------------------------------------------------------------------
(* The legacy way from here: a goroutine for each address.                   *)

StartChecks ==
  /\ path = "legacy" /\ Loaded /\ SOCKS5Upstreams # <<>>
  /\ waiting' = ToSet(SOCKS5Upstreams)
  /\ stage' = "check"
  /\ typed' = <<>> /\ addrs' = <<>> /\ specs' = <<>>
  /\ listed' = <<>> /\ fetched' = <<>>
  /\ UNCHANGED <<members, cfg, path, config, running, passed>>

NoUpstreams ==
  /\ path = "legacy" /\ Loaded /\ SOCKS5Upstreams = <<>>
  /\ Abort

\* Mutant: an address that is checked is still waiting.
BeginCheck_Stays(a) ==
  /\ a \in waiting /\ Cardinality(running) < cfg.concurrency
  /\ running' = running \cup {a}
  /\ UNCHANGED <<members, cfg, loadVars, config, waiting, passed>>

BeginCheck(a) ==
  /\ a \in waiting /\ Cardinality(running) < cfg.concurrency
  /\ waiting' = waiting \ {a} /\ running' = running \cup {a}
  /\ UNCHANGED <<members, cfg, loadVars, config, passed>>

\* Mutant: an address that fails is checked again.
EndCheck_Again(a, ok) ==
  /\ a \in running
  /\ running' = running \ {a}
  /\ passed' = IF ok THEN Append(passed, a) ELSE passed
  /\ waiting' = IF ok THEN waiting ELSE waiting \cup {a}
  /\ UNCHANGED <<members, cfg, loadVars, config>>

\* Check: the handshake was fast enough, or was not, or the time was up.
EndCheck(a, ok) ==
  /\ a \in running
  /\ running' = running \ {a}
  /\ passed' = IF ok THEN Append(passed, a) ELSE passed
  /\ UNCHANGED <<members, cfg, loadVars, config, waiting>>

DeliverChecked ==
  /\ stage = "check" /\ waiting = {} /\ running = {}
  /\ Deliver(Distinct(passed))

Work ==
  \/ SourceFails \/ XrayFails \/ NothingThere
  \/ \E a \in running, ok \in BOOLEAN : EndCheck(a, ok)
  \/ \E a \in waiting : BeginCheck(a)
  \/ DeliverChecked
  \/ ReadSource \/ PassSource \/ ReadList
  \/ GenerateConfig \/ GenerateFails
  \/ \E alive \in SUBSET ToSet(Included(config)) : DeliverAlive(alive)
  \/ StartChecks \/ NoUpstreams

Next == RunOnce \/ Work

\* Every read and every check has a timeout: fetcher.go:24, health.go:31.
Spec == Init /\ [][Next]_vars /\ WF_vars(Work)

-----------------------------------------------------------------------------
(* Properties.                                                               *)

TypeOK ==
  /\ path \in {"idle", "xray", "legacy"} /\ stage \in {"load", "ensure", "check"}
  /\ cfg.concurrency \in Nat \ {0}
  /\ Len(typed) <= Len(cfg.sources) /\ Len(listed) <= Len(cfg.lists)
  /\ waiting \cap running = {} /\ ToSet(passed) \cap (waiting \cup running) = {}
  /\ path = "idle" => stage = "load" /\ typed = <<>> /\ listed = <<>> /\ config = <<>>

\* What the documents read so far hold, whoever read them in whatever order.
ClashRead ==
  {ParseProxy(r) : r \in UNION {{r \in ToSet(typed[i]) : Parses(r)} :
                                 i \in {j \in DOMAIN typed : SourceOf[cfg.sources[j]].type = "clash_yaml"}}}

AddrsRead ==
  {l.addr : l \in
     (UNION {ToSet(typed[i]) : i \in {j \in DOMAIN typed : SourceOf[cfg.sources[j]].type = "raw_list"}})
       \cup (UNION {ToSet(listed[i]) : i \in DOMAIN listed})}

EntriesRead == ClashRead \cup {SpecFromAddr(a) : a \in {b \in AddrsRead : Splits(b)}}

HeadersSeen(h) == {<<Lower(k), IF Lower(k) = k THEN h[k] ELSE "">> : k \in DOMAIN h}

\* An outbound up to the spelling of the server and of the method, and to the
\* values under header names with capitals.
Way(out) ==
  [protocol |-> out.protocol, server |-> Lower(out.address), port |-> out.port,
   user |-> [k \in DOMAIN out.user |->
               IF k = "method" THEN Lower(out.user[k]) ELSE out.user[k]],
   stream |-> IF out.protocol \notin StreamTypes THEN <<>>
              ELSE <<out.stream.network, out.stream.tls>>,
   ws |-> IF out.protocol \in StreamTypes /\ out.stream.network = "ws"
            THEN <<out.stream.ws[1], HeadersSeen(out.stream.ws[2])>>
            ELSE <<>>]

LowerAddrs(as) == {[a EXCEPT !.host = Lower(@)] : a \in as}

\* The addresses of the Clash nodes without credentials, as nodes.
Doubled ==
  {SpecFromAddr(a) : a \in {b \in {AddrOf(e) : e \in {c \in ClashRead : Plain(c)}} : Splits(b)}}

Generated == stage = "load" /\ stage' = "ensure"
Checked == stage = "load" /\ stage' = "check"

(* Every usable entry of every source is in the configuration of xray, or    *)
(* among the addresses to be checked, whichever source fails, repeats or     *)
(* changes, and nothing else is (loader.go:37-101, updater.go:310-403,       *)
(* spec.go:259-273): no two that xray would treat differently become one     *)
(* node, except for the spelling of the server (spec_test.go:5) and of a     *)
(* Shadowsocks method (spec.go:117), and for header names with capitals,     *)
(* whose values the ID does not see (spec.go:188-198).                       *)
CompleteLoad ==
  [][/\ Generated =>
          LET outs == {config'[i].out : i \in DOMAIN config'}
          IN /\ outs \subseteq {Outbound(e) : e \in EntriesRead}
             /\ {Way(o) : o \in outs} = {Way(Outbound(e)) : e \in EntriesRead}
             /\ AllTyped /\ AllListed
     /\ Checked =>
          LET all == AddrsRead \cup {AddrOf(e) : e \in {c \in ClashRead : Plain(c)}}
          IN /\ AddrsRead \subseteq waiting' /\ waiting' \subseteq all
             /\ LowerAddrs(waiting') = LowerAddrs(all)
             /\ AllTyped /\ AllListed
    ]_vars

\* Two entries become one node but lead out in two ways.
Conflict(entries) ==
  \E e, f \in entries : StableNodeID(e) = StableNodeID(f) /\ Outbound(e) # Outbound(f)

(* "Deterministic ordering for stable config hashes" (config.go:77): the     *)
(* configuration depends on what the sources hold, not on the order of its   *)
(* entries or on which source held them, so that xray is not restarted for   *)
(* nothing; except that of two entries in conflict the one read first wins.  *)
OrderIsImmaterial ==
  [][Generated =>
       /\ \A i, j \in DOMAIN config' :
            i < j => HashOrder(config'[i].tag) < HashOrder(config'[j].tag)
       /\ ~ Conflict(EntriesRead \cup Doubled) =>
            {config'[i] : i \in DOMAIN config'}
              = {[tag |-> StableNodeID(e), out |-> Outbound(e)] :
                 e \in EntriesRead \cup Doubled}
    ]_vars

(* Every load comes to an end, though sources fail and checks time out       *)
(* (updater.go:248-267): no check waits for a slot for ever.                 *)
LoadEnds == path # "idle" ~> path = "idle"

-----------------------------------------------------------------------------
(* What the documents say and the code does not do.                          *)

\* Two nodes that lead the same way through a SOCKS5 server.  (Of such a node
\* Way sees all there is.)
Twins(i, j) ==
  /\ i # j
  /\ config[i].out.protocol = "socks5"
  /\ Way(config[i].out) = Way(config[j].out)

(* "The same node (type+server+port+key parameters)" has one ID, "different  *)
(* sources are merged" and de-duplicated (issues/2025-12-23_22-22-56-clash-  *)
(* yaml-xray-observatory.csv:4, translated; README.md:11): no server is two  *)
(* nodes of xray.  But Load lists the address of a Clash node without        *)
(* credentials (loader.go:89), and loadUpstreamSpecs makes another node of   *)
(* it (updater.go:322-326), with an ID of its own (spec.go:110-113).         *)
OneNodeEach == \A i, j \in DOMAIN config : ~ Twins(i, j)

=============================================================================
