------------------------------ MODULE NodeIdentity ------------------------------
(***************************************************************************)
(* What a proxy node is: how entries of the sources become upstream.Spec   *)
(* (internal/clash/parser.go, updater.go:346), which of them are the same  *)
(* node (internal/upstream/spec.go), and the configuration of xray that    *)
(* routes to them (internal/xray/config.go).                               *)
(*                                                                         *)
(* A Clash proxy is the map of the keys it sets; "path" and "headers" are  *)
(* those of its ws-opts.  A specification is [type, server, port, cfg],    *)
(* the types named as in Clash; cfg is empty where the pointer is nil.     *)
(* The hash of an ID is taken to be injective, and so is the joining of    *)
(* the parts: an ID is the record of what canonicalString writes.          *)
(***************************************************************************)
EXTENDS Integers, Sequences, SequencesExt

CONSTANTS
  LowerCase,     \* spelling with capitals -> the same in lower case
  NoPort,        \* hosts that "host:port" cannot be split for: IPv6 addresses
  HashOrder(_),  \* ID -> its place in the order of the hashes
  Mode,          \* GenerateOptions.Mode
  MaxNodes       \* adapters.xray.max_nodes

\* What is an IPv6 address in capitals is one in lower case.
ASSUME NodeAssumption ==
  /\ \A x \in DOMAIN LowerCase :
       /\ LowerCase[x] \notin DOMAIN LowerCase
       /\ x \in NoPort <=> LowerCase[x] \in NoPort
  /\ Mode \in {"relaxed", "strict"}
  /\ MaxNodes \in Nat \ {0}

Lower(x) == IF x \in DOMAIN LowerCase THEN LowerCase[x] ELSE x

-----------------------------------------------------------------------------
(* internal/clash/parser.go.                                                 *)

Types == {"socks5", "http", "ss", "vmess", "vless", "trojan"}
StreamTypes == {"vmess", "vless", "trojan"}

\* The value under the first of the keys that is set.
FirstOf(raw, keys, default) ==
  LET set == SelectSeq(keys, LAMBDA k : k \in DOMAIN raw)
  IN IF set = <<>> THEN default ELSE raw[Head(set)]

Required(typ) ==
  CASE typ = "ss" -> {"server", "port", "cipher", "password"}
    [] typ \in {"vmess", "vless"} -> {"server", "port", "uuid"}
    [] typ = "trojan" -> {"server", "port", "password"}
    [] OTHER -> {"server", "port"}

StreamKeys == {"tls", "skip", "sni", "network", "path", "headers"}

OwnKeys(typ) ==
  CASE typ \in {"socks5", "http"} -> {"username", "password"}
    [] typ = "ss" -> {"method", "password"}
    [] typ = "vmess" -> {"uuid", "alterId", "security"}
    [] typ = "vless" -> {"uuid", "flow"}
    [] typ = "trojan" -> {"password"}

\* "cipher" is the method of ss and the security of vmess; trojan implies TLS.
Setting(raw, typ, k) ==
  CASE k = "method" -> FirstOf(raw, <<"cipher">>, "")
    [] k = "security" -> FirstOf(raw, <<"cipher", "security">>, "auto")
    [] k = "alterId" -> FirstOf(raw, <<"alterId", "alter_id", "aid">>, 0)
    [] k = "tls" -> typ = "trojan" \/ FirstOf(raw, <<"tls">>, FALSE)
    [] k = "skip" -> FirstOf(raw, <<"skip-cert-verify", "skip_cert_verify">>, FALSE)
    [] k = "sni" ->
         FirstOf(raw, IF typ = "trojan" THEN <<"sni", "servername">>
                                        ELSE <<"servername", "sni">>, "")
    [] k = "headers" -> FirstOf(raw, <<"headers">>, <<>>)
    [] OTHER -> FirstOf(raw, <<k>>, "")

\* parseProxy finds the type supported and the keys set that it needs.
Parses(raw) ==
  /\ "type" \in DOMAIN raw /\ Lower(raw.type) \in Types
  /\ Required(Lower(raw.type)) \subseteq DOMAIN raw /\ raw.port > 0

ParseProxy(raw) ==
  LET typ == Lower(raw.type)
      keys == OwnKeys(typ) \cup IF typ \in StreamTypes THEN StreamKeys ELSE {}
  IN [type |-> typ, server |-> raw.server, port |-> raw.port,
      cfg |-> [k \in keys |-> Setting(raw, typ, k)]]

-----------------------------------------------------------------------------
(* socks5SpecFromAddr: addresses that do not split are dropped.              *)

Splits(addr) == addr.host \notin NoPort /\ addr.port > 0

SpecFromAddr(addr) ==
  [type |-> "socks5", server |-> addr.host, port |-> addr.port, cfg |-> <<>>]

-----------------------------------------------------------------------------
(* internal/upstream/spec.go.                                                *)

\* Keys are written in lower case, the values looked up under what is written:
\* a value under a key with capitals is not found.
CanonicalHeaders(h) ==
  [l \in {Lower(k) : k \in DOMAIN h} |->
     [times |-> Cardinality({k \in DOMAIN h : Lower(k) = l}),
      value |-> IF l \in DOMAIN h THEN h[l] ELSE ""]]

\* Mutant: the settings of the stream are left out.
StableNodeID_NoStream(s) ==
  [type |-> s.type, server |-> Lower(s.server), port |-> s.port,
   cfg |-> [k \in DOMAIN s.cfg \ StreamKeys |-> s.cfg[k]]]

StableNodeID(s) ==
  [type |-> s.type, server |-> Lower(s.server), port |-> s.port,
   cfg |-> [k \in DOMAIN s.cfg |->
              CASE k = "headers" -> CanonicalHeaders(s.cfg[k])
                [] k = "method" -> Lower(s.cfg[k])
                [] OTHER -> s.cfg[k]]]

\* The elements of a sequence at some of its places, in their order.  (The
\* arguments are bound, so that TLC evaluates them once.)
At(seq, places) ==
  LET inOrder(q, set) ==
        [n \in 1 .. Cardinality(set) |->
           q[CHOOSE i \in set : Cardinality({j \in set : j < i}) = n - 1]]
  IN CHOOSE t \in {inOrder(q, set) : q \in {seq}, set \in {places}} : TRUE

\* The elements of a sequence whose key no earlier element has.
Firsts(seq, keys) ==
  At(seq, {i \in DOMAIN seq : \A j \in 1 .. i - 1 : keys[j] # keys[i]})

\* Mutant: everything is kept.
Deduplicate_Keeps(specs) == specs

Deduplicate(specs) == Firsts(specs, [i \in DOMAIN specs |-> StableNodeID(specs[i])])

\* ParseYAML, of a document that is YAML: the proxies in their order.
ParseYAML(doc) ==
  LET usable == At(doc, {i \in DOMAIN doc : Parses(doc[i])})
  IN Deduplicate([i \in DOMAIN usable |-> ParseProxy(usable[i])])

-----------------------------------------------------------------------------
(* internal/xray/config.go.                                                  *)

HasCredentials(cfg) ==
  \E k \in {"username", "password"} \cap DOMAIN cfg : cfg[k] # ""

StreamSettings(cfg) ==
  LET network == IF cfg.network = "" THEN "tcp" ELSE Lower(cfg.network)
  IN [network |-> network,
      ws |-> IF network = "ws" THEN <<cfg.path, cfg.headers>> ELSE <<>>,
      tls |-> IF cfg.tls THEN <<cfg.skip \/ Mode = "relaxed", cfg.sni>> ELSE <<>>]

\* buildOutbound knows every type that the parsers return.  An empty flow or
\* server name is left out there and empty here.
Outbound(s) ==
  [protocol |-> s.type, address |-> s.server, port |-> s.port,
   user |-> IF s.type \in {"socks5", "http"} /\ ~ HasCredentials(s.cfg) THEN <<>>
            ELSE [k \in DOMAIN s.cfg \ StreamKeys |-> s.cfg[k]],
   stream |-> IF s.type \in StreamTypes THEN StreamSettings(s.cfg) ELSE <<>>]

TooMany(specs) == Len(specs) > MaxNodes

Node(s) == [tag |-> StableNodeID(s), out |-> Outbound(s)]

\* Mutant: the nodes stay in the order of the sources.
Generate_Unsorted(specs) == [i \in DOMAIN specs |-> Node(specs[i])]

\* The elements of a sequence by ascending order, equal ones as they come.
Ordered(seq, order) ==
  LET before(i) == {j \in DOMAIN seq :
                      order[j] < order[i] \/ (order[j] = order[i] /\ j < i)}
  IN [n \in DOMAIN seq |->
        seq[CHOOSE i \in DOMAIN seq : Cardinality(before(i)) = n - 1]]

\* The outbounds in the order of their IDs; accounts and rules say of each ID
\* that it leads to the outbound with its tag.  The rest is the same in every
\* configuration of one process.  Two configurations have one hash exactly if
\* they are the same.
Generate(specs) ==
  LET hashes == [i \in DOMAIN specs |-> HashOrder(StableNodeID(specs[i]))]
      nodes == [i \in DOMAIN specs |-> Node(specs[i])]
  IN CHOOSE config \in {Ordered(nodes, order) : order \in {hashes}} : TRUE

Included(config) == [i \in DOMAIN config |-> config[i].tag]

=============================================================================
