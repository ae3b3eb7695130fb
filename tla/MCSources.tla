-------------------------------- MODULE MCSources --------------------------------
(***************************************************************************)
(* Sources that overlap: a SOCKS5 node as a line and as a Clash proxy, in  *)
(* two spellings, with and without credentials; a node behind WebSocket    *)
(* with two paths and two Host headers; an IPv6 address; proxies that do   *)
(* not parse.                                                              *)
(***************************************************************************)
EXTENDS Sources

CONSTANTS s, t

MCLowerCase == ("A" :> "a") @@ ("Host" :> "host")

Addr(host) == [host |-> host, port |-> 1]

Bare(host) == [scheme |-> FALSE, addr |-> Addr(host)]
Schemed(host) == [scheme |-> TRUE, addr |-> Addr(host)]

Socks(server) == [type |-> "socks5", server |-> server, port |-> 1]
Private == Socks("a") @@ [username |-> "u"]
Ws(host, wsPath) ==
  [type |-> "vless", server |-> "b", port |-> 1, uuid |-> "id", network |-> "ws",
   path |-> wsPath, headers |-> "Host" :> host]
Broken == [type |-> "ss", server |-> "b", port |-> 1]
Unknown == [type |-> "hysteria2", server |-> "b", port |-> 1]

MCSourceOf ==
  [list |-> [type |-> "raw_list", from |-> "url",
             docs |-> {<<>>, <<Bare("a"), Schemed("a"), Bare("A")>>, <<Bare("v6")>>}],
   clash |-> [type |-> "clash_yaml", from |-> "path",
              docs |-> {<<Socks("a"), Private, Socks("A")>>, <<Broken, Socks("v6")>>,
                        <<Ws("h1", "/"), Unknown, Ws("h2", "/"), Ws("h1", "/p")>>}],
   clash2 |-> [type |-> "clash_yaml", from |-> "url",
               docs |-> {<<Socks("A")>>, <<Ws("h1", "/p"), Ws("h2", "/")>>}],
   old |-> [type |-> "txt", from |-> "url", docs |-> {}]]

MCLists == [u1 |-> {<<Bare("a"), Bare("b")>>}, u2 |-> {<<Schemed("b")>>}]

\* The last is no configuration: it names no source.
MCWritten ==
  LET file(xray, fallback, concurrency, sources, lists) ==
        [xray |-> xray, fallback |-> fallback, concurrency |-> concurrency,
         sources |-> sources, lists |-> lists]
  IN {file(TRUE, "false", 0, <<"list", "old", "clash", "clash2">>, <<"u1">>),
      file(TRUE, "unset", 0, <<"clash">>, <<"u1", "u2">>),
      file(FALSE, "unset", 1, <<"list">>, <<"u1", "u2">>),
      file(FALSE, "unset", 2, <<"clash">>, <<>>),
      file(TRUE, "unset", 0, <<>>, <<>>)}

OneClash ==
  {[xray |-> TRUE, fallback |-> "false", concurrency |-> 0,
    sources |-> <<"clash2">>, lists |-> <<>>]}

\* The IDs that occur, in the order their hashes have here.
MCSpecs ==
  {ParseProxy(r) : r \in {p \in UNION {ToSet(d) : d \in MCSourceOf.clash.docs \cup MCSourceOf.clash2.docs} : Parses(p)}}
  \cup {SpecFromAddr(Addr(h)) : h \in {"a", "A", "b"}}
InSomeOrder(set) == FoldSet(LAMBDA x, seq : <<x>> \o seq, <<>>, set)
MCOrder == InSomeOrder({StableNodeID(x) : x \in MCSpecs})
MCHashOrder(id) == CHOOSE i \in DOMAIN MCOrder : MCOrder[i] = id

MCAddrs == {Addr(h) : h \in {"a", "A", "b", "v6"}}

MCNodes == ToSet(MCOrder) \cup MCAddrs
MCSessions == {s, t}

MCRank == LET all == InSomeOrder(MCNodes)
          IN [n \in MCNodes |-> CHOOSE i \in DOMAIN all : all[i] = n]
MCScore ==
  [x \in MCSessions |-> [n \in MCNodes |-> IF x = s THEN MCRank[n] ELSE (5 * MCRank[n]) % 23]]

\* Node IDs by their hashes, or addresses in any order.
MCMemberLists ==
  {SelectSeq(MCOrder, LAMBDA id : id \in ids) : ids \in SUBSET ToSet(MCOrder)}
  \cup UNION {SetToSeqs(as) : as \in SUBSET MCAddrs}

=============================================================================
