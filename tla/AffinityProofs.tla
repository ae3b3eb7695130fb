----------------------------- MODULE AffinityProofs ------------------------------
(***************************************************************************)
(* Rendezvous selection on a changing set of upstreams, for any sessions,  *)
(* any nodes and any scores without collisions.                            *)
(***************************************************************************)
EXTENDS Affinity, TLAPS

(* A node is chosen exactly if it is listed and no listed node scores        *)
(* higher: where it stands in the list plays no part.                        *)
LEMMA ChosenByScore ==
  ASSUME NEW list \in MemberLists, NEW s \in Sessions, NEW m
  PROVE  m \in SentTo(s, list) <=>
           m \in Listed(list) /\ \A n \in Listed(list) : Score[s][n] <= Score[s][m]
<1> /\ DOMAIN list = 1 .. Len(list) /\ Len(list) \in Nat
    /\ \A i \in DOMAIN list : list[i] \in Nodes /\ Score[s][list[i]] \in Nat
  BY AffinityAssumption, ScoreAssumption
<1>1. ASSUME m \in SentTo(s, list)
      PROVE  m \in Listed(list) /\ \A n \in Listed(list) : Score[s][n] <= Score[s][m]
  <2>1. PICK i \in DOMAIN list : IsBest(s, DOMAIN list, list, {}, i) /\ m = list[i]
    BY <1>1 DEF SentTo
  <2>2. \A j \in DOMAIN list : Beats(s, list, i, j)
    BY <2>1 DEF IsBest, Remaining
  <2>3. \A j \in DOMAIN list : Score[s][list[j]] <= Score[s][m]
    BY <2>1, <2>2 DEF Beats
  <2>4. QED
    BY <2>1, <2>3 DEF Listed
<1>2. ASSUME m \in Listed(list), \A n \in Listed(list) : Score[s][n] <= Score[s][m]
      PROVE  m \in SentTo(s, list)
  <2>1. PICK i \in DOMAIN list : m = list[i]
    BY <1>2 DEF Listed
  <2>2. ASSUME NEW j \in DOMAIN list PROVE Beats(s, list, i, j)
    <3>1. Score[s][list[j]] <= Score[s][list[i]]
      BY <1>2, <2>1 DEF Listed
    <3>2. Score[s][list[j]] = Score[s][list[i]] => i = j
      BY AffinityAssumption
    <3>3. QED
      BY <3>1, <3>2 DEF Beats
  <2>3. IsBest(s, DOMAIN list, list, {}, i)
    BY <2>2 DEF IsBest, Remaining
  <2>4. QED
    BY <2>1, <2>3 DEF SentTo
<1>3. QED
  BY <1>1, <1>2

(* A session that is moved between two lists lost its node, or is moved to   *)
(* a node the first list did not have.                                       *)
LEMMA MovedForAReason ==
  ASSUME NEW old \in MemberLists, NEW new \in MemberLists, NEW s \in Sessions,
         NEW m \in SentTo(s, old), NEW n \in SentTo(s, new), m # n
  PROVE  m \notin Listed(new) \/ n \notin Listed(old)
<1> SUFFICES ASSUME m \in Listed(new), n \in Listed(old) PROVE FALSE
  OBVIOUS
<1>1. m \in Nodes /\ n \in Nodes
  BY AffinityAssumption DEF Listed
<1>2. Score[s][m] \in Nat /\ Score[s][n] \in Nat
  BY <1>1, ScoreAssumption
<1>3. Score[s][n] <= Score[s][m] /\ Score[s][m] <= Score[s][n]
  BY ChosenByScore
<1>4. QED
  BY <1>1, <1>2, <1>3, AffinityAssumption

Delivered == members \in MemberLists

(* Sessions keep their upstream when others appear, disappear or change      *)
(* order (README.md:117, sticky.go:125-165).                                 *)
THEOREM DisruptionIsMinimal ==
  AffinitySpec => MinimalDisruption
<1>1. AffinityInit => Delivered
  BY DEF AffinityInit, Delivered
<1>2. Delivered /\ [AffinityNext]_members => Delivered'
  BY DEF AffinityNext, Delivered
<1>3. Delivered /\ [AffinityNext]_members => [MovesForAReason]_members
  BY <1>2, MovedForAReason DEF MovesForAReason, Delivered
<1>4. QED
  BY <1>1, <1>2, <1>3, PTL DEF AffinitySpec, MinimalDisruption

=============================================================================
