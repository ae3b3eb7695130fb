------------------------------ MODULE MCTransport -------------------------------
(***************************************************************************)
(* Two requests for one target, two sessions that map to two upstreams.    *)
(***************************************************************************)
EXTENDS Transport

CONSTANTS a, b, s, t

MCScore ==
  [x \in {s, t} |-> [k \in {a, b} |-> IF (x = s) = (k = a) THEN 2 ELSE 1]]

MCMembers == <<a, b>>

=============================================================================
