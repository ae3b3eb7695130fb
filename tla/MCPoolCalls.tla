------------------------------ MODULE MCPoolCalls -------------------------------
(***************************************************************************)
(* Three upstreams and the lists an update may deliver: one upstream, all  *)
(* of them, and two in another order, so that an update can shrink, grow   *)
(* and reorder the pool.                                                   *)
(***************************************************************************)
EXTENDS PoolCalls

CONSTANTS a, b, c

MCKeys == {a, b, c}
MCEntryLists == {<<b>>, <<a, b, c>>, <<c, a>>}

=============================================================================
