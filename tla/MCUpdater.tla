------------------------------- MODULE MCUpdater --------------------------------
(***************************************************************************)
(* Instances of Updater: two configurations that share a node, one plain   *)
(* address.  Two pids are all the system ever needs: a killed process that *)
(* holds the ports, and the one the instance holds.                        *)
(***************************************************************************)
EXTENDS Updater

CONSTANTS c1, c2, m, n, addr

MCNodesOf == [c \in {c1, c2} |-> IF c = c1 THEN {m, n} ELSE {n}]
OneNode == [c \in {c1} |-> {n}]
OnlyDeath == {"die"}
NoFaults == {}

=============================================================================
