--------------------------------- MODULE MCTunnel --------------------------------
(***************************************************************************)
(* An instance of Tunnel: one retry, two bytes each way, room for one.     *)
(***************************************************************************)
EXTENDS Tunnel
=============================================================================
