------------------------------ MODULE MCLogStream -------------------------------
(***************************************************************************)
(* An instance of LogStream: a ring whose start comes round, a channel     *)
(* that overflows, one connection more than there are slots; queries for   *)
(* one level, and for IDs that are still to come.                          *)
(***************************************************************************)
EXTENDS LogStream

MCLevels == {0, 1}

MCQueries == {[since |-> 0, min |-> 1], [since |-> 3, min |-> 0]}

=============================================================================
