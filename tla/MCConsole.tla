------------------------------ MODULE MCConsole ------------------------------
(***************************************************************************)
(* The console on small instances.                                         *)
(***************************************************************************)
EXTENDS Console, TLC

CONSTANTS r1, r2

SomePaths == {<<>>, <<"storage">>}
SomeMethods == [f |-> <<"GET">>, g |-> <<"PUT", "POST">>]

\* the requests of a session, and the rows of a table, are interchangeable
Symmetry == Permutations({r1, r2})
=============================================================================
