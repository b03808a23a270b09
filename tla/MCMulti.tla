------------------------------- MODULE MCMulti ------------------------------
(***************************************************************************)
(* A small instance of the temperature recorder for TLC.                   *)
(***************************************************************************)
EXTENDS MultiProps

\* What one sensor measures the other never does.  Either may hold either
\* record: the other one failed, or was missing from an earlier table.
MCTemps == <<{1}, {2}>>

\* No sensor, one, both in the other order, and one of them twice.
MCTables == {<<>>, <<2>>, <<2, 1>>, <<1, 1>>}
=============================================================================
