---------------------------- MODULE MCRoundRobin ----------------------------
(***************************************************************************)
(* Small instances of the 3_round_robin example for TLC.                   *)
(***************************************************************************)
EXTENDS RoundRobin

LoopCalls == {"set_parasite", "search_start", "select", "start_measure", "set_resolution"}
Rising    == <<9, 10, 11, 12>>
=============================================================================
