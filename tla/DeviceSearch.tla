---------------------------- MODULE DeviceSearch ---------------------------
(***************************************************************************)
(* What a search promises its caller on a bus that keeps still: every      *)
(* device asked for is reported to the sink, each once and in no promised  *)
(* order, until there are none left, the limit is reached, or the sink has *)
(* had enough.                                                             *)
(***************************************************************************)
EXTENDS Naturals, FiniteSets

CONSTANTS
    Devices,     \* the devices there may be
    MaxDevices   \* the largest limit a caller passes

VARIABLES
    running,     \* a search is under way
    wanted,      \* the devices it has to report
    limit,       \* how many of them at most
    reported,    \* those the sink has been given
    enough       \* the sink has stopped the search

vars == <<running, wanted, limit, reported, enough>>

Init ==
    /\ running = FALSE /\ wanted = {} /\ limit = 0 /\ reported = {} /\ enough = FALSE

Start ==
    /\ ~running
    /\ running' = TRUE
    /\ wanted' \in SUBSET Devices
    /\ limit' \in 0..MaxDevices
    /\ reported' = {}
    /\ enough' = FALSE

Report ==
    /\ running /\ ~enough
    /\ Cardinality(reported) < limit
    /\ \E d \in wanted \ reported : reported' = reported \cup {d}
    /\ enough' \in BOOLEAN
    /\ UNCHANGED <<running, wanted, limit>>

Finish ==
    /\ running
    /\ enough \/ Cardinality(reported) = limit \/ reported = wanted
    /\ running' = FALSE
    /\ UNCHANGED <<wanted, limit, reported, enough>>

Next == Start \/ Report \/ Finish

Spec == Init /\ [][Next]_vars /\ WF_vars(Report \/ Finish)

=============================================================================
