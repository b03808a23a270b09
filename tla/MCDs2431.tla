------------------------------ MODULE MCDs2431 ------------------------------
(***************************************************************************)
(* Small instances of the DS2431 driver for TLC.                           *)
(***************************************************************************)
EXTENDS Ds2431Props, Demo2431

CONSTANTS e1, e2, b1, b2

\* A careful application on a bus at its worst, with whole and partial blocks,
\* with two devices for one block, and with clean lines; and one that calls
\* anything at any time on a quiet bus.
Hostile   == [careful |-> TRUE, devices |-> {e1}, hotplug |-> TRUE, noise |-> TRUE,
              writes |-> {<<b1, 4>>, <<b2, 8>>}]
Clean     == [Hostile EXCEPT !.noise = FALSE]
Crowded   == [Hostile EXCEPT !.devices = {e1, e2}, !.noise = FALSE, !.writes = {<<b1, 8>>}]
Careless  == [careful |-> FALSE, devices |-> {e1}, hotplug |-> FALSE, noise |-> FALSE,
              writes |-> {<<b1, 8>>}]
TwoBlocks == [Careless EXCEPT !.writes = {b1, b2} \X {8}]

\* The 8_ds2431 example with one device on a bus at its worst, and with two
\* that only come and go.
OneDevice  == [careful |-> FALSE, devices |-> {e1}, hotplug |-> TRUE, noise |-> TRUE,
               writes |-> {<<b1, 8>>}]
TwoDevices == [OneDevice EXCEPT !.devices = {e1, e2}, !.noise = FALSE]

DemoBuses      == {OneDevice, TwoDevices}
CycleScenarios == {Hostile, Clean, Crowded, Careless} \cup DemoBuses
StrayScenarios == {TwoBlocks}
=============================================================================
