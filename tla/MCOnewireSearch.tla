--------------------------- MODULE MCOnewireSearch --------------------------
(***************************************************************************)
(* Small instances of the search engine for TLC: four-bit addresses, those *)
(* of even parity legal.                                                   *)
(***************************************************************************)
EXTENDS OnewireSearchProps

Sum4(r) == r[1] + r[2] + r[3] + r[4]
MCLegal == {r \in [1..4 -> {0, 1}] : Sum4(r) % 2 = 0}

\* Five devices that part at the first, a middle and the last possible bit.
MCDevices == {<<0, 0, 0, 0>>, <<0, 0, 1, 1>>, <<1, 0, 0, 1>>, <<1, 0, 1, 0>>, <<0, 1, 0, 1>>}

Quiet   == [still |-> TRUE, devices |-> MCDevices, families |-> {0, 1, AnyFamily},
            limits |-> {0, 1, 2, 5}]
Hostile == [still |-> FALSE, devices |-> {<<0, 0, 0, 0>>, <<0, 0, 1, 1>>},
            families |-> {1, AnyFamily}, limits |-> {2}]
MCScenarios == {Quiet, Hostile}
=============================================================================
