----------------------------- MODULE MCDs18b20 ------------------------------
(***************************************************************************)
(* Small instances of the DS18B20 driver for TLC.                          *)
(***************************************************************************)
EXTENDS Ds18b20Props

\* The application interfaces of the runs.  In the owner run "select" comes from
\* the callback.
ScanCalls    == {"start_measure", "scan_start", "search_start"}
OwnerCalls   == {"start_measure", "scan_start", "set_parasite", "search_start",
                 "set_resolution", "read_scratchpad"}
CommandCalls == {"start_measure", "set_resolution", "set_alarm_thresholds",
                 "copy_scratchpad", "detect_parasite", "alarm_search_start"}
=============================================================================
