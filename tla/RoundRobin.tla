----------------------------- MODULE RoundRobin -----------------------------
(***************************************************************************)
(* The 3_round_robin example on top of the driver: the devices a search    *)
(* finds are measured in turn, and before each measurement the next        *)
(* resolution of a cycle is written to the device that is about to be      *)
(* measured.  ds18b20_complete() selects the next device and queues the    *)
(* change; the main loop applies it between the measurements.              *)
(***************************************************************************)
EXTENDS Ds18b20, SequencesExt

CONSTANT ResCycle    \* res_cycle[], the resolutions in turn

ASSUME ResCycleAssumption == ResCycle \in Seq(Resolutions) /\ ResCycle # <<>>
ASSUME InterfaceAssumption ==
    /\ Calls = {"set_parasite", "search_start", "select", "start_measure", "set_resolution"}
    /\ CallbackCalls = {"select"}

VARIABLE rr    \* the statics of main.c

rrVars == <<vars, rr>>

\* next = 0: no resolution change is queued; told: the callback has run.
RRInit ==
    /\ Init
    /\ rr = [stage |-> "power", found |-> <<>>, sel |-> 1, idx |-> 1, next |-> 0,
             busy |-> FALSE, told |-> FALSE]

\* found_roms[select_index]: zero bytes if nothing was found.
Current == IF rr.found = <<>> THEN NoRom ELSE rr.found[rr.sel]

\* Mutant: the turns end with the last one.
InTurnOnce(i, n) == IF i < n THEN i + 1 ELSE n

\* The index after i in a cycle of n.
InTurn(i, n) == (i % n) + 1

-----------------------------------------------------------------------------
\* OW_PARASITE_POWER decides once; then the search is started.
PowerMode ==
    /\ rr.stage = "power"
    /\ SetParasite(Parasitic # {})
    /\ rr' = [rr EXCEPT !.stage = "scan"]

ScanBegin ==
    /\ rr.stage = "scan" /\ search.finished
    /\ SearchBegin(FALSE, MaxDevices)
    /\ UNCHANGED rr

\* device_found_sink() keeps every ROM and never stops the search.
ScanPoll ==
    /\ rr.stage = "scan"
    /\ \/ SearchReset \/ SearchCommand \/ SearchPair \/ SearchRomBad
       \/ \E d \in Devices, more \in BOOLEAN : SearchRom(d, FALSE, more)
    /\ rr' = [rr EXCEPT !.found =
                 IF search'.found > search.found THEN Append(@, table'.roms[table.count]) ELSE @]

\* report_search_result(): the first device is selected and measured.  If there
\* is none the loop measures all the same, with Skip ROM.
ScanEnd ==
    /\ rr.stage = "scan"
    /\ SearchFinish
    /\ rr' = [rr EXCEPT !.stage = IF rr.found = <<>> THEN "loop" ELSE "select"]

SelectFirst ==
    /\ rr.stage = "select"
    /\ Select(Current)
    /\ rr' = [rr EXCEPT !.stage = "first"]

MeasureFirst ==
    /\ rr.stage = "first"
    /\ StartMeasure
    /\ rr' = [rr EXCEPT !.stage = "loop"]

(***************************************************************************)
(* ds18b20_complete(): the reading is printed under the ROM of the current *)
(* device; then the next device is selected and a change is queued for it. *)
(***************************************************************************)
Reported ==
    /\ cb # "none" /\ ~rr.told
    /\ LET turn == IF Len(rr.found) > 1 THEN InTurn(rr.sel, Len(rr.found)) ELSE rr.sel
           idx  == InTurn(rr.idx, Len(ResCycle))
       IN /\ \/ Len(rr.found) > 1 /\ Select(rr.found[turn])
             \/ Len(rr.found) <= 1 /\ UNCHANGED vars
          /\ rr' = [rr EXCEPT !.sel = turn, !.idx = idx, !.next = ResCycle[idx], !.told = TRUE]

Returned ==
    /\ rr.told
    /\ CallbackReturn
    /\ rr' = [rr EXCEPT !.told = FALSE]

-----------------------------------------------------------------------------
(***************************************************************************)
(* The main loop, by the first branch that applies: a running change, a    *)
(* queued one, the next measurement once the pause is over, the driver.    *)
(***************************************************************************)
InLoop == rr.stage = "loop" /\ cb = "none"

ChangePoll ==
    /\ InLoop /\ rr.busy
    /\ ResPoll
    /\ rr' = [rr EXCEPT !.busy = ~res'.finished]

ChangeStart ==
    /\ InLoop /\ ~rr.busy /\ rr.next # 0
    /\ SetResolution(rr.next)
    /\ rr' = [rr EXCEPT !.next = 0, !.busy = TRUE]

\* Mutant: the pause is looked at before the queue.
NothingQueuedPauseFirst == ~rr.busy

NothingQueued == ~rr.busy /\ rr.next = 0

\* The period is far longer than a cycle, so the pause ends in between.
PauseOver ==
    /\ InLoop /\ NothingQueued
    /\ StartMeasure
    /\ UNCHANGED rr

DriverPoll ==
    /\ InLoop /\ NothingQueued
    /\ MeasurePoll
    /\ UNCHANGED rr

\* The devices stay: one that powers up after its change has its EEPROM's
\* resolution again, and the wait may be too short for it.
RRHardware == Hardware /\ UNCHANGED rr

RRLoop ==
    \/ PowerMode \/ ScanBegin \/ ScanPoll \/ ScanEnd \/ SelectFirst \/ MeasureFirst
    \/ ChangePoll \/ ChangeStart \/ DriverPoll \/ Reported \/ Returned

RRNext == RRLoop \/ PauseOver \/ RRHardware

RRSpec == RRInit /\ [][RRNext]_rrVars

\* The loop never stops, the timer reaches its end, and pauses end.
RRFairSpec ==
    RRSpec /\ WF_rrVars(RRLoop) /\ WF_rrVars(PauseOver) /\ WF_rrVars(RRHardware)

-----------------------------------------------------------------------------
(***************************************************************************)
(* What is printed is right: when the callback prints a temperature under  *)
(* the ROM of a device, that one answered, and it was converted in this    *)
(* cycle - although the tracked resolution the wait follows is the one of  *)
(* the device before it, until the change before the measurement.          *)
(***************************************************************************)
PrintedIsOwnAndFresh ==
    cb # "none" /\ ~rr.told =>
        LET r == round[Len(round)]
        IN r.kind = "temp" => r.temp = "new" /\ Current \in {NoRom, r.rom}

\* Every device the search found is reported again and again: no rejected call,
\* failed reading or queued change stops the turns.
TurnsGoOn ==
    \A d \in Devices :
        [](rr.stage = "loop" /\ d \in ToSet(rr.found) =>
              <>(cb # "none" /\ ~rr.told /\ Current = d))
=============================================================================
