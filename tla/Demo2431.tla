------------------------------ MODULE Demo2431 ------------------------------
(***************************************************************************)
(* The 8_ds2431 example on top of the driver: after each boot one EEPROM   *)
(* cycle (baseline, write, echo, copy, read-back) on every device found,   *)
(* then a device search every second.  The example goes on to the next     *)
(* step whether the last one succeeded or not.                             *)
(*                                                                         *)
(* A scenario of DemoScenes is a bus on which the example runs; in any     *)
(* other the application is the free one of Ds2431.                        *)
(***************************************************************************)
EXTENDS Ds2431, FiniteSets, Sequences, SequencesExt

CONSTANTS
    DemoScenes,    \* the scenarios in which the application is the example
    Boots          \* bound: how often the board is reset

ASSUME DemoAssumption ==
    Boots \in Nat /\ DemoScenes \subseteq Scenarios /\ "zeros" \in Values /\ IsFiniteSet(Devices)

VARIABLE demo     \* the statics of main.c and, as history, what a match proves

demoVars == <<vars, demo>>

\* The row the demo rewrites, and the order of the steps of a cycle.
Row   == AnyBlock
Steps == <<"READ_BASELINE", "WRITE_SCRATCHPAD", "READ_SCRATCHPAD", "COPY_SCRATCHPAD",
           "READ_BACK">>
Following(step) ==
    IF step = Last(Steps) THEN "SELECT"
    ELSE Steps[1 + CHOOSE i \in 1..Len(Steps) : Steps[i] = step]

\* Mutant: the fixed pattern the comment warns of.
RowFixed(v) == "zeros"

\* Every byte plus one; the values of a byte are kept as two that alternate.
RowNext(v) == IF v = "zeros" THEN "ones" ELSE "zeros"

\* written is write_data, zero bytes after a reset.
DemoBoot(step, boots) ==
    [step |-> step, running |-> FALSE, done |-> FALSE, found |-> <<>>, next |-> 1,
     written |-> "zeros", verdict |-> "none", truthful |-> FALSE, copied |-> FALSE,
     boots |-> boots]

DemoInit ==
    /\ Init
    /\ demo = DemoBoot(IF app.scene \in DemoScenes THEN "BOOT" ELSE "FREE", 0)

Current == demo.found[demo.next]

-----------------------------------------------------------------------------
PowerMode ==
    /\ demo.step = "BOOT"
    /\ SetParasite(Parasitic # {})
    /\ demo' = [demo EXCEPT !.step = "SEARCH"]

\* start_search(), at boot and once the interval has passed.
DemoSearch ==
    /\ demo.step \in {"SEARCH", "DONE"}
    /\ ~search
    /\ SearchStart
    /\ demo' = [demo EXCEPT !.step = "SEARCH", !.found = <<>>, !.next = 1,
                            !.done = @ \/ demo.step = "DONE"]

\* What device_found_sink() may collect: any of the devices there, in any order.
Collected == UNION {SetToSeqs(there) : there \in SUBSET {d \in Devices : dev[d].present}}

\* The one-shot cycle follows only the first search.
DemoFound ==
    /\ demo.step = "SEARCH"
    /\ SearchPoll
    /\ \E found \in Collected :
          demo' = [demo EXCEPT !.found = found,
                               !.step = IF ~demo.done /\ found # <<>> THEN "SELECT" ELSE "DONE"]

\* select() of the next device served; after the last one the cycle is over.
DemoSelect ==
    /\ demo.step = "SELECT"
    /\ \/ /\ demo.next <= Len(demo.found)
          /\ Select(Current)
          /\ demo' = [demo EXCEPT !.step = Head(Steps), !.verdict = "none",
                                  !.truthful = FALSE, !.copied = FALSE]
       \/ /\ demo.next > Len(demo.found)
          /\ demo' = [demo EXCEPT !.step = "DONE"]
          /\ UNCHANGED vars

\* start_step().  The driver would refuse silently; that it never does is part
\* of what the run shows: the demo would stop here.
DemoStart ==
    /\ demo.step \in ToSet(Steps) /\ ~demo.running
    /\ CanStart
    /\ CASE demo.step = "WRITE_SCRATCHPAD" -> WriteScratchpad(Row, 8, demo.written)
         [] demo.step = "READ_SCRATCHPAD" -> ReadScratchpad
         [] demo.step = "COPY_SCRATCHPAD" -> CopyScratchpad
         [] OTHER -> ReadMemory(Row)
    /\ demo' = [demo EXCEPT !.running = TRUE]

DemoPoll ==
    /\ demo.running
    /\ Poll
    /\ UNCHANGED demo

\* finish_step(): what a step that succeeded leaves; a failed one only prints.
\* truthful: both reads returned what the row holds (a read has no checksum).
Concluded(step, data) ==
    CASE ~ctx.ok -> demo
      [] ctx.ok /\ step = "READ_BASELINE" ->
            [demo EXCEPT !.written = RowNext(data), !.truthful = (data = dev[Current].eeprom[Row])]
      [] ctx.ok /\ step = "READ_BACK" ->
            [demo EXCEPT !.verdict = IF data = demo.written THEN "matches" ELSE "differs",
                         !.truthful = @ /\ data = dev[Current].eeprom[Row]]
      [] OTHER -> demo

DemoFinish ==
    /\ demo.running
    /\ ctx.finished
    /\ demo' = [Concluded(demo.step, line.raw.data) EXCEPT
                   !.running = FALSE, !.step = Following(demo.step),
                   !.next = IF Following(demo.step) = "SELECT" THEN @ + 1 ELSE @]
    /\ UNCHANGED vars

\* The hardware; a programmed row of the device being served is remembered.
DemoHardware ==
    /\ Hardware
    /\ demo' = [demo EXCEPT !.copied =
                   @ \/ /\ demo.step = "COPY_SCRATCHPAD"
                        /\ dev[Current].prog /\ dev'[Current].done
                        /\ dev'[Current].eeprom[Row] = demo.written]

DemoPlug == (\E d \in Devices : Plug(d)) /\ UNCHANGED demo

\* The board is reset; the devices keep their power.
DemoReset ==
    /\ demo.step # "FREE" /\ demo.boots < Boots
    /\ \A d \in Devices : ~dev[d].prog
    /\ demo' = DemoBoot("BOOT", demo.boots + 1)
    /\ port' = PortInit
    /\ ctx' = CtxInit
    /\ wire' = NoWire
    /\ search' = FALSE
    /\ AppAt("none")
    /\ UNCHANGED <<line, dev, asked>>

MainLoop == PowerMode \/ DemoSearch \/ DemoFound \/ DemoSelect \/ DemoStart \/ DemoPoll \/ DemoFinish

FreeCall == demo.step = "FREE" /\ Application /\ UNCHANGED demo
FreePoll == demo.step = "FREE" /\ Poll /\ UNCHANGED demo
FreeSearchPoll == demo.step = "FREE" /\ SearchPoll /\ UNCHANGED demo

DemoNext ==
    \/ MainLoop \/ DemoHardware \/ DemoPlug \/ DemoReset
    \/ FreeCall \/ FreePoll \/ FreeSearchPoll

DemoSpec == DemoInit /\ [][DemoNext]_demoVars

\* The main loop never stops, and the timer always reaches its end.
DemoFairSpec ==
    /\ DemoSpec
    /\ WF_demoVars(MainLoop) /\ WF_demoVars(FreePoll) /\ WF_demoVars(FreeSearchPoll)
    /\ WF_demoVars(DemoHardware)

-----------------------------------------------------------------------------
(***************************************************************************)
(* The read-back proves the copy (comment in finish_step()): when the      *)
(* two reads of a cycle returned what the row holds, "read-back matches    *)
(* the write" is printed only after the row was programmed in this cycle,  *)
(* although steps that fail are followed by the next, nothing looks at the *)
(* echo, and devices come and go between the steps.                        *)
(***************************************************************************)
MatchAfterBaseline == demo.verdict = "matches" /\ demo.truthful => demo.copied

(***************************************************************************)
(* Every operation the driver accepts comes to its end, with or without a  *)
(* device (only a reset of the board ends it otherwise).  So the census of *)
(* the example goes on for ever ("keeps re-running the search once a       *)
(* second"): no device that fails or disappears holds up its cycle.        *)
(***************************************************************************)
OperationEnds == ctx.phase = "RESET" ~> ctx.phase \in {"DONE", "IDLE"}
CensusRecurs  == demo.step # "FREE" => []<>search

OperationsGoOn == OperationEnds /\ CensusRecurs

=============================================================================
