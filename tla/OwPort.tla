------------------------------- MODULE OwPort -------------------------------
(***************************************************************************)
(* The one timer every engine of the driver shares, seen from the polling  *)
(* code: which hardware operation it runs, whether its update flag (UIF)   *)
(* waits to be consumed, and how the bus pin is driven.                    *)
(*                                                                         *)
(* The port is a value and every call of src/ow_port.h maps it to the next *)
(* one, so a handler that makes several calls composes them in the order   *)
(* the code makes them.  Registers, pulse widths and DMA channels are      *)
(* abstracted; what is kept is the order in which UIF is raised, cleared   *)
(* and consumed.                                                           *)
(***************************************************************************)
EXTENDS Naturals

(***************************************************************************)
(* The operations a caller can schedule: bus reset, table-fed write, the   *)
(* search command (fed from flash), multi-byte read, one to three search   *)
(* slots (id/complement pair, direction bit) and a timed wait.             *)
(***************************************************************************)
Ops == {"reset", "write", "command", "read", "slots", "wait"}

\* How the bus pin drives: open-drain, or push-pull HIGH (strong pull-up).
Pins == {"od", "pp"}

(***************************************************************************)
(* op  - the operation in flight ("idle": the one-pulse timer stopped)     *)
(* us  - the length the pending wait was scheduled for                     *)
(* uif - the update flag, which bus_done() consumes                        *)
(* pin - the pin mode                                                      *)
(***************************************************************************)
PortType(Waits) ==
    [op : Ops \cup {"idle"}, us : Waits, uif : BOOLEAN, pin : Pins]

\* After onewire_init(): timer stopped, flag clear, pin open-drain.
PortInit == [op |-> "idle", us |-> 0, uif |-> FALSE, pin |-> "od"]

\* Mutant: SR is not cleared after the forced update event.
ArmKeepsFlag(p, operation) == [p EXCEPT !.op = operation]

(***************************************************************************)
(* Every scheduling call ends in ow_port_capture, ow_port_feed or          *)
(* ow_port_start_timer: the update event that loads the preloaded          *)
(* registers is followed by SR = 0, so a flag raised earlier is lost here  *)
(* and the only UIF the caller can see afterwards is its own.              *)
(***************************************************************************)
Arm(p, operation) == [p EXCEPT !.op = operation, !.uif = FALSE]

ArmWait(p, us) == [Arm(p, "wait") EXCEPT !.us = us]

\* Mutant: with URS set the software update event would raise no flag.
KickNoFlag(p) == p

\* ow_timer_kick(): a software update event with nothing scheduled.
Kick(p) == [p EXCEPT !.uif = TRUE]

\* onewire_bus_done() on its 1 path: the flag is consumed by the read.
BusDone(p) == [p EXCEPT !.uif = FALSE]

(***************************************************************************)
(* onewire_strong_pullup(on).  Engaging zeroes CCR3 through a software     *)
(* update event, which also raises UIF and is not followed by SR = 0;      *)
(* releasing only restores the open-drain mode.                            *)
(***************************************************************************)
StrongPullup(p, on) ==
    IF on THEN [p EXCEPT !.uif = TRUE, !.pin = "pp"]
          ELSE [p EXCEPT !.pin = "od"]

\* The timer reaches its last period: it stops (OPM) and raises UIF.
HwDone(p) == [p EXCEPT !.op = "idle", !.uif = TRUE]

=============================================================================
