------------------------------- MODULE OwTimer ------------------------------
(***************************************************************************)
(* What the port promises its engines, as a state machine over OwPort: an  *)
(* operation scheduled on the idle timer runs once and to its end, and the *)
(* end is reported once.  The engines of Ds18b20 and Ds2431 are written    *)
(* against this; OwRegs shows that the register code implements it.        *)
(***************************************************************************)
EXTENDS OwPort

CONSTANT Waits       \* the durations timed waits are scheduled for

VARIABLE port

Init == port = PortInit

\* One of the scheduling calls of onewire.h, on the idle timer.
Schedule ==
    /\ port.op = "idle"
    /\ \/ \E operation \in Ops \ {"wait"} : port' = Arm(port, operation)
       \/ \E us \in Waits : port' = ArmWait(port, us)

\* The update event without an operation, and the pin.
Signal ==
    /\ port.op = "idle"
    /\ \/ port' = Kick(port)
       \/ \E on \in BOOLEAN : port' = StrongPullup(port, on)

Finish == port.op # "idle" /\ port' = HwDone(port)

Consume == port.uif /\ port' = BusDone(port)

Next == Schedule \/ Signal \/ Finish \/ Consume

Spec == Init /\ [][Next]_port /\ WF_port(Finish)

=============================================================================
