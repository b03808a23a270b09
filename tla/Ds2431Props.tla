----------------------------- MODULE Ds2431Props ----------------------------
(***************************************************************************)
(* What the DS2431 driver has to guarantee, stated over module Ds2431.     *)
(* Properties guarded by app.scene.careful are promises to an application that   *)
(* keeps to the documented write cycle; the others hold for any caller.    *)
(***************************************************************************)
EXTENDS Ds2431

RawType ==
    [kind : {"frame", "data", "status", "bad"}, ta : Blocks, es : 0..7, pf : BOOLEAN,
     data : Contents]

CtxType2431 ==
    [addr : BOOLEAN, par : BOOLEAN, ok : BOOLEAN, finished : BOOLEAN, pending : BOOLEAN,
     echo : BOOLEAN, phase : Phases2431, cmd : Commands \cup {"none"}, ta : Blocks,
     len : {0, 1, 8, FrameLen}, plen : 0..8, es : 0..7, data : Contents, rom : Roms]

DeviceType2431 ==
    [present : BOOLEAN, sp : [ta : Blocks, es : 0..7, pf : BOOLEAN, data : Contents],
     prog : BOOLEAN, done : BOOLEAN, eeprom : [Blocks -> Contents]]

(***************************************************************************)
(* Type invariant: every variable keeps its shape; the end offset and the  *)
(* lengths stay within a block and the longest reply.                      *)
(***************************************************************************)
TypeOK2431 ==
    /\ port \in PortType({0, TProg})
    /\ ctx \in CtxType2431
    /\ wire \in [cmd : Commands \cup {"none"}, rom : Roms, ta : Blocks, es : 0..7, plen : 0..8,
                 data : Contents]
    /\ line \in [seen : BOOLEAN, heard : SUBSET Devices, raw : RawType]
    /\ dev \in [Devices -> DeviceType2431]
    /\ search \in BOOLEAN
    /\ app \in [scene : Scenarios, cycle : {"none", "written", "verified"}]
    /\ asked \in [cmd : Commands \cup {"none"}, ta : Blocks, len : {0, 1, 8, FrameLen},
                  wta : Blocks, wlen : 0..8, wdata : Contents, wrom : Roms]

-----------------------------------------------------------------------------
\* The operation the engine, or the search, waits for.
WaitsFor2431 ==
    CASE search -> "slots"
      [] ~search /\ ctx.phase = "RESET" -> "reset"
      [] ~search /\ ctx.phase = "CMD" -> "write"
      [] ~search /\ ctx.phase = "READ" -> "read"
      [] ~search /\ ctx.phase = "WAIT" -> "wait"
      [] OTHER -> "idle"

(***************************************************************************)
(* The timer runs what the engine's phase waits for, or that operation has *)
(* ended and its flag is still there: whoever calls whatever and whenever, *)
(* no flag of another operation is consumed and none is lost.              *)
(***************************************************************************)
TimerServesPhase ==
    /\ port.op \in {"idle", WaitsFor2431}
    /\ port.op # "idle" => ~port.uif
    /\ WaitsFor2431 # "idle" => port.op # "idle" \/ port.uif
    /\ ctx.finished => ctx.phase \in {"IDLE", "DONE"}

\* A latched write cycle belongs to the device that is addressed now: a copy
\* cannot go to another one (ds2431_select drops the pending flag).
PendingBelongsToSelected == ctx.pending => asked.wrom = Selected

(***************************************************************************)
(* Calls made while the driver is busy are ignored: the command on the     *)
(* wire carries the arguments of the call that was accepted - for Copy     *)
(* Scratchpad, the target and end offset of the last write - and as many   *)
(* bytes are read as that call asked for.                                  *)
(***************************************************************************)
CommandAsAccepted ==
    /\ ctx.phase = "CMD" =>
           /\ wire.cmd = asked.cmd
           /\ wire.cmd # "read_scratchpad" => wire.ta = asked.ta
           /\ wire.cmd = "write_scratchpad" => wire.plen = asked.wlen /\ wire.data = asked.wdata
           /\ wire.cmd = "copy_scratchpad" => wire.es = asked.wlen - 1
    /\ ctx.phase = "READ" => ctx.len = asked.len

(***************************************************************************)
(* The EEPROM only ever changes to what an echo has verified: the payload  *)
(* of the last write, in its block, on a device that got it - although     *)
(* bytes are corrupted on the way and devices come and go.  (A device that *)
(* leaves while it programs is the exception no driver can prevent.)       *)
(***************************************************************************)
CommitsVerified ==
    [][\A d \in Devices, b \in Blocks :
          app.scene.careful /\ dev'[d].present = dev[d].present
              /\ dev'[d].eeprom[b] # dev[d].eeprom[b] =>
                 b = asked.wta /\ dev'[d].eeprom[b] = asked.wdata /\ asked.wlen = 8]_vars

(***************************************************************************)
(* On a parasite bus a device that programs is supplied from the copy      *)
(* command to the end of the window, and no reset, read or search starts   *)
(* against the engaged pull-up.                                            *)
(***************************************************************************)
PullupForProgramming ==
    app.scene.careful =>
        /\ \A d \in Devices : dev[d].prog => Powered(d)
        /\ port.op \in {"reset", "read", "slots"} => port.pin = "od"

\* The bytes of a block have no check and neither has the address of a Read
\* Memory: once noise has changed it, the device answers from any block.
BlocksRead == IF app.scene.noise THEN Blocks ELSE {asked.ta}

(***************************************************************************)
(* What is reported OK is so.  A copy has programmed the block: the        *)
(* completion pattern is read after the window and anything else is a      *)
(* failure.  A Read Memory hands out the content of the block asked for,   *)
(* or visibly nothing of the kind; never an earlier read's, and another    *)
(* block's only where noise may hit the address, which the driver cannot   *)
(* detect.                                                                 *)
(***************************************************************************)
OkMeansDone ==
    [][app.scene.careful /\ PollFinish /\ ctx.ok =>
          /\ ctx.cmd = "copy_scratchpad" =>
                \E d \in Devices : wire.rom \in {NoRom, d}
                                   /\ dev[d].eeprom[asked.wta] = asked.wdata
          /\ ctx.cmd = "read_memory" =>
                \/ line.raw.data \in {"garbled", "ones"}
                \/ \E d \in Devices, b \in BlocksRead : line.raw.data = dev[d].eeprom[b]]_vars

=============================================================================
