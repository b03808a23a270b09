------------------------------- MODULE OwCodec ------------------------------
(***************************************************************************)
(* The pure part of the read path: pulse widths to bits and bytes, the     *)
(* Dallas CRC-8 and the temperature conversion; and what the DS18B20 puts  *)
(* on the wire.                                                            *)
(***************************************************************************)
EXTENDS Integers, Sequences, FiniteSetsExt, SequencesExt

OnePulse      == 5     \* ONEWIRE_ONE_PULSE
ShortPulseMax == 10    \* ONEWIRE_SHORT_PULSE_MAX

-----------------------------------------------------------------------------
\* onewire_bit_from_pulse()
BitFromPulse(width) == IF width <= ShortPulseMax THEN 1 ELSE 0

\* onewire_decode_pulses(): eight slots a byte, least significant bit first.
DecodePulses(widths) ==
    [k \in 1..(Len(widths) \div 8) |->
        MapThenSumSet(LAMBDA b : 2^b * BitFromPulse(widths[8 * (k - 1) + b + 1]), 0..7)]

BitOf(byte, b) == (byte \div 2^b) % 2

\* The register of the CRC, bit by bit; the polynomial is 0x8C.
Crc8Step(crc, in) ==
    LET mix == (crc[0] + in) % 2
    IN  [i \in 0..7 |-> ((IF i = 7 THEN 0 ELSE crc[i + 1]) + (IF i \in {2, 3, 7} THEN mix ELSE 0)) % 2]

\* onewire_crc8()
Crc8(bytes) ==
    LET in  == [k \in 1..(8 * Len(bytes)) |-> BitOf(bytes[(k - 1) \div 8 + 1], (k - 1) % 8)]
        crc == FoldLeft(Crc8Step, [i \in 0..7 |-> 0], in)
    IN  MapThenSumSet(LAMBDA b : 2^b * crc[b], 0..7)

\* C division: towards zero.
Quotient(a, b) == IF a < 0 THEN -((-a) \div b) ELSE a \div b

Int16(w) == IF w >= 32768 THEN w - 65536 ELSE w

\* decode_temperature(): sixteenths of a degree to tenths, half away from zero.
DecodeTemperature(scratch) ==
    LET raw == Int16(256 * scratch[2] + scratch[1])
    IN  Quotient(10 * raw + (IF raw < 0 THEN -8 ELSE 8), 16)

-----------------------------------------------------------------------------
(***************************************************************************)
(* The device (external).  Its check byte is written as what the data      *)
(* sheet calls it, the remainder of the data divided by                    *)
(* x^8 + x^5 + x^4 + 1, and not as a shift register: a polynomial is the   *)
(* set of the places of its coefficients, the first bit sent the highest.  *)
(***************************************************************************)
Divisor(p) == {p, p + 3, p + 4, p + 8}

Remainder(message, n) ==
    FoldLeft(LAMBDA rest, p : IF p \in rest THEN SymDiff(rest, Divisor(p)) ELSE rest,
             message, [p \in 1..n |-> p])

\* Temperature, alarms, 12 bits, reserved bytes.
Data(raw) == <<raw % 256, (raw \div 256) % 256, 75, 70, 127, 255, 12, 16>>

DataBits(raw) == {k \in 1..64 : BitOf(Data(raw)[(k - 1) \div 8 + 1], (k - 1) % 8) = 1}

\* The slots of a read in which the device leaves the line high.
Ones(raw) == DataBits(raw) \cup Remainder(DataBits(raw), 64)
=============================================================================
