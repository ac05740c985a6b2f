------------------------------ MODULE CANDecoder -------------------------------
(***************************************************************************)
(* CANDecoder and DBCSignalMapper (src/domain/CANDecoder.cpp,              *)
(* DBCSignalMapper.cpp): the physical value of some bits of a frame.  A    *)
(* frame is a sequence of bytes.  Physical values are in thousandths of    *)
(* their unit, cut; a scale is a fraction <<numerator, denominator>>.  A   *)
(* value that may be missing (std::optional) is <<>> or <<value>>.  TLC's  *)
(* integers hold signals of up to 16 bits.                                 *)
(***************************************************************************)
LOCAL INSTANCE Integers
LOCAL INSTANCE Sequences
LOCAL INSTANCE FiniteSetsExt

Bit(byte, n) == (byte \div 2 ^ n) % 2
Physical(raw, scale, offset) == (1000 * raw * scale[1]) \div scale[2] + offset
Clamp(value, min, max) == IF value < min THEN min ELSE IF value > max THEN max ELSE value

\* Bit p of a frame is bit p % 8 of byte p / 8, and the first bit is the lowest.
ExtractRawBits(frame, startBit, bitLength) ==
    MapThenSumSet(LAMBDA i : 2 ^ i * Bit(frame[(startBit + i) \div 8 + 1], (startBit + i) % 8),
                  0..bitLength - 1)

ToSigned(raw, bitLength) == IF raw >= 2 ^ (bitLength - 1) THEN raw - 2 ^ bitLength ELSE raw

ExtractSignal(frame, startBit, bitLength, scale, offset) ==
    IF bitLength \notin 1..64 \/ startBit + bitLength > 8 * Len(frame) THEN <<>>
    ELSE <<Physical(ExtractRawBits(frame, startBit, bitLength), scale, offset)>>

\* Bits of a byte are counted from the highest, and the first bit is the highest.
ExtractMotorolaBits(frame, startBit, bitLength) ==
    MapThenSumSet(LAMBDA i : 2 ^ (bitLength - 1 - i)
                             * Bit(frame[(startBit + i) \div 8 + 1], 7 - ((startBit + i) % 8)),
                  0..bitLength - 1)

(* The last bit of a signal of no bits at bit 0 wraps around, so that the  *)
(* signal does not fit.  A range [0|0] makes every value 0.                *)
MapSignal(frame, d) ==
    LET bits == IF d.bitLength \notin 1..64 THEN 0
                ELSE IF d.byteOrder = "Intel"
                THEN ExtractRawBits(frame, d.startBit, d.bitLength)
                ELSE ExtractMotorolaBits(frame, d.startBit, d.bitLength)
        raw == IF d.isSigned THEN ToSigned(bits, d.bitLength) ELSE bits
    IN IF d.startBit + d.bitLength \notin 1..8 * Len(frame) THEN <<>>
       ELSE <<Clamp(Physical(raw, d.scale, d.offset), d.min, d.max)>>

\* The first definition of that name in the message, if the message has one.
MapNamedSignal(frame, canId, name, signalsByCanId) ==
    LET defs == IF canId \in DOMAIN signalsByCanId THEN signalsByCanId[canId] ELSE <<>>
        named == {i \in DOMAIN defs : defs[i].name = name}
    IN IF named = {} THEN <<>> ELSE MapSignal(frame, defs[Min(named)])
=============================================================================
