--------------------------- MODULE TeslaSignalParser ---------------------------
(***************************************************************************)
(* TeslaSignalParser (src/domain/TeslaSignalParser.cpp): CAN frames, that  *)
(* is identifier, DLC, data and checksum, cut out of a byte stream that    *)
(* has no marks between them.  feedData holds m_mutex throughout, also     *)
(* while it calls the signal callback; a step is one round of its loop.    *)
(* The bytes of a round are erased with it, not after the last: nobody     *)
(* sees the buffer in between.                                             *)
(***************************************************************************)
LOCAL INSTANCE Integers
LOCAL INSTANCE Sequences

VARIABLES
    m_buffer,       \* m_buffer, from pos on
    signals,        \* what m_callback was called with
    feeding         \* is a feedData under way?

PInit ==
    /\ m_buffer = <<>>
    /\ signals = <<>>
    /\ feeding = FALSE

\* Faulty variant: the checksum byte is not counted.
UncheckedSize(dlc) == 3 + dlc

FrameSize(dlc) == 3 + dlc + 1

CalculateChecksum(f) ==
    LET sum[n \in 0..Len(f)] == IF n = 0 THEN 0 ELSE sum[n - 1] + f[n]
    IN sum[Len(f) - 1] % 256

IsValidFrame(f) ==
    /\ Len(f) >= 4
    /\ f[3] <= 8
    /\ Len(f) = FrameSize(f[3])
    /\ f[Len(f)] = CalculateChecksum(f)

Percent(byte) == IF byte > 100 THEN 100 ELSE byte

\* Throttle is the last data byte, brake the one before, speed the first four in
\* metres per hour, at most 300 km/h; data too short for a value give zero.
ParseFrame(f) ==
    LET n == f[3]
        data == SubSeq(f, 4, 3 + n)
        metres == data[1] + 256 * data[2] + 65536 * data[3]
    IN [throttle |-> IF n >= 1 THEN Percent(data[n]) ELSE 0,
        brake    |-> IF n >= 2 THEN Percent(data[n - 1]) ELSE 0,
        speed    |-> IF n < 4 THEN 0
                     ELSE IF data[4] > 0 \/ metres > 300000 THEN 300000 ELSE metres]

FeedData(data) ==
    /\ ~feeding
    /\ m_buffer' = m_buffer \o data
    /\ feeding' = TRUE
    /\ UNCHANGED signals

HasFrame == Len(m_buffer) >= 3 /\ Len(m_buffer) >= FrameSize(m_buffer[3])

\* Faulty variant: an invalid frame is skipped by its header alone.
SkipHeader(frame) == IF IsValidFrame(frame) THEN Len(frame) ELSE 3

Skip(frame) == Len(frame)

(* A round of the loop: one frame leaves the buffer, valid or not.         *)
CutFrame ==
    /\ feeding /\ HasFrame
    /\ LET frame == SubSeq(m_buffer, 1, FrameSize(m_buffer[3])) IN
       /\ m_buffer' = SubSeq(m_buffer, Skip(frame) + 1, Len(m_buffer))
       /\ signals' = IF IsValidFrame(frame) THEN Append(signals, ParseFrame(frame)) ELSE signals
    /\ UNCHANGED feeding

FinishFeeding ==
    /\ feeding /\ ~HasFrame
    /\ feeding' = FALSE
    /\ UNCHANGED <<m_buffer, signals>>

ClearBuffer ==
    /\ ~feeding
    /\ m_buffer' = <<>>
    /\ UNCHANGED <<signals, feeding>>
=============================================================================
