--------------------------- MODULE TeslaBLETransport ---------------------------
(***************************************************************************)
(* Packet reassembly in TeslaBLETransport (src/ble/TeslaBLETransport.cpp): *)
(* bytes come in notifications of any size, packets AA 55 length payload   *)
(* checksum go to the subscriber.  The platform's thread appends a         *)
(* notification under the buffer's mutex and releases it; then it takes it *)
(* again and holds it for the whole loop of extractCompletePackets, of     *)
(* which a step is one round.  disconnect() clears the buffer under the    *)
(* same mutex and then, under its own, the callback.  The other calls and  *)
(* mutexes are those of OBD2Transport, which module Transport is about.    *)
(***************************************************************************)
LOCAL INSTANCE Integers
LOCAL INSTANCE Sequences

VARIABLES
    receive_buffer,          \* receive_buffer_
    notification_callback,   \* is notification_callback_ set?
    packets,                 \* the packets the callback was called with
    processing,              \* where the platform's thread is in processIncomingData
    incoming,                \* the data that it has not yet inserted
    disconnecting            \* has a disconnect() cleared the buffer and not yet the callback?

\* Not called; about to insert the data; between the two locks; inside the loop.
Phases == {"idle", "insert", "extract", "scan"}

Header == <<170, 85>>        \* HEADER_BYTE_1, HEADER_BYTE_2

TInit ==
    /\ receive_buffer = <<>>
    /\ notification_callback = FALSE
    /\ packets = <<>>
    /\ processing = "idle" /\ incoming = <<>>
    /\ disconnecting = FALSE

CalculateChecksum(p) ==
    LET sum[n \in 0..Len(p)] == IF n = 0 THEN 0 ELSE sum[n - 1] + p[n]
    IN sum[Len(p) - 1] % 256

PacketSize(p) == p[3] + 4

HasHeader(p) == p[1] = Header[1] /\ p[2] = Header[2]

ValidatePacket(p) ==
    /\ Len(p) >= 4
    /\ HasHeader(p)
    /\ Len(p) = PacketSize(p)
    /\ p[Len(p)] = CalculateChecksum(p)

ProcessIncomingData(chunk) ==
    /\ processing = "idle"
    /\ processing' = "insert"
    /\ incoming' = chunk
    /\ UNCHANGED <<receive_buffer, notification_callback, packets, disconnecting>>

Insert ==
    /\ processing = "insert"
    /\ processing' = "extract"
    /\ receive_buffer' = receive_buffer \o incoming
    /\ incoming' = <<>>
    /\ UNCHANGED <<notification_callback, packets, disconnecting>>

IsHeader(i) == receive_buffer[i] = Header[1] /\ receive_buffer[i + 1] = Header[2]

FirstHeader(i) ==
    /\ i \in 1..(Len(receive_buffer) - 1)
    /\ IsHeader(i) /\ \A j \in 1..(i - 1) : ~IsHeader(j)

\* What is left when the bytes before the header are erased.
From(i) == SubSeq(receive_buffer, i, Len(receive_buffer))
IsComplete(b) == Len(b) >= 3 /\ Len(b) >= PacketSize(b)

PacketAt(i) == SubSeq(From(i), 1, PacketSize(From(i)))

\* forwardPacket has somebody to call.
IsForwarded(packet) == ValidatePacket(packet) /\ notification_callback

(* A round that cuts the packet at i out of the buffer, valid or not.      *)
ExtractPacket(i) ==
    /\ processing \in {"extract", "scan"}
    /\ processing' = "scan"
    /\ Len(receive_buffer) >= 4
    /\ FirstHeader(i)
    /\ IsComplete(From(i))
    /\ receive_buffer' = SubSeq(From(i), PacketSize(From(i)) + 1, Len(From(i)))
    /\ packets' = IF IsForwarded(PacketAt(i)) THEN Append(packets, PacketAt(i)) ELSE packets
    /\ UNCHANGED <<notification_callback, incoming, disconnecting>>

TooShort == Len(receive_buffer) < 4 /\ UNCHANGED receive_buffer

NoHeader ==
    /\ Len(receive_buffer) >= 4
    /\ \A i \in 1..(Len(receive_buffer) - 1) : ~IsHeader(i)
    /\ receive_buffer' = <<>>

\* Faulty variant: what precedes the header stays in the buffer.
IncompleteWithNoise ==
    /\ Len(receive_buffer) >= 4
    /\ \E i \in 1..Len(receive_buffer) : FirstHeader(i) /\ ~IsComplete(From(i))
    /\ UNCHANGED receive_buffer

Incomplete ==
    /\ Len(receive_buffer) >= 4
    /\ \E i \in 1..Len(receive_buffer) :
         FirstHeader(i) /\ ~IsComplete(From(i)) /\ receive_buffer' = From(i)

(* The last round, with the three ways out of the loop.                    *)
FinishExtracting ==
    /\ processing \in {"extract", "scan"}
    /\ processing' = "idle"
    /\ TooShort \/ NoHeader \/ Incomplete
    /\ UNCHANGED <<notification_callback, packets, incoming, disconnecting>>

SubscribeToNotifications ==
    /\ notification_callback' = TRUE
    /\ UNCHANGED <<receive_buffer, packets, processing, incoming, disconnecting>>

\* Faulty variant: the buffer of the old connection is kept.
KeepReceiveBuffer ==
    /\ ~disconnecting
    /\ disconnecting' = TRUE
    /\ UNCHANGED <<receive_buffer, notification_callback, packets, processing, incoming>>

(* disconnect(): the buffer is cleared when the loop does not hold its     *)
(* mutex, also between the arrival of data and their insertion.            *)
ClearReceiveBuffer ==
    /\ ~disconnecting /\ processing # "scan"
    /\ disconnecting' = TRUE
    /\ receive_buffer' = <<>>
    /\ UNCHANGED <<notification_callback, packets, processing, incoming>>

ClearCallback ==
    /\ disconnecting
    /\ disconnecting' = FALSE
    /\ notification_callback' = FALSE
    /\ UNCHANGED <<receive_buffer, packets, processing, incoming>>

\* Between two notifications the buffer holds a fragment of less than four bytes
\* or an incomplete packet, so that it cannot outgrow one packet.
FragmentOnly ==
    Len(receive_buffer) >= 4 =>
        HasHeader(receive_buffer) /\ Len(receive_buffer) < PacketSize(receive_buffer)
=============================================================================
