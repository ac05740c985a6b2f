----------------------------- MODULE TeslaPipeline -----------------------------
(***************************************************************************)
(* The pipeline TeslaBLETransport -> TeslaSignalParser that                *)
(* MVP_VERIFICATION.md:59 describes, and the parser fed with notifications *)
(* directly, as its tests do.  The scanner sends pieces: packets, valid or *)
(* with a wrong checksum, and noise.  The radio cuts them into             *)
(* notifications; the link may go in the middle of a piece, and the        *)
(* scanner then starts with the next one.                                  *)
(***************************************************************************)
EXTENDS Integers, Sequences, FiniteSets

CONSTANTS
    Conversations,   \* what the scanner may send: bytes, and where its pieces end
    ChunkSizes,      \* how many bytes one notification may carry
    MaxLosses        \* the link is not lost again when this many pieces were hit

Byte == 0..255

ASSUME PipelineAssumption ==
    /\ ChunkSizes \subseteq Nat \ {0}
    /\ \A c \in Conversations :
         /\ c.bytes \in Seq(Byte)
         /\ c.ends \in Seq(Nat \ {0})
         /\ \A i, j \in DOMAIN c.ends : i < j => c.ends[i] < c.ends[j]
         /\ Len(c.bytes) = IF c.ends = <<>> THEN 0 ELSE c.ends[Len(c.ends)]

VARIABLES
    stream,          \* the conversation
    wired,           \* does the parser get packets, or the notifications themselves?
    sent,            \* how many bytes have been sent
    cut,             \* the pieces cut by a loss of the link
    split,           \* the pieces whose first byte came at the end of a notification
    straddled,       \* has a disconnect ever cleared the buffer before data were inserted?
    receive_buffer, notification_callback, packets, processing, incoming, disconnecting,
    m_buffer, signals, feeding

Transport == INSTANCE TeslaBLETransport
Parser == INSTANCE TeslaSignalParser

radio == <<stream, wired, sent, cut, split, straddled>>
transport == <<receive_buffer, notification_callback, packets, processing, incoming, disconnecting>>
parser == <<m_buffer, signals, feeding>>
vars == <<radio, transport, parser>>

Pieces == 1..Len(stream.ends)

\* Where piece i ends, and its bytes.
End(i) == IF i = 0 THEN 0 ELSE stream.ends[i]
Piece(i) == SubSeq(stream.bytes, End(i - 1) + 1, End(i))

Init ==
    /\ stream \in Conversations
    /\ wired \in BOOLEAN
    /\ sent = 0
    /\ cut = {}
    /\ split = {}
    /\ straddled = FALSE
    /\ Transport!TInit
    /\ Parser!PInit

AtRest == processing = "idle" /\ ~feeding

\* The callback's mutex is free when the callback does not run.
Subscribe ==
    /\ ~notification_callback /\ ~disconnecting /\ ~feeding
    /\ Transport!SubscribeToNotifications
    /\ UNCHANGED <<radio, parser>>

\* A notification arrives: processIncomingData, or feedData.
Notification ==
    /\ notification_callback /\ ~disconnecting /\ AtRest
    /\ \E n \in ChunkSizes :
         LET chunk == SubSeq(stream.bytes, sent + 1, sent + n) IN
         /\ sent + n <= Len(stream.bytes)
         /\ sent' = sent + n
         /\ split' = split \cup {i \in Pieces : End(i - 1) + 1 = sent + n}
         /\ \/ wired /\ Transport!ProcessIncomingData(chunk) /\ UNCHANGED parser
            \/ ~wired /\ Parser!FeedData(chunk) /\ UNCHANGED transport
    /\ UNCHANGED <<stream, wired, cut, straddled>>

Insert == Transport!Insert /\ UNCHANGED <<radio, parser>>

\* The subscriber's callback feeds the parser, and the loop goes on when it returns.
Extract ==
    /\ ~feeding
    /\ \E i \in 1..Len(receive_buffer) :
         /\ Transport!ExtractPacket(i)
         /\ IF Transport!IsForwarded(Transport!PacketAt(i))
            THEN Parser!FeedData(Transport!PacketAt(i))
            ELSE UNCHANGED parser
    /\ UNCHANGED radio

FinishExtracting ==
    /\ ~feeding
    /\ Transport!FinishExtracting
    /\ UNCHANGED <<radio, parser>>

Parse ==
    /\ Parser!CutFrame \/ Parser!FinishFeeding
    /\ UNCHANGED <<radio, transport>>

\* What the transport has been given and not looked through.
Unread == IF wired THEN Len(receive_buffer) + Len(incoming) ELSE 0

\* The pieces of which the last `unread` bytes sent, or bytes not sent yet, are a part.
Hit(unread) == {i \in Pieces : sent - unread < End(i) /\ End(i - 1) < sent}

(* The link goes; the application disconnects, while data may be on their  *)
(* way into the buffer.  When it feeds the parser itself, it does so at    *)
(* rest and clears the parser's buffer, too.  The scanner starts with the  *)
(* next piece.                                                             *)
LinkLost ==
    /\ notification_callback /\ ~feeding
    /\ Cardinality(cut) < MaxLosses
    /\ Transport!ClearReceiveBuffer
    /\ IF wired THEN UNCHANGED parser ELSE Parser!ClearBuffer
    /\ cut' = cut \cup Hit(Unread)
    /\ \E i \in Pieces : End(i - 1) < sent /\ sent <= End(i) /\ sent' = End(i)
    /\ straddled' = (straddled \/ incoming # <<>>)
    /\ UNCHANGED <<stream, wired, split>>

Disconnected ==
    /\ ~feeding
    /\ Transport!ClearCallback
    /\ UNCHANGED <<radio, parser>>

Next ==
    \/ Subscribe \/ Notification \/ Insert \/ Extract \/ FinishExtracting \/ Parse
    \/ LinkLost \/ Disconnected

Spec == Init /\ [][Next]_vars

-----------------------------------------------------------------------------
(* Types, and what may be left in the transport's buffer between           *)
(* notifications: never more than one packet (TeslaBLETransport.cpp:142).  *)
TypeOK ==
    /\ stream \in Conversations /\ wired \in BOOLEAN
    /\ sent \in 0..Len(stream.bytes)
    /\ cut \subseteq Pieces /\ split \subseteq Pieces
    /\ receive_buffer \in Seq(Byte) /\ m_buffer \in Seq(Byte)
    /\ incoming \in Seq(Byte) /\ processing \in Transport!Phases
    /\ notification_callback \in BOOLEAN /\ disconnecting \in BOOLEAN
    /\ feeding \in BOOLEAN /\ straddled \in BOOLEAN
    /\ processing # "insert" => incoming = <<>>
    /\ processing \in {"idle", "insert"} => Transport!FragmentOnly

\* seq holds the items of the numbers in DOMAIN item, in their order and no others.
Enumerates(seq, item) ==
    /\ Len(seq) = Cardinality(DOMAIN item)
    /\ \A i \in DOMAIN item : seq[Cardinality({j \in DOMAIN item : j <= i})] = item[i]

\* The packets among the pieces that were received as a whole.
GoodPackets ==
    {i \in Pieces : End(i) <= sent /\ i \notin cut /\ Transport!ValidatePacket(Piece(i))}

\* A piece with the header and the length of a packet, whatever its checksum.
IsFramed(p) ==
    Len(p) >= 4 /\ Transport!HasHeader(p) /\ Len(p) = Transport!PacketSize(p)

NoNoise == \A i \in Pieces : IsFramed(Piece(i))

\* The subscriber has packets of the pieces `among`, in order and once: without noise
\* all good ones, with noise all but some whose first byte came by itself.
DeliversPackets(among) ==
    \E delivered \in SUBSET among :
        /\ \A i \in GoodPackets : NoNoise \/ i \notin split => i \in delivered
        /\ Enumerates(packets, [i \in delivered |-> Piece(i)])

(* However the radio cuts the stream and whenever the link goes, a packet  *)
(* with a right checksum is delivered, once and in its order, unless a     *)
(* loss of the link fell in it or caught it in the buffer: neither a wrong *)
(* checksum nor a loss takes the packets behind it along.  With noise in   *)
(* the stream one may be lost whose first header byte was the last byte of *)
(* a notification (TeslaBLETransport.cpp:158).  All this as long as no     *)
(* disconnect fell between the arrival of data and their insertion: what   *)
(* is inserted after the buffer was cleared stands before the first packet *)
(* of the next connection and may take it along, and more                  *)
(* (TeslaBLETransport.cpp:31-45, 100-106, 142-201).                        *)
LossIsLocal == wired /\ AtRest /\ ~straddled => DeliversPackets(GoodPackets)

(* The parser behind the transport stays aligned: a packet of the          *)
(* transport is exactly one frame of the parser, so that nothing is left   *)
(* in the parser's buffer and each packet of at most eight data bytes      *)
(* gives its signal (TeslaSignalParser.cpp:42-86).                         *)
StaysAligned ==
    wired /\ ~feeding =>
        /\ m_buffer = <<>>
        /\ Enumerates(signals, [k \in {n \in DOMAIN packets : packets[n][3] <= 8} |->
                                  Parser!ParseFrame(packets[k])])

(* Fed with notifications, the parser finds the valid frames however the   *)
(* radio cuts them, also behind a frame with a wrong checksum or too long  *)
(* a DLC, as long as there is no noise: TeslaSignalParser.h says "handles  *)
(* partial frames".                                                        *)
FindsFrames ==
    ~wired /\ NoNoise /\ ~feeding =>
        Enumerates(signals, [i \in {n \in GoodPackets : Piece(n)[3] <= 8} |->
                               Parser!ParseFrame(Piece(i))])
=============================================================================
