-------------------------- MODULE TeslaPipelineProofs --------------------------
(***************************************************************************)
(* Proofs about TeslaPipeline, for every conversation, every cutting into  *)
(* notifications and every loss: its types, the alignment of the parser    *)
(* behind the transport, and, where there is no noise, that transport and  *)
(* parser find every good packet, in order and once.                       *)
(***************************************************************************)
EXTENDS TeslaPipeline, SequenceTheorems, FiniteSetTheorems, TLAPS

-----------------------------------------------------------------------------
(* The part of s from first to last.                                       *)
LEMMA Slice ==
    ASSUME NEW S, NEW s \in Seq(S), NEW first \in Nat, NEW last \in Nat,
           0 < first, first <= last + 1, last <= Len(s)
    PROVE  /\ SubSeq(s, first, last) \in Seq(S)
           /\ Len(SubSeq(s, first, last)) = last - first + 1
           /\ \A i \in 1..(last - first + 1) :
                 /\ i + first - 1 \in 1..Len(s)
                 /\ SubSeq(s, first, last)[i] = s[i + first - 1]
  <1>1. Len(s) \in Nat /\ \A i \in first..last : i \in 1..Len(s)
    BY LenProperties
  <1>2. \A i \in first..last : s[i] \in S
    BY <1>1, LenProperties
  <1> DEFINE slice == SubSeq(s, first, last)
  <1>3. /\ slice \in Seq(S)
        /\ Len(slice) = IF first <= last THEN last - first + 1 ELSE 0
        /\ \A i \in 1..(last - first + 1) : slice[i] = s[first + i - 1]
    BY <1>2, SubSeqProperties
  <1> HIDE DEF slice
  <1>4. Len(slice) = last - first + 1
    BY <1>3
  <1>5. \A i \in 1..(last - first + 1) : i + first - 1 \in 1..Len(s) /\ first + i - 1 = i + first - 1
    BY <1>1
  <1> QED
    BY <1>3, <1>4, <1>5 DEF slice

LEMMA Bytes ==
    ASSUME NEW b \in Seq(Byte)
    PROVE  Len(b) \in Nat /\ DOMAIN b = 1..Len(b) /\ \A i \in 1..Len(b) : b[i] \in Nat
  <1>1. Len(b) \in Nat /\ DOMAIN b = 1..Len(b) /\ \A i \in 1..Len(b) : b[i] \in Byte
    BY LenProperties
  <1>2. Byte \subseteq Nat
    BY DEF Byte
  <1> QED
    BY <1>1, <1>2

(* What the assumption says of a conversation.                             *)
EndOf(c, i) == IF i = 0 THEN 0 ELSE c.ends[i]

LEMMA EndFacts ==
    ASSUME NEW c \in Conversations
    PROVE  /\ c.bytes \in Seq(Byte) /\ Len(c.bytes) \in Nat /\ Len(c.ends) \in Nat
           /\ \A i \in 0..Len(c.ends) : EndOf(c, i) \in Nat /\ EndOf(c, i) <= Len(c.bytes)
           /\ \A i, j \in 0..Len(c.ends) : i < j => EndOf(c, i) < EndOf(c, j)
           /\ EndOf(c, Len(c.ends)) = Len(c.bytes)
  <1> DEFINE ends == c.ends
  <1>1. /\ c.bytes \in Seq(Byte) /\ ends \in Seq(Nat \ {0})
        /\ \A i, j \in DOMAIN ends : i < j => ends[i] < ends[j]
        /\ Len(c.bytes) = IF ends = <<>> THEN 0 ELSE ends[Len(ends)]
    BY PipelineAssumption
  <1> HIDE DEF ends
  <1>2. /\ Len(c.bytes) \in Nat /\ Len(ends) \in Nat /\ DOMAIN ends = 1..Len(ends)
        /\ \A i \in 1..Len(ends) : ends[i] \in Nat \ {0}
        /\ ends = <<>> <=> Len(ends) = 0
    BY <1>1, LenProperties, EmptySeq
  <1>3. \A i \in 0..Len(ends) : i = 0 \/ i \in 1..Len(ends)
    BY <1>2
  <1>4. \A i : EndOf(c, i) = IF i = 0 THEN 0 ELSE ends[i]
    BY DEF EndOf, ends
  <1>5. \A i \in 1..Len(ends) : ends[i] <= ends[Len(ends)]
    BY <1>1, <1>2
  <1>6. \A i \in 0..Len(ends) : EndOf(c, i) \in Nat /\ EndOf(c, i) <= Len(c.bytes)
    BY <1>1, <1>2, <1>3, <1>4, <1>5
  <1>7. \A i, j \in 0..Len(ends) : i < j => EndOf(c, i) < EndOf(c, j)
    BY <1>1, <1>2, <1>3, <1>4
  <1>8. EndOf(c, Len(ends)) = Len(c.bytes)
    BY <1>1, <1>2, <1>4
  <1> QED
    BY <1>1, <1>2, <1>6, <1>7, <1>8 DEF ends

LEMMA StreamFacts ==
    ASSUME stream \in Conversations
    PROVE  /\ stream.bytes \in Seq(Byte) /\ Len(stream.bytes) \in Nat
           /\ Len(stream.ends) \in Nat
           /\ \A i \in 0..Len(stream.ends) : End(i) \in 0..Len(stream.bytes)
  BY EndFacts DEF End, EndOf

LEMMA TypeFacts ==
    ASSUME TypeOK
    PROVE  /\ stream.bytes \in Seq(Byte) /\ Len(stream.bytes) \in Nat
           /\ Len(stream.ends) \in Nat
           /\ sent \in Nat /\ sent <= Len(stream.bytes)
           /\ receive_buffer \in Seq(Byte) /\ m_buffer \in Seq(Byte)
           /\ incoming \in Seq(Byte) /\ Len(incoming) \in Nat
           /\ Len(receive_buffer) \in Nat /\ Len(m_buffer) \in Nat
           /\ \A i \in 1..Len(receive_buffer) : receive_buffer[i] \in Nat
           /\ \A i \in 1..Len(m_buffer) : m_buffer[i] \in Nat
  BY StreamFacts, Bytes DEF TypeOK

(* What a round of the transport's loop finds at i.                        *)
LEMMA PacketFacts ==
    ASSUME TypeOK, NEW i \in 1..Len(receive_buffer), Transport!FirstHeader(i)
    PROVE  LET h == Transport!From(i) IN
           /\ h \in Seq(Byte) /\ Len(h) \in Nat /\ Len(h) = Len(receive_buffer) - i + 1
           /\ \A j \in 1..Len(h) : h[j] = receive_buffer[j + i - 1] /\ h[j] \in Nat
           /\ Transport!HasHeader(h)
           /\ Transport!IsComplete(h) =>
                 /\ Transport!PacketSize(h) \in 4..Len(h)
                 /\ Transport!PacketAt(i) \in Seq(Byte)
                 /\ Len(Transport!PacketAt(i)) = Transport!PacketSize(h)
                 /\ \A j \in 1..Transport!PacketSize(h) : Transport!PacketAt(i)[j] = h[j]
                 /\ SubSeq(h, Transport!PacketSize(h) + 1, Len(h)) \in Seq(Byte)
  <1> DEFINE h == Transport!From(i)
             size == Transport!PacketSize(h)
  <1>1. i \in Nat /\ 0 < i /\ i <= Len(receive_buffer) + 1
    BY TypeFacts
  <1>2. /\ h \in Seq(Byte) /\ Len(h) = Len(receive_buffer) - i + 1
        /\ \A j \in 1..Len(h) : h[j] = receive_buffer[j + i - 1]
    BY <1>1, TypeFacts, Slice DEF Transport!From
  <1>3. Len(h) \in Nat /\ \A j \in 1..Len(h) : h[j] \in Nat
    BY <1>2, Bytes
  <1>4. Transport!HasHeader(h)
    <2>1. i < Len(receive_buffer)
      BY TypeFacts DEF Transport!FirstHeader
    <2>2. h[1] = receive_buffer[i] /\ h[2] = receive_buffer[i + 1]
      BY <1>1, <1>2, <2>1, TypeFacts
    <2> QED
      BY <2>2 DEF Transport!FirstHeader, Transport!IsHeader, Transport!HasHeader
  <1>5. ASSUME Transport!IsComplete(h)
        PROVE  /\ size \in 4..Len(h)
               /\ Transport!PacketAt(i) \in Seq(Byte) /\ Len(Transport!PacketAt(i)) = size
               /\ \A j \in 1..size : Transport!PacketAt(i)[j] = h[j]
               /\ SubSeq(h, size + 1, Len(h)) \in Seq(Byte)
    <2>1. size \in 4..Len(h)
      BY <1>3, <1>5 DEF Transport!IsComplete, Transport!PacketSize
    <2>2. Transport!PacketAt(i) = SubSeq(h, 1, size)
      BY DEF Transport!PacketAt
    <2> HIDE DEF h, size
    <2>3. /\ SubSeq(h, 1, size) \in Seq(Byte) /\ Len(SubSeq(h, 1, size)) = size
          /\ \A j \in 1..size : SubSeq(h, 1, size)[j] = h[j]
      BY <1>2, <1>3, <2>1, Slice
    <2>4. SubSeq(h, size + 1, Len(h)) \in Seq(Byte)
      BY <1>2, <1>3, <2>1, Slice
    <2> QED
      BY <2>1, <2>2, <2>3, <2>4
  <1> QED
    BY <1>2, <1>3, <1>4, <1>5

LEMMA NoiseGoes ==
    ASSUME TypeOK, Transport!Incomplete
    PROVE  /\ receive_buffer' \in Seq(Byte)
           /\ Transport!HasHeader(receive_buffer')
           /\ Len(receive_buffer') < Transport!PacketSize(receive_buffer') \/ Len(receive_buffer') < 3
  <1>1. PICK i \in 1..Len(receive_buffer) :
          Transport!FirstHeader(i) /\ ~Transport!IsComplete(Transport!From(i))
            /\ receive_buffer' = Transport!From(i)
    BY DEF Transport!Incomplete
  <1> DEFINE h == Transport!From(i)
  <1>2. h \in Seq(Byte) /\ Len(h) \in Nat /\ Transport!HasHeader(h) /\ \A j \in 1..Len(h) : h[j] \in Nat
    BY <1>1, PacketFacts
  <1> HIDE DEF h
  <1>3. Len(h) < Transport!PacketSize(h) \/ Len(h) < 3
    <2>1. CASE Len(h) >= 3
      <3>1. Transport!PacketSize(h) \in Nat
        BY <1>2, <2>1 DEF Transport!PacketSize
      <3> QED
        BY <1>1, <1>2, <2>1, <3>1 DEF Transport!IsComplete, h
    <2>2. CASE Len(h) < 3
      BY <2>2
    <2> QED
      BY <1>2, <2>1, <2>2
  <1> QED
    BY <1>1, <1>2, <1>3 DEF h

(* A frame at the front of the parser's buffer.                            *)
LEMMA FrameFacts ==
    ASSUME TypeOK, Parser!HasFrame
    PROVE  LET size == Parser!FrameSize(m_buffer[3])
               frame == SubSeq(m_buffer, 1, size) IN
           /\ m_buffer[3] \in Nat /\ size \in 4..Len(m_buffer) /\ size = m_buffer[3] + 4
           /\ frame \in Seq(Byte) /\ Len(frame) = size
           /\ \A j \in 1..size : frame[j] = m_buffer[j]
           /\ Parser!Skip(frame) = size
           /\ SubSeq(m_buffer, size + 1, Len(m_buffer)) \in Seq(Byte)
  <1> DEFINE size == Parser!FrameSize(m_buffer[3])
             frame == SubSeq(m_buffer, 1, size)
  <1>1. m_buffer[3] \in Nat
    BY TypeFacts DEF Parser!HasFrame
  <1>2. size = m_buffer[3] + 4 /\ size \in 4..Len(m_buffer)
    BY <1>1, TypeFacts DEF Parser!HasFrame, Parser!FrameSize
  <1> HIDE DEF size
  <1>3. frame \in Seq(Byte) /\ Len(frame) = size /\ \A j \in 1..size : frame[j] = m_buffer[j]
    BY <1>2, TypeFacts, Slice
  <1>4. SubSeq(m_buffer, size + 1, Len(m_buffer)) \in Seq(Byte)
    BY <1>2, TypeFacts, Slice
  <1>5. Parser!Skip(frame) = size
    BY <1>3 DEF Parser!Skip
  <1> QED
    BY <1>1, <1>2, <1>3, <1>4, <1>5 DEF size

-----------------------------------------------------------------------------
(* Types.                                                                  *)
LEMMA TypeInit == Init => TypeOK
  <1> SUFFICES ASSUME Init PROVE TypeOK
    OBVIOUS
  <1>1. stream \in Conversations
    BY DEF Init
  <1>2. sent \in 0..Len(stream.bytes)
    BY <1>1, StreamFacts DEF Init
  <1>3. <<>> \in Seq(Byte) /\ Len(<<>>) = 0
    BY EmptySeq
  <1>4. receive_buffer = <<>> /\ incoming = <<>> /\ processing = "idle" /\ Transport!FragmentOnly
    BY <1>3 DEF Init, Transport!TInit, Transport!FragmentOnly
  <1> QED
    BY <1>1, <1>2, <1>3, <1>4 DEF Init, TypeOK, Transport!TInit, Transport!Phases, Parser!PInit

LEMMA SentNext ==
    ASSUME TypeOK, [Next]_vars
    PROVE  stream' = stream /\ wired' = wired /\ sent' \in 0..Len(stream.bytes)
  <1>1. CASE Notification
    <2>1. PICK n \in ChunkSizes : sent + n <= Len(stream.bytes) /\ sent' = sent + n
      BY <1>1 DEF Notification
    <2>2. n \in Nat
      BY PipelineAssumption
    <2> QED
      BY <1>1, <2>1, <2>2, TypeFacts DEF Notification
  <1>2. CASE LinkLost
    <2>1. PICK i \in Pieces : sent' = End(i)
      BY <1>2 DEF LinkLost
    <2>2. i \in 0..Len(stream.ends)
      BY TypeFacts DEF Pieces
    <2>3. End(i) \in 0..Len(stream.bytes)
      BY <2>2, StreamFacts DEF TypeOK
    <2> QED
      BY <1>2, <2>1, <2>3 DEF LinkLost
  <1>3. CASE Subscribe \/ Insert \/ Extract \/ FinishExtracting \/ Parse \/ Disconnected \/ UNCHANGED vars
    BY <1>3 DEF Subscribe, Insert, Extract, FinishExtracting, Parse, Disconnected, vars, radio, TypeOK
  <1> QED
    BY <1>1, <1>2, <1>3 DEF Next

LEMMA RadioTypes ==
    ASSUME TypeOK, [Next]_vars
    PROVE  /\ cut' \subseteq Pieces /\ split' \subseteq Pieces /\ Pieces' = Pieces
           /\ straddled' \in BOOLEAN
  <1>1. stream' = stream
    BY SentNext
  <1>2. Pieces' = Pieces
    BY <1>1 DEF Pieces
  <1>3. cut \subseteq Pieces /\ split \subseteq Pieces /\ straddled \in BOOLEAN
    BY DEF TypeOK
  <1>4. CASE Notification
    <2>1. PICK n : /\ cut' = cut /\ straddled' = straddled
                   /\ split' = split \cup {i \in Pieces : End(i - 1) + 1 = sent + n}
      BY <1>4 DEF Notification
    <2> QED
      BY <1>2, <1>3, <2>1
  <1>5. CASE LinkLost
    <2>1. cut' = cut \cup Hit(Unread) /\ split' = split /\ straddled' \in BOOLEAN
      BY <1>5 DEF LinkLost
    <2>2. Hit(Unread) \subseteq Pieces
      BY DEF Hit
    <2> QED
      BY <1>2, <1>3, <2>1, <2>2
  <1>6. CASE Subscribe \/ Insert \/ Extract \/ FinishExtracting \/ Parse \/ Disconnected \/ UNCHANGED vars
    <2>1. cut' = cut /\ split' = split /\ straddled' = straddled
      BY <1>6 DEF Subscribe, Insert, Extract, FinishExtracting, Parse, Disconnected, vars, radio
    <2> QED
      BY <1>2, <1>3, <2>1
  <1> QED
    BY <1>4, <1>5, <1>6 DEF Next

LEMMA ChunkFacts ==
    ASSUME TypeOK, NEW n \in ChunkSizes, sent + n <= Len(stream.bytes)
    PROVE  LET chunk == SubSeq(stream.bytes, sent + 1, sent + n) IN
           /\ n \in Nat \ {0}
           /\ chunk \in Seq(Byte) /\ Len(chunk) = n
           /\ \A j \in 1..n : chunk[j] = stream.bytes[j + sent]
  <1>1. n \in Nat \ {0}
    BY PipelineAssumption
  <1>2. PICK first, last : first = sent + 1 /\ last = sent + n
    OBVIOUS
  <1>3. sent \in Nat /\ Len(stream.bytes) \in Nat /\ stream.bytes \in Seq(Byte)
    BY TypeFacts
  <1>4. first \in Nat /\ last \in Nat /\ 0 < first /\ first <= last + 1 /\ last <= Len(stream.bytes)
    BY <1>1, <1>2, <1>3
  <1>5. last - first + 1 = n /\ \A j \in 1..n : j + first - 1 = j + sent
    BY <1>1, <1>2, <1>3
  <1> DEFINE chunk == SubSeq(stream.bytes, first, last)
  <1>6. /\ chunk \in Seq(Byte)
        /\ Len(chunk) = last - first + 1
        /\ \A j \in 1..(last - first + 1) : chunk[j] = stream.bytes[j + first - 1]
    BY <1>3, <1>4, Slice
  <1>7. chunk \in Seq(Byte) /\ Len(chunk) = n /\ \A j \in 1..n : chunk[j] = stream.bytes[j + sent]
    BY <1>5, <1>6
  <1> QED
    BY <1>1, <1>2, <1>7

LEMMA BufferTypes ==
    ASSUME TypeOK, [Next]_vars
    PROVE  /\ receive_buffer' \in Seq(Byte) /\ m_buffer' \in Seq(Byte) /\ incoming' \in Seq(Byte)
           /\ notification_callback' \in BOOLEAN /\ disconnecting' \in BOOLEAN
           /\ processing' \in Transport!Phases /\ feeding' \in BOOLEAN
           /\ processing' # "insert" => incoming' = <<>>
  <1> USE DEF transport, parser, Transport!Phases
  <1>1. /\ receive_buffer \in Seq(Byte) /\ m_buffer \in Seq(Byte) /\ <<>> \in Seq(Byte)
        /\ incoming \in Seq(Byte) /\ processing \in Transport!Phases
        /\ notification_callback \in BOOLEAN /\ disconnecting \in BOOLEAN /\ feeding \in BOOLEAN
        /\ processing # "insert" => incoming = <<>>
    BY EmptySeq DEF TypeOK
  <1>2. CASE Subscribe
    BY <1>1, <1>2 DEF Subscribe, Transport!SubscribeToNotifications
  <1>3. CASE Notification
    <2>1. PICK n \in ChunkSizes :
            LET chunk == SubSeq(stream.bytes, sent + 1, sent + n) IN
            /\ sent + n <= Len(stream.bytes)
            /\ \/ Transport!ProcessIncomingData(chunk) /\ UNCHANGED parser
               \/ Parser!FeedData(chunk) /\ UNCHANGED transport
      BY <1>3 DEF Notification
    <2> DEFINE chunk == SubSeq(stream.bytes, sent + 1, sent + n)
    <2>2. chunk \in Seq(Byte)
      BY <2>1, ChunkFacts
    <2> HIDE DEF chunk
    <2>3. m_buffer \o chunk \in Seq(Byte)
      BY <1>1, <2>2, ConcatProperties
    <2>4. CASE Transport!ProcessIncomingData(chunk) /\ UNCHANGED parser
      BY <1>1, <2>2, <2>4 DEF Transport!ProcessIncomingData
    <2>5. CASE Parser!FeedData(chunk) /\ UNCHANGED transport
      BY <1>1, <2>3, <2>5 DEF Parser!FeedData
    <2> QED
      BY <2>1, <2>4, <2>5 DEF chunk
  <1>4. CASE Extract
    <2>1. PICK i \in 1..Len(receive_buffer) :
            /\ Transport!ExtractPacket(i)
            /\ IF Transport!IsForwarded(Transport!PacketAt(i))
               THEN Parser!FeedData(Transport!PacketAt(i)) ELSE UNCHANGED parser
      BY <1>4 DEF Extract
    <2>2. Transport!FirstHeader(i) /\ Transport!IsComplete(Transport!From(i))
      BY <2>1 DEF Transport!ExtractPacket
    <2>3. /\ receive_buffer' \in Seq(Byte) /\ Transport!PacketAt(i) \in Seq(Byte)
          /\ notification_callback' = notification_callback /\ processing' = "scan"
          /\ processing # "insert" /\ incoming' = incoming /\ disconnecting' = disconnecting
      BY <2>1, <2>2, PacketFacts DEF Transport!ExtractPacket
    <2>4. m_buffer \o Transport!PacketAt(i) \in Seq(Byte)
      BY <1>1, <2>3, ConcatProperties
    <2>5. m_buffer' \in Seq(Byte) /\ feeding' \in BOOLEAN
      BY <1>1, <2>1, <2>4 DEF Parser!FeedData
    <2> QED
      BY <1>1, <2>3, <2>5
  <1>5. CASE FinishExtracting
    <2>1. /\ m_buffer' = m_buffer /\ feeding' = feeding /\ notification_callback' = notification_callback
          /\ processing' = "idle" /\ processing # "insert" /\ incoming' = incoming
          /\ disconnecting' = disconnecting
      BY <1>5 DEF FinishExtracting, Transport!FinishExtracting
    <2>2. \/ receive_buffer' = receive_buffer \/ receive_buffer' = <<>> \/ Transport!Incomplete
      BY <1>5 DEF FinishExtracting, Transport!FinishExtracting, Transport!TooShort, Transport!NoHeader
    <2>3. receive_buffer' \in Seq(Byte)
      BY <1>1, <2>2, NoiseGoes
    <2> QED
      BY <1>1, <2>1, <2>3
  <1>6. CASE Parse
    <2>1. CASE Parser!CutFrame
      <3> DEFINE size == Parser!FrameSize(m_buffer[3])
      <3>1. m_buffer' = SubSeq(m_buffer, Parser!Skip(SubSeq(m_buffer, 1, size)) + 1, Len(m_buffer))
              /\ Parser!HasFrame /\ feeding' = feeding
        BY <2>1 DEF Parser!CutFrame
      <3>2. m_buffer' \in Seq(Byte)
        BY <3>1, FrameFacts
      <3> QED
        BY <1>1, <1>6, <3>1, <3>2 DEF Parse
    <2>2. CASE Parser!FinishFeeding
      BY <1>1, <1>6, <2>2 DEF Parse, Parser!FinishFeeding
    <2> QED
      BY <1>6, <2>1, <2>2 DEF Parse
  <1>7. CASE LinkLost
    BY <1>1, <1>7 DEF LinkLost, Transport!ClearReceiveBuffer, Parser!ClearBuffer
  <1>8. CASE Insert
    <2>1. receive_buffer \o incoming \in Seq(Byte)
      BY <1>1, ConcatProperties
    <2> QED
      BY <1>1, <1>8, <2>1 DEF Insert, Transport!Insert
  <1>9. CASE Disconnected
    BY <1>1, <1>9 DEF Disconnected, Transport!ClearCallback
  <1>10. CASE UNCHANGED vars
    BY <1>1, <1>10 DEF vars
  <1> QED
    BY <1>2, <1>3, <1>4, <1>5, <1>6, <1>7, <1>8, <1>9, <1>10 DEF Next

(* What the transport keeps between two notifications.                     *)
LEMMA FragmentNext ==
    ASSUME TypeOK, [Next]_vars
    PROVE  (processing \in {"idle", "insert"} => Transport!FragmentOnly)'
  <1> USE DEF transport
  <1>1. processing \in {"idle", "insert"} => Transport!FragmentOnly
    BY DEF TypeOK
  <1>2. CASE FinishExtracting
    <2>1. CASE Transport!TooShort
      BY <2>1 DEF Transport!TooShort, Transport!FragmentOnly
    <2>2. CASE Transport!NoHeader
      <3>1. Len(<<>>) = 0
        BY EmptySeq
      <3> QED
        BY <2>2, <3>1 DEF Transport!NoHeader, Transport!FragmentOnly
    <2>3. CASE Transport!Incomplete
      <3>1. Len(receive_buffer') \in Nat
        BY <2>3, NoiseGoes, LenProperties
      <3>2. /\ Transport!HasHeader(receive_buffer')
            /\ Len(receive_buffer') >= 4 => Len(receive_buffer') < Transport!PacketSize(receive_buffer')
        BY <2>3, <3>1, NoiseGoes
      <3> QED
        BY <3>2 DEF Transport!FragmentOnly, Transport!HasHeader, Transport!PacketSize, Transport!Header
    <2> QED
      BY <1>2, <2>1, <2>2, <2>3 DEF FinishExtracting, Transport!FinishExtracting
  <1>3. CASE LinkLost
    <2>1. Len(<<>>) = 0
      BY EmptySeq
    <2> QED
      BY <1>3, <2>1 DEF LinkLost, Transport!ClearReceiveBuffer, Transport!FragmentOnly
  <1>4. CASE Notification
    <2>1. receive_buffer' = receive_buffer /\ processing = "idle"
      BY <1>4 DEF Notification, AtRest, Transport!ProcessIncomingData
    <2> QED
      BY <1>1, <2>1 DEF Transport!FragmentOnly, Transport!HasHeader, Transport!PacketSize, Transport!Header
  <1>5. CASE Extract \/ Insert
    <2>1. processing' \in {"extract", "scan"}
      BY <1>5 DEF Extract, Transport!ExtractPacket, Insert, Transport!Insert
    <2> QED
      BY <2>1
  <1>6. CASE Subscribe \/ Parse \/ Disconnected \/ UNCHANGED vars
    <2>1. receive_buffer' = receive_buffer /\ processing' = processing
      BY <1>6 DEF Subscribe, Transport!SubscribeToNotifications, Parse, Disconnected,
            Transport!ClearCallback, vars
    <2> QED
      BY <1>1, <2>1 DEF Transport!FragmentOnly, Transport!HasHeader, Transport!PacketSize, Transport!Header
  <1> QED
    BY <1>2, <1>3, <1>4, <1>5, <1>6 DEF Next

LEMMA TypeNext == TypeOK /\ [Next]_vars => TypeOK'
  <1> SUFFICES ASSUME TypeOK, [Next]_vars PROVE TypeOK'
    OBVIOUS
  <1>1. stream' \in Conversations /\ wired' \in BOOLEAN /\ sent' \in 0..Len(stream'.bytes)
    BY SentNext DEF TypeOK
  <1> QED
    BY <1>1, RadioTypes, BufferTypes, FragmentNext DEF TypeOK

(* Between two notifications the transport holds a fragment of less than   *)
(* four bytes or the beginning of one packet, never more, so that its      *)
(* buffer is bounded by the longest packet (TeslaBLETransport.cpp:142-201).*)
THEOREM OnlyAFragmentStays == Spec => []TypeOK
  BY TypeInit, TypeNext, PTL DEF Spec

-----------------------------------------------------------------------------
(* Enumerates, item by item.                                               *)
LEMMA EnumerateNone ==
    ASSUME NEW item, DOMAIN item = {} PROVE Enumerates(<<>>, item)
  <1>1. Cardinality({}) = 0 /\ Len(<<>>) = 0
    BY FS_EmptySet, EmptySeq
  <1> QED
    BY <1>1 DEF Enumerates

LEMMA EnumerateOneMore ==
    ASSUME NEW T, NEW seq \in Seq(T), NEW old, NEW item, NEW k \in Nat,
           IsFiniteSet(DOMAIN old), DOMAIN old \subseteq Nat,
           \A j \in DOMAIN old : j < k /\ item[j] = old[j],
           DOMAIN item = DOMAIN old \cup {k}, item[k] \in T,
           Enumerates(seq, old)
    PROVE  Enumerates(Append(seq, item[k]), item)
  <1> DEFINE S == DOMAIN old
             n == Cardinality(S)
             longer == Append(seq, item[k])
             Rank(i) == Cardinality({j \in DOMAIN item : j <= i})
  <1>1. n \in Nat /\ Cardinality(S \cup {k}) = n + 1 /\ k \notin S
    BY FS_CardinalityType, FS_AddElement
  <1>2. /\ Len(seq) = n
        /\ \A i \in S : seq[Cardinality({j \in S : j <= i})] = old[i]
    BY DEF Enumerates
  <1>3. /\ Len(longer) = n + 1 /\ longer[n + 1] = item[k]
        /\ \A i \in 1..n : longer[i] = seq[i]
    BY <1>1, <1>2, AppendProperties
  <1>4. ASSUME NEW i \in S PROVE longer[Rank(i)] = item[i]
    <2> DEFINE below == {j \in S : j <= i}
    <2>1. {j \in DOMAIN item : j <= i} = below
      OBVIOUS
    <2>2. IsFiniteSet(below) /\ Cardinality(below) \in Nat /\ Cardinality(below) <= n
      BY FS_Subset, FS_CardinalityType
    <2>3. i \in below
      OBVIOUS
    <2>4. Cardinality(below) # 0
      BY <2>2, <2>3, FS_EmptySet
    <2>5. Cardinality(below) \in 1..n
      BY <1>1, <2>2, <2>4
    <2>6. seq[Cardinality(below)] = old[i]
      BY <1>2
    <2> QED
      BY <1>3, <2>1, <2>5, <2>6
  <1>5. longer[Rank(k)] = item[k]
    <2>1. {j \in DOMAIN item : j <= k} = S \cup {k}
      OBVIOUS
    <2> QED
      BY <1>1, <1>3, <2>1
  <1> QED
    BY <1>1, <1>3, <1>4, <1>5 DEF Enumerates

LEMMA SameChecksum ==
    ASSUME NEW p PROVE Transport!CalculateChecksum(p) = Parser!CalculateChecksum(p)
  BY DEF Transport!CalculateChecksum, Parser!CalculateChecksum

-----------------------------------------------------------------------------
(* The parser behind the transport.                                        *)
Signal == {Parser!ParseFrame(f) : f \in Seq(Byte)}

\* The signals that the first m of the packets ps stand for.
SignalsOf(ps, m) ==
    [k \in {n \in 1..m : ps[n][3] <= 8} |-> Parser!ParseFrame(ps[k])]

AlignInv ==
    /\ packets \in Seq(Seq(Byte)) /\ signals \in Seq(Signal)
    /\ \A k \in 1..Len(packets) : Transport!ValidatePacket(packets[k])
    /\ wired =>
         \/ m_buffer = <<>> /\ Enumerates(signals, SignalsOf(packets, Len(packets)))
         \/ /\ feeding /\ packets # <<>>
            /\ m_buffer = packets[Len(packets)]
            /\ Enumerates(signals, SignalsOf(packets, Len(packets) - 1))

LEMMA AlignInit == Init => AlignInv
  <1> SUFFICES ASSUME Init PROVE AlignInv
    OBVIOUS
  <1>1. packets = <<>> /\ signals = <<>> /\ m_buffer = <<>>
    BY DEF Init, Transport!TInit, Parser!PInit
  <1>2. packets \in Seq(Seq(Byte)) /\ signals \in Seq(Signal) /\ Len(packets) = 0
    BY <1>1, EmptySeq
  <1>3. DOMAIN SignalsOf(packets, Len(packets)) = {}
    BY <1>2 DEF SignalsOf
  <1> QED
    BY <1>1, <1>2, <1>3, EnumerateNone DEF AlignInv

LEMMA AlignKept ==
    ASSUME AlignInv, wired' = wired, packets' = packets, signals' = signals,
           wired => m_buffer' = m_buffer /\ (feeding => feeding')
    PROVE  AlignInv'
  <1>1. \A k \in 1..Len(packets') : Transport!ValidatePacket(packets'[k])
    BY DEF AlignInv
  <1>2. packets' \in Seq(Seq(Byte)) /\ signals' \in Seq(Signal)
    BY DEF AlignInv
  <1>3. wired' =>
          \/ m_buffer' = <<>> /\ Enumerates(signals', SignalsOf(packets', Len(packets')))
          \/ /\ feeding' /\ packets' # <<>>
             /\ m_buffer' = packets'[Len(packets')]
             /\ Enumerates(signals', SignalsOf(packets', Len(packets') - 1))
    BY DEF AlignInv
  <1> QED
    BY <1>1, <1>2, <1>3 DEF AlignInv, Enumerates, SignalsOf, Transport!ValidatePacket, Transport!HasHeader,
          Transport!PacketSize, Transport!Header, Transport!CalculateChecksum

(* The subscriber is called: the packet goes into the parser's buffer.     *)
LEMMA AlignExtract ==
    ASSUME TypeOK, AlignInv, Extract PROVE AlignInv'
  <1>1. PICK i \in 1..Len(receive_buffer) :
          /\ Transport!ExtractPacket(i)
          /\ IF Transport!IsForwarded(Transport!PacketAt(i))
             THEN Parser!FeedData(Transport!PacketAt(i)) ELSE UNCHANGED parser
    BY DEF Extract
  <1>2. PICK p : p = Transport!PacketAt(i)
    OBVIOUS
  <1>3. ~feeding /\ wired' = wired
    BY DEF Extract, radio
  <1>4. CASE ~Transport!IsForwarded(p)
    <2>1. packets' = packets /\ m_buffer' = m_buffer /\ signals' = signals /\ feeding' = feeding
      BY <1>1, <1>2, <1>4 DEF Transport!ExtractPacket, parser
    <2> QED
      BY <1>3, <2>1, AlignKept
  <1>5. CASE Transport!IsForwarded(p)
    <2>1. packets' = Append(packets, p) /\ m_buffer' = m_buffer \o p /\ signals' = signals /\ feeding'
      BY <1>1, <1>2, <1>5 DEF Transport!ExtractPacket, Parser!FeedData
    <2>2. Transport!FirstHeader(i) /\ Transport!IsComplete(Transport!From(i))
      BY <1>1 DEF Transport!ExtractPacket
    <2>3. p \in Seq(Byte) /\ Transport!ValidatePacket(p)
      BY <1>2, <1>5, <2>2, PacketFacts DEF Transport!IsForwarded
    <2>4. PICK m : m = Len(packets)
      OBVIOUS
    <2>5. packets \in Seq(Seq(Byte)) /\ m \in Nat
      BY <2>4, LenProperties DEF AlignInv
    <2>6. /\ packets' \in Seq(Seq(Byte)) /\ Len(packets') = m + 1 /\ packets'[m + 1] = p
          /\ \A k \in 1..m : packets'[k] = packets[k]
      BY <2>1, <2>3, <2>4, <2>5, AppendProperties
    <2>7. \A k \in 1..Len(packets') : Transport!ValidatePacket(packets'[k])
      <3>1. \A k \in 1..m : Transport!ValidatePacket(packets[k])
        BY <2>4 DEF AlignInv
      <3>2. \A k \in 1..Len(packets') : k \in 1..m \/ k = m + 1
        BY <2>5, <2>6
      <3> QED
        BY <2>3, <2>6, <3>1, <3>2
    <2>8. ASSUME wired
          PROVE  m_buffer' = p /\ Enumerates(signals, SignalsOf(packets', m))
      <3>1. m_buffer = <<>> /\ Enumerates(signals, SignalsOf(packets, m))
        BY <1>3, <2>4, <2>8 DEF AlignInv
      <3>2. m_buffer' = p
        BY <2>1, <2>3, <3>1, ConcatEmptySeq
      <3>3. SignalsOf(packets', m) = SignalsOf(packets, m)
        BY <2>6 DEF SignalsOf
      <3> QED
        BY <3>1, <3>2, <3>3
    <2>9. Len(packets') - 1 = m /\ packets' # <<>>
      BY <2>5, <2>6, EmptySeq
    <2>10. signals' \in Seq(Signal)
      BY <2>1 DEF AlignInv
    <2>11. wired' => /\ feeding' /\ packets' # <<>> /\ m_buffer' = packets'[Len(packets')]
                     /\ Enumerates(signals', SignalsOf(packets', Len(packets') - 1))
      BY <1>3, <2>1, <2>6, <2>8, <2>9
    <2> QED
      BY <2>6, <2>7, <2>10, <2>11 DEF AlignInv, Enumerates, SignalsOf, Transport!ValidatePacket,
            Transport!HasHeader, Transport!PacketSize, Transport!Header, Transport!CalculateChecksum
  <1> QED
    BY <1>4, <1>5

(* A frame of the parser is the packet it was fed with.                    *)
LEMMA AlignCut ==
    ASSUME TypeOK, AlignInv, Parser!CutFrame, UNCHANGED <<radio, transport>> PROVE AlignInv'
  <1>1. PICK size : size = Parser!FrameSize(m_buffer[3])
    OBVIOUS
  <1>2. PICK frame : frame = SubSeq(m_buffer, 1, size)
    OBVIOUS
  <1>3. /\ size \in 4..Len(m_buffer) /\ size = m_buffer[3] + 4
        /\ frame \in Seq(Byte) /\ Len(frame) = size /\ Parser!Skip(frame) = size
        /\ \A j \in 1..size : frame[j] = m_buffer[j]
    BY <1>1, <1>2, FrameFacts DEF Parser!CutFrame
  <1>4. /\ m_buffer' = SubSeq(m_buffer, size + 1, Len(m_buffer)) /\ feeding /\ feeding' = feeding
        /\ signals' = IF Parser!IsValidFrame(frame) THEN Append(signals, Parser!ParseFrame(frame)) ELSE signals
        /\ packets' = packets /\ wired' = wired
    BY <1>1, <1>2, <1>3 DEF Parser!CutFrame, radio, transport
  <1>5. /\ signals' \in Seq(Signal) /\ packets' \in Seq(Seq(Byte))
        /\ \A k \in 1..Len(packets') : Transport!ValidatePacket(packets'[k])
    <2>1. Parser!ParseFrame(frame) \in Signal /\ signals \in Seq(Signal)
      BY <1>3 DEF Signal, AlignInv
    <2> QED
      BY <1>4, <2>1, AppendProperties DEF AlignInv
  <1>6. ASSUME wired
        PROVE  m_buffer' = <<>> /\ Enumerates(signals', SignalsOf(packets', Len(packets')))
    <2>1. PICK m : m = Len(packets)
      OBVIOUS
    <2>2. m_buffer # <<>>
      BY <1>3, EmptySeq
    <2>3. /\ packets # <<>> /\ m_buffer = packets[m]
          /\ Enumerates(signals, SignalsOf(packets, m - 1))
      BY <1>6, <2>1, <2>2 DEF AlignInv
    <2>4. m \in Nat \ {0}
      BY <2>1, <2>3, LenProperties, EmptySeq DEF AlignInv
    <2>5. Transport!ValidatePacket(m_buffer)
      BY <2>1, <2>3, <2>4 DEF AlignInv
    <2>6. Len(m_buffer) = size /\ m_buffer[Len(m_buffer)] = Transport!CalculateChecksum(m_buffer)
      BY <1>3, <2>5 DEF Transport!ValidatePacket, Transport!PacketSize
    <2>7. frame = m_buffer
      BY <1>3, <2>6, SeqEqual, TypeFacts
    <2>8. m_buffer' = <<>>
      BY <1>3, <1>4, <2>6, TypeFacts, SubSeqProperties
    <2>9. Parser!IsValidFrame(frame) <=> m_buffer[3] <= 8
      <3>1. m_buffer[3] \in Nat /\ Parser!FrameSize(m_buffer[3]) = size /\ size >= 4
        BY <1>1, <1>3, FrameFacts DEF Parser!CutFrame
      <3>2. Transport!CalculateChecksum(m_buffer) = Parser!CalculateChecksum(m_buffer)
        BY SameChecksum
      <3> QED
        BY <2>6, <2>7, <3>1, <3>2 DEF Parser!IsValidFrame
    <2> DEFINE old == SignalsOf(packets, m - 1)
               item == SignalsOf(packets, m)
    <2>10. IsFiniteSet(DOMAIN old) /\ DOMAIN old \subseteq 1..(m - 1)
      <3>1. DOMAIN old \subseteq 1..(m - 1)
        BY DEF SignalsOf
      <3>2. IsFiniteSet(1..(m - 1))
        BY <2>4, FS_Interval
      <3> QED
        BY <3>1, <3>2, FS_Subset
    <2>11. CASE m_buffer[3] <= 8
      <3>1. DOMAIN item = DOMAIN old \cup {m} /\ item[m] = Parser!ParseFrame(frame)
        BY <2>3, <2>4, <2>7, <2>11 DEF SignalsOf
      <3>2. DOMAIN old \subseteq Nat /\ \A j \in DOMAIN old : j < m /\ item[j] = old[j]
        BY <2>4, <2>10 DEF SignalsOf
      <3>3. signals \in Seq(Signal) /\ item[m] \in Signal
        BY <1>3, <3>1 DEF AlignInv, Signal
      <3> HIDE DEF old, item
      <3>4. Enumerates(Append(signals, item[m]), item)
        BY <2>3, <2>4, <2>10, <3>1, <3>2, <3>3, EnumerateOneMore DEF old
      <3> QED
        BY <1>4, <2>1, <2>8, <2>9, <2>11, <3>1, <3>4 DEF item
    <2>12. CASE ~(m_buffer[3] <= 8)
      <3>1. item = old
        BY <2>3, <2>4, <2>12 DEF SignalsOf
      <3> QED
        BY <1>4, <2>1, <2>3, <2>8, <2>9, <2>12, <3>1
    <2> QED
      BY <2>11, <2>12
  <1> QED
    BY <1>4, <1>5, <1>6 DEF AlignInv, Enumerates, SignalsOf, Transport!ValidatePacket,
          Transport!HasHeader, Transport!PacketSize, Transport!Header, Transport!CalculateChecksum

LEMMA AlignNext == TypeOK /\ AlignInv /\ [Next]_vars => AlignInv'
  <1> SUFFICES ASSUME TypeOK, AlignInv, [Next]_vars PROVE AlignInv'
    OBVIOUS
  <1>1. wired' = wired
    BY SentNext
  <1>2. CASE Extract
    BY <1>2, AlignExtract
  <1>3. CASE Parse
    <2>1. CASE Parser!CutFrame
      BY <1>3, <2>1, AlignCut DEF Parse
    <2>2. CASE Parser!FinishFeeding
      <3>1. m_buffer' = m_buffer /\ signals' = signals /\ packets' = packets /\ ~Parser!HasFrame
        BY <1>3, <2>2 DEF Parse, Parser!FinishFeeding, transport
      <3>2. ASSUME wired PROVE m_buffer = <<>> /\ Enumerates(signals, SignalsOf(packets, Len(packets)))
        <4>1. SUFFICES ASSUME packets # <<>>, m_buffer = packets[Len(packets)] PROVE FALSE
          BY <3>2 DEF AlignInv
        <4>2. Len(packets) \in 1..Len(packets)
          BY <4>1, LenProperties, EmptySeq DEF AlignInv
        <4>3. Transport!ValidatePacket(m_buffer)
          BY <4>1, <4>2 DEF AlignInv
        <4>4. Len(m_buffer) >= 4 /\ Len(m_buffer) = m_buffer[3] + 4
          BY <4>3 DEF Transport!ValidatePacket, Transport!PacketSize
        <4>5. m_buffer[3] \in Nat
          BY <4>4, TypeFacts
        <4> QED
          BY <3>1, <4>4, <4>5 DEF Parser!HasFrame, Parser!FrameSize
      <3>3. \A k \in 1..Len(packets') : Transport!ValidatePacket(packets'[k])
        BY <3>1 DEF AlignInv
      <3>4. packets' \in Seq(Seq(Byte)) /\ signals' \in Seq(Signal)
        BY <3>1 DEF AlignInv
      <3>5. wired' => m_buffer' = <<>> /\ Enumerates(signals', SignalsOf(packets', Len(packets')))
        BY <1>1, <3>1, <3>2
      <3> QED
        BY <3>3, <3>4, <3>5 DEF AlignInv, Enumerates, SignalsOf, Transport!ValidatePacket,
              Transport!HasHeader, Transport!PacketSize, Transport!Header, Transport!CalculateChecksum
    <2> QED
      BY <1>3, <2>1, <2>2 DEF Parse
  <1>4. CASE Subscribe \/ Insert \/ FinishExtracting \/ Disconnected
    BY <1>1, <1>4, AlignKept DEF Subscribe, Insert, FinishExtracting, Disconnected,
          Transport!SubscribeToNotifications, Transport!Insert, Transport!FinishExtracting,
          Transport!ClearCallback, parser
  <1>5. CASE Notification
    <2>1. packets' = packets /\ signals' = signals /\ (wired => UNCHANGED parser)
      BY <1>5 DEF Notification, Transport!ProcessIncomingData, Parser!FeedData, transport, parser
    <2> QED
      BY <1>1, <2>1, AlignKept DEF parser
  <1>6. CASE LinkLost
    <2>1. packets' = packets /\ signals' = signals /\ (wired => UNCHANGED parser)
      BY <1>6 DEF LinkLost, Transport!ClearReceiveBuffer, Parser!ClearBuffer, parser
    <2> QED
      BY <1>1, <2>1, AlignKept DEF parser
  <1>7. CASE UNCHANGED vars
    BY <1>1, <1>7, AlignKept DEF vars, transport, parser
  <1> QED
    BY <1>2, <1>3, <1>4, <1>5, <1>6, <1>7 DEF Next

(* The parser behind the transport stays aligned with its packets, for     *)
(* every conversation, noise, wrong checksums and losses included: what    *)
(* the transport forwards, the parser always takes as one frame            *)
(* (TeslaBLETransport.cpp:109-131, TeslaSignalParser.cpp:42-113).          *)
THEOREM ParserStaysAligned == Spec => []StaysAligned
  <1>1. AlignInv => StaysAligned
    <2> SUFFICES ASSUME AlignInv, wired, ~feeding
                 PROVE  /\ m_buffer = <<>>
                        /\ Enumerates(signals, [k \in {n \in DOMAIN packets : packets[n][3] <= 8} |->
                                                  Parser!ParseFrame(packets[k])])
      BY DEF StaysAligned
    <2>1. DOMAIN packets = 1..Len(packets)
      BY LenProperties DEF AlignInv
    <2> QED
      BY <2>1 DEF AlignInv, SignalsOf
  <1>2. Spec => [](TypeOK /\ AlignInv)
    BY TypeInit, TypeNext, AlignInit, AlignNext, PTL DEF Spec
  <1> QED
    BY <1>1, <1>2, PTL

-----------------------------------------------------------------------------
(* Reassembly without noise.  What is buffered is always a part of the     *)
(* stream that begins at the end of a piece, and that piece number k       *)
(* carries the argument: a complete packet at the front of the buffer is   *)
(* piece k + 1, and cutting it out leaves what follows it; a loss hits the *)
(* pieces behind k that were sent in part or as a whole, and the scanner   *)
(* goes on behind them.  The same holds of the transport's buffer, with    *)
(* the data that are about to be inserted, and of the parser's.            *)
Part(c, i) == SubSeq(c.bytes, EndOf(c, i - 1) + 1, EndOf(c, i))

\* No noise in conversation c.
Framed(c) == \A i \in 1..Len(c.ends) : IsFramed(Part(c, i))

\* buffer is what has come of c since the end of piece k, with at bytes sent
\* and the pieces lost cut.
Holds(c, buffer, k, at, lost) ==
    /\ k \in 0..Len(c.ends)
    /\ EndOf(c, k) + Len(buffer) = at
    /\ \A j \in 1..Len(buffer) : buffer[j] = c.bytes[EndOf(c, k) + j]
    /\ lost \subseteq 1..k

\* A packet, or a frame, that is not at the front of buffer as a whole.
Partial(buffer) == Len(buffer) < 4 \/ Len(buffer) < buffer[3] + 4

Good(c, k, lost) == {i \in 1..k : i \notin lost /\ Transport!ValidatePacket(Part(c, i))}

LEMMA SameStream ==
    /\ \A i : End(i) = EndOf(stream, i) /\ Piece(i) = Part(stream, i)
    /\ NoNoise <=> Framed(stream)
  BY DEF End, EndOf, Piece, Part, NoNoise, Framed, Pieces

LEMMA PartFacts ==
    ASSUME NEW c \in Conversations, NEW k \in Nat, k < Len(c.ends)
    PROVE  /\ EndOf(c, k) \in Nat /\ EndOf(c, k + 1) \in Nat /\ EndOf(c, k) < EndOf(c, k + 1)
           /\ Part(c, k + 1) \in Seq(Byte)
           /\ Len(Part(c, k + 1)) = EndOf(c, k + 1) - EndOf(c, k)
           /\ \A j \in 1..(EndOf(c, k + 1) - EndOf(c, k)) : Part(c, k + 1)[j] = c.bytes[EndOf(c, k) + j]
  <1>1. k \in 0..Len(c.ends) /\ k + 1 \in 0..Len(c.ends) /\ (k + 1) - 1 = k
    BY EndFacts
  <1>2. PICK from, to : from = EndOf(c, k) /\ to = EndOf(c, k + 1)
    OBVIOUS
  <1>3. from \in Nat /\ to \in Nat /\ from < to /\ to <= Len(c.bytes) /\ c.bytes \in Seq(Byte)
    BY <1>1, <1>2, EndFacts
  <1>4. Part(c, k + 1) = SubSeq(c.bytes, from + 1, to)
    BY <1>1, <1>2 DEF Part
  <1>5. PICK first : first = from + 1
    OBVIOUS
  <1>6. first \in Nat /\ 0 < first /\ first <= to + 1 /\ to - first + 1 = to - from
        /\ \A j \in 1..(to - from) : j + first - 1 = from + j
    BY <1>3, <1>5
  <1>7. /\ SubSeq(c.bytes, first, to) \in Seq(Byte) /\ Len(SubSeq(c.bytes, first, to)) = to - from
        /\ \A j \in 1..(to - from) : SubSeq(c.bytes, first, to)[j] = c.bytes[from + j]
    BY <1>3, <1>6, Slice
  <1> QED
    BY <1>2, <1>3, <1>4, <1>5, <1>7

(* The buffer and the piece that its bytes are the beginning of.           *)
LEMMA FrontFacts ==
    ASSUME NEW c \in Conversations, Framed(c), NEW b \in Seq(Byte), NEW k, NEW at \in Nat, NEW lost,
           Holds(c, b, k, at, lost), k < Len(c.ends)
    PROVE  /\ k \in Nat /\ k + 1 \in 1..Len(c.ends) /\ EndOf(c, k) \in Nat /\ EndOf(c, k + 1) \in Nat
           /\ EndOf(c, k + 1) >= EndOf(c, k) + 4
           /\ Part(c, k + 1) \in Seq(Byte)
           /\ IsFramed(Part(c, k + 1))
           /\ Len(b) \in Nat
           /\ Len(b) >= 2 => Transport!HasHeader(b)
           /\ Len(b) >= 3 => b[3] \in Nat /\ b[3] = Part(c, k + 1)[3]
                               /\ EndOf(c, k + 1) = EndOf(c, k) + b[3] + 4
           /\ \A j \in 1..Len(b) : j <= EndOf(c, k + 1) - EndOf(c, k) => b[j] = Part(c, k + 1)[j]
  <1>1. k \in Nat /\ k + 1 \in 1..Len(c.ends)
    BY EndFacts DEF Holds
  <1>2. PICK from, to, p : from = EndOf(c, k) /\ to = EndOf(c, k + 1) /\ p = Part(c, k + 1)
    OBVIOUS
  <1>3. /\ from \in Nat /\ to \in Nat /\ from < to
        /\ p \in Seq(Byte) /\ Len(p) = to - from
        /\ \A j \in 1..(to - from) : p[j] = c.bytes[from + j]
    BY <1>1, <1>2, PartFacts
  <1>4. IsFramed(p)
    BY <1>1, <1>2 DEF Framed
  <1>5. Len(p) >= 4 /\ Len(p) = p[3] + 4 /\ p[1] = Transport!Header[1] /\ p[2] = Transport!Header[2]
    BY <1>4 DEF IsFramed, Transport!HasHeader, Transport!PacketSize
  <1>6. Len(b) \in Nat /\ \A j \in 1..Len(b) : b[j] \in Nat /\ b[j] = c.bytes[from + j]
    BY <1>2, Bytes DEF Holds
  <1>7. ASSUME NEW j \in 1..Len(b), j <= to - from PROVE b[j] = p[j]
    <2>1. from \in Nat /\ to \in Nat /\ Len(b) \in Nat
      BY <1>3, <1>6
    <2>2. j \in 1..(to - from)
      BY <1>7, <2>1
    <2> QED
      BY <1>3, <1>6, <2>2
  <1>8. Len(b) >= 2 => b[1] = p[1] /\ b[2] = p[2]
    <2>1. 1 <= to - from /\ 2 <= to - from
      BY <1>3, <1>5
    <2>2. Len(b) >= 2 => 1 \in 1..Len(b) /\ 2 \in 1..Len(b)
      BY <1>6
    <2> QED
      BY <1>7, <2>1, <2>2
  <1>9. Len(b) >= 3 => b[3] \in Nat /\ b[3] = p[3] /\ to = from + b[3] + 4
    <2>1. 3 <= to - from
      BY <1>3, <1>5
    <2>2. Len(b) >= 3 => 3 \in 1..Len(b)
      BY <1>6
    <2>3. Len(b) >= 3 => b[3] \in Nat /\ b[3] = p[3]
      BY <1>6, <1>7, <2>1, <2>2
    <2>4. to - from = p[3] + 4
      BY <1>3, <1>5
    <2>5. ASSUME Len(b) >= 3 PROVE to = from + b[3] + 4
      <3>1. to - from = b[3] + 4 /\ b[3] \in Nat
        BY <2>3, <2>4, <2>5
      <3>2. from \in Nat /\ to \in Nat
        BY <1>3
      <3> QED
        BY <3>1, <3>2
    <2> QED
      BY <2>3, <2>5
  <1>10. Len(b) >= 2 => Transport!HasHeader(b)
    BY <1>5, <1>8 DEF Transport!HasHeader
  <1> QED
    BY <1>1, <1>2, <1>3, <1>4, <1>5, <1>6, <1>7, <1>9, <1>10

LEMMA MoreToCome ==
    ASSUME NEW c \in Conversations, NEW b \in Seq(Byte), NEW k, NEW at \in Nat, NEW lost,
           Holds(c, b, k, at, lost), at <= Len(c.bytes), b # <<>>
    PROVE  k < Len(c.ends)
  <1>1. Len(b) \in Nat \ {0}
    BY LenProperties, EmptySeq
  <1>2. k \in 0..Len(c.ends) /\ EndOf(c, k) + Len(b) = at
    BY DEF Holds
  <1>3. EndOf(c, k) \in Nat /\ EndOf(c, Len(c.ends)) = Len(c.bytes) /\ Len(c.bytes) \in Nat /\ Len(c.ends) \in Nat
    BY <1>2, EndFacts
  <1>4. k # Len(c.ends)
    BY <1>1, <1>2, <1>3
  <1> QED
    BY <1>2, <1>3, <1>4

(* A whole packet at the front of the buffer is the next piece.            *)
LEMMA NextPiece ==
    ASSUME NEW c \in Conversations, Framed(c), NEW b \in Seq(Byte), NEW k, NEW at \in Nat, NEW lost,
           Holds(c, b, k, at, lost), at <= Len(c.bytes), ~Partial(b)
    PROVE  /\ k \in Nat /\ k + 1 \in 1..Len(c.ends)
           /\ SubSeq(b, 1, b[3] + 4) = Part(c, k + 1)
           /\ Holds(c, SubSeq(b, b[3] + 5, Len(b)), k + 1, at, lost)
  <1>1. Len(b) \in Nat
    BY LenProperties
  <1>2. Len(b) >= 4 /\ b # <<>>
    BY <1>1, EmptySeq DEF Partial
  <1>3. k < Len(c.ends)
    BY <1>2, MoreToCome
  <1>4. PICK from, to, p, size :
          from = EndOf(c, k) /\ to = EndOf(c, k + 1) /\ p = Part(c, k + 1) /\ size = b[3] + 4
    OBVIOUS
  <1>5. /\ k \in Nat /\ k + 1 \in 1..Len(c.ends) /\ from \in Nat /\ to \in Nat
        /\ p \in Seq(Byte) /\ b[3] \in Nat /\ to = from + size
        /\ \A j \in 1..Len(b) : j <= to - from => b[j] = p[j]
    <2>1. Len(b) >= 3
      BY <1>1, <1>2
    <2>2. /\ k \in Nat /\ k + 1 \in 1..Len(c.ends) /\ from \in Nat /\ to \in Nat /\ p \in Seq(Byte)
          /\ \A j \in 1..Len(b) : j <= to - from => b[j] = p[j]
      BY <1>3, <1>4, FrontFacts
    <2>3. b[3] \in Nat /\ to = from + b[3] + 4
      BY <1>3, <1>4, <2>1, FrontFacts
    <2>4. to = from + size
      BY <1>4, <2>2, <2>3
    <2> QED
      BY <2>2, <2>3, <2>4
  <1>6. Len(p) = to - from
    BY <1>3, <1>4, <1>5, PartFacts
  <1>7. size \in 4..Len(b) /\ to - from = size
    <2>1. from \in Nat /\ to \in Nat /\ b[3] \in Nat /\ to = from + size /\ size = b[3] + 4
      BY <1>4, <1>5
    <2>2. ~(Len(b) < b[3] + 4)
      BY DEF Partial
    <2> QED
      BY <1>1, <2>1, <2>2
  <1>8. /\ SubSeq(b, 1, size) \in Seq(Byte) /\ Len(SubSeq(b, 1, size)) = size
        /\ \A j \in 1..size : SubSeq(b, 1, size)[j] = b[j]
    BY <1>1, <1>7, Slice
  <1>9. SubSeq(b, 1, size) = p
    <2>1. \A j \in 1..size : SubSeq(b, 1, size)[j] = p[j]
      BY <1>1, <1>5, <1>7, <1>8
    <2> QED
      BY <1>5, <1>6, <1>7, <1>8, <2>1, SeqEqual
  <1>10. PICK first, rest : first = size + 1 /\ rest = SubSeq(b, first, Len(b))
    OBVIOUS
  <1>11. first \in Nat /\ 0 < first /\ first <= Len(b) + 1 /\ first = b[3] + 5
    <2>1. b[3] \in Nat /\ size = b[3] + 4
      BY <1>4, <1>5
    <2> QED
      BY <1>1, <1>7, <1>10, <2>1
  <1>12. /\ Len(rest) = Len(b) - first + 1
         /\ \A j \in 1..(Len(b) - first + 1) : rest[j] = b[j + first - 1] /\ j + first - 1 \in 1..Len(b)
    BY <1>1, <1>10, <1>11, Slice
  <1>13. from + Len(b) = at /\ lost \subseteq 1..k
         /\ \A j \in 1..Len(b) : b[j] = c.bytes[from + j]
    BY <1>4 DEF Holds
  <1>14. to + Len(rest) = at
    <2>1. Len(rest) = Len(b) - first + 1 /\ first = size + 1 /\ from + Len(b) = at
      BY <1>10, <1>12, <1>13
    <2>2. from \in Nat /\ size \in Nat /\ to = from + size
      BY <1>1, <1>5, <1>7
    <2> QED
      BY <1>1, <2>1, <2>2
  <1>15. ASSUME NEW j \in 1..Len(rest) PROVE rest[j] = c.bytes[to + j]
    <2>1. rest[j] = c.bytes[from + (j + first - 1)]
      BY <1>12, <1>13
    <2>2. from + (j + first - 1) = to + j
      BY <1>1, <1>5, <1>7, <1>10, <1>12
    <2> QED
      BY <2>1, <2>2
  <1>16. Holds(c, rest, k + 1, at, lost)
    <2>1. lost \subseteq 1..(k + 1) /\ k + 1 \in 0..Len(c.ends)
      BY <1>5, <1>13
    <2> QED
      BY <1>4, <1>14, <1>15, <2>1 DEF Holds
  <1> QED
    BY <1>4, <1>5, <1>9, <1>10, <1>11, <1>16

(* With less than a packet buffered, what has been sent ends in piece k + 1.*)
LEMMA Settled ==
    ASSUME NEW c \in Conversations, Framed(c), NEW b \in Seq(Byte), NEW k, NEW at \in Nat, NEW lost,
           Holds(c, b, k, at, lost), at <= Len(c.bytes), Partial(b)
    PROVE  /\ \A i \in 1..Len(c.ends) : EndOf(c, i) <= at <=> i <= k
           /\ \A i \in 1..Len(c.ends) : EndOf(c, i - 1) < at /\ at < EndOf(c, i) => i = k + 1
  <1>1. /\ k \in 0..Len(c.ends) /\ EndOf(c, k) + Len(b) = at /\ Len(b) \in Nat /\ Len(c.ends) \in Nat
        /\ k \in Nat
    BY LenProperties, EndFacts DEF Holds
  <1>2. \A i \in 0..Len(c.ends) : EndOf(c, i) \in Nat
    BY EndFacts
  <1>3. \A i, j \in 0..Len(c.ends) : i < j => EndOf(c, i) < EndOf(c, j)
    BY EndFacts
  <1>4. ASSUME k < Len(c.ends) PROVE at < EndOf(c, k + 1)
    <2>1. /\ EndOf(c, k) \in Nat /\ EndOf(c, k + 1) \in Nat /\ EndOf(c, k + 1) >= EndOf(c, k) + 4
          /\ Len(b) >= 3 => b[3] \in Nat /\ EndOf(c, k + 1) = EndOf(c, k) + b[3] + 4
      BY <1>4, FrontFacts
    <2>2. CASE Len(b) < 4
      BY <1>1, <2>1, <2>2
    <2>3. CASE Len(b) >= 4
      BY <1>1, <2>1, <2>3 DEF Partial
    <2> QED
      BY <1>1, <2>2, <2>3
  <1>5. ASSUME NEW i \in 0..Len(c.ends), i <= k PROVE EndOf(c, i) <= at
    <2>1. i = k \/ i < k
      BY <1>1, <1>5
    <2>2. EndOf(c, i) <= EndOf(c, k)
      BY <1>1, <1>2, <1>3, <2>1
    <2> QED
      BY <1>1, <1>2, <2>2
  <1>6. ASSUME NEW i \in 0..Len(c.ends), k < i PROVE at < EndOf(c, i)
    <2>1. k < Len(c.ends) /\ k + 1 \in 0..Len(c.ends) /\ (i = k + 1 \/ k + 1 < i)
      BY <1>1, <1>6
    <2>2. at < EndOf(c, k + 1) /\ EndOf(c, k + 1) <= EndOf(c, i)
      BY <1>2, <1>3, <1>4, <2>1
    <2> QED
      BY <1>2, <2>1, <2>2
  <1>7. ASSUME NEW i \in 1..Len(c.ends) PROVE EndOf(c, i) <= at <=> i <= k
    <2>1. i \in 0..Len(c.ends) /\ (i <= k \/ k < i)
      BY <1>1
    <2>2. EndOf(c, i) \in Nat
      BY <1>2, <2>1
    <2>3. i <= k => EndOf(c, i) <= at
      BY <1>5, <2>1
    <2>4. k < i => at < EndOf(c, i)
      BY <1>6, <2>1
    <2> QED
      BY <1>1, <2>1, <2>2, <2>3, <2>4
  <1>8. ASSUME NEW i \in 1..Len(c.ends), EndOf(c, i - 1) < at, at < EndOf(c, i) PROVE i = k + 1
    <2>1. i \in 0..Len(c.ends) /\ i - 1 \in 0..Len(c.ends)
      BY <1>1
    <2>2. EndOf(c, i) \in Nat /\ EndOf(c, i - 1) \in Nat
      BY <1>2, <2>1
    <2>3. ~(i <= k)
      BY <1>5, <1>8, <2>1, <2>2
    <2>4. ~(k < i - 1)
      BY <1>6, <1>8, <2>1, <2>2
    <2> QED
      BY <1>1, <2>1, <2>3, <2>4
  <1> QED
    BY <1>7, <1>8

(* A notification puts the next bytes of the stream into the buffer.       *)
LEMMA HoldsMore ==
    ASSUME NEW c \in Conversations, NEW b \in Seq(Byte), NEW k, NEW at \in Nat, NEW lost,
           Holds(c, b, k, at, lost), NEW n \in Nat, NEW chunk \in Seq(Byte), Len(chunk) = n,
           \A j \in 1..n : chunk[j] = c.bytes[j + at]
    PROVE  Holds(c, b \o chunk, k, at + n, lost)
  <1>1. PICK from, len : from = EndOf(c, k) /\ len = Len(b)
    OBVIOUS
  <1>2. /\ k \in 0..Len(c.ends) /\ lost \subseteq 1..k /\ from + len = at
        /\ \A j \in 1..len : b[j] = c.bytes[from + j]
    BY <1>1 DEF Holds
  <1>3. from \in Nat /\ len \in Nat
    BY <1>1, <1>2, EndFacts, LenProperties
  <1>4. /\ Len(b \o chunk) = len + n
        /\ \A i \in 1..(len + n) : (b \o chunk)[i] = IF i <= len THEN b[i] ELSE chunk[i - len]
    BY <1>1, ConcatProperties
  <1>5. ASSUME NEW i \in 1..(len + n) PROVE (b \o chunk)[i] = c.bytes[from + i]
    <2>1. CASE i <= len
      BY <1>2, <1>3, <1>4, <2>1
    <2>2. CASE ~(i <= len)
      <3>1. i - len \in 1..n /\ (i - len) + at = from + i
        BY <1>2, <1>3, <2>2
      <3> QED
        BY <1>4, <2>2, <3>1
    <2> QED
      BY <2>1, <2>2
  <1>6. from + (len + n) = at + n
    BY <1>2, <1>3
  <1> QED
    BY <1>1, <1>2, <1>4, <1>5, <1>6 DEF Holds

LEMMA GoodFinite ==
    ASSUME NEW c, NEW k \in Nat, NEW lost
    PROVE  IsFiniteSet(Good(c, k, lost)) /\ Good(c, k, lost) \subseteq 1..k
  <1>1. Good(c, k, lost) \subseteq 1..k
    BY DEF Good
  <1>2. IsFiniteSet(1..k)
    BY FS_Interval
  <1> QED
    BY <1>1, <1>2, FS_Subset

(* What cutting out a packet, and losing one, means for the good pieces.   *)
LEMMA GoodNext ==
    ASSUME NEW c, NEW k \in Nat, NEW lost, lost \subseteq 1..k
    PROVE  Good(c, k + 1, lost) = IF Transport!ValidatePacket(Part(c, k + 1))
                                  THEN Good(c, k, lost) \cup {k + 1} ELSE Good(c, k, lost)
  <1>1. k + 1 \notin 1..k /\ k + 1 \notin lost /\ 1..(k + 1) = (1..k) \cup {k + 1}
    OBVIOUS
  <1> QED
    BY <1>1 DEF Good

LEMMA HoldsNothing ==
    ASSUME NEW c \in Conversations, NEW k \in 0..Len(c.ends), NEW lost, lost \subseteq 1..k
    PROVE  Holds(c, <<>>, k, EndOf(c, k), lost)
  <1>1. EndOf(c, k) \in Nat /\ Len(<<>>) = 0
    BY EndFacts, EmptySeq
  <1>2. EndOf(c, k) + Len(<<>>) = EndOf(c, k) /\ 1..Len(<<>>) = {}
    BY <1>1
  <1> QED
    BY <1>2 DEF Holds

(* Where piece i begins.                                                   *)
StartOf(c, i) == EndOf(c, i - 1)

LEMMA StartFacts ==
    ASSUME NEW c \in Conversations, NEW i \in 1..Len(c.ends)
    PROVE  /\ StartOf(c, i) \in Nat /\ EndOf(c, i) \in Nat
           /\ \A j \in 0..Len(c.ends) : j < i => EndOf(c, j) <= StartOf(c, i)
           /\ \A j \in 0..Len(c.ends) : i <= j => StartOf(c, i) < EndOf(c, j)
  <1>1. /\ Len(c.ends) \in Nat
        /\ \A j \in 0..Len(c.ends) : EndOf(c, j) \in Nat
        /\ \A j, l \in 0..Len(c.ends) : j < l => EndOf(c, j) < EndOf(c, l)
    BY EndFacts
  <1>2. PICK p \in 0..Len(c.ends) : p = i - 1 /\ StartOf(c, i) = EndOf(c, p)
    BY <1>1 DEF StartOf
  <1>3. ASSUME NEW j \in 0..Len(c.ends), j < i PROVE EndOf(c, j) <= StartOf(c, i)
    <2>1. j < p \/ j = p
      BY <1>1, <1>2, <1>3
    <2> QED
      BY <1>1, <1>2, <2>1
  <1>4. ASSUME NEW j \in 0..Len(c.ends), i <= j PROVE StartOf(c, i) < EndOf(c, j)
    <2>1. p < j
      BY <1>1, <1>2, <1>4
    <2> QED
      BY <1>1, <1>2, <2>1
  <1> QED
    BY <1>1, <1>2, <1>3, <1>4

(* When the pieces up to k have been looked through, and the link goes     *)
(* after byte `at`, in piece m, a loss hits the pieces of which some byte  *)
(* behind `from` is not looked through yet and some byte has been sent.    *)
IsHit(c, k, from, at, m, lost, hit) ==
    /\ k \in 0..Len(c.ends) /\ m \in 1..Len(c.ends) /\ at \in Nat /\ from \in Int
    /\ lost \subseteq 1..k
    /\ EndOf(c, k) <= from /\ from <= at
    /\ \A i \in 1..Len(c.ends) : k < i => from < EndOf(c, i)
    /\ StartOf(c, m) < at /\ at <= EndOf(c, m)
    /\ \A i : i \in hit <=> i \in 1..Len(c.ends) /\ from < EndOf(c, i) /\ StartOf(c, i) < at

(* These are the pieces from k + 1 to m.                                   *)
LEMMA LossCuts ==
    ASSUME NEW c \in Conversations, NEW k, NEW from, NEW at, NEW m, NEW lost, NEW hit,
           IsHit(c, k, from, at, m, lost, hit)
    PROVE  /\ m \in 0..Len(c.ends) /\ Holds(c, <<>>, m, EndOf(c, m), lost \cup hit)
           /\ Good(c, m, lost \cup hit) = Good(c, k, lost)
  <1> USE DEF IsHit
  <1>1. /\ Len(c.ends) \in Nat /\ k \in Nat /\ m \in 0..Len(c.ends)
        /\ \A i \in 0..Len(c.ends) : EndOf(c, i) \in Nat
        /\ \A i, j \in 0..Len(c.ends) : i < j => EndOf(c, i) < EndOf(c, j)
    BY EndFacts
  <1>2. k <= m
    <2>1. EndOf(c, k) <= EndOf(c, m)
      BY <1>1
    <2> QED
      BY <1>1, <2>1
  <1>3. ASSUME NEW i \in hit PROVE i \in Nat /\ k < i /\ i <= m
    <2>1. i \in 1..Len(c.ends) /\ i \in 0..Len(c.ends) /\ from < EndOf(c, i) /\ StartOf(c, i) < at
      BY <1>1
    <2>2. EndOf(c, k) \in Nat /\ EndOf(c, i) \in Nat /\ StartOf(c, i) \in Nat /\ EndOf(c, m) \in Nat
      BY <1>1, <2>1, StartFacts
    <2>3. ~(EndOf(c, i) <= EndOf(c, k)) /\ ~(EndOf(c, m) <= StartOf(c, i))
      BY <2>1, <2>2
    <2>4. ~(i < k) /\ i # k
      BY <1>1, <2>1, <2>2, <2>3
    <2>5. ~(m < i)
      BY <1>1, <2>1, <2>3, StartFacts
    <2> QED
      BY <1>1, <2>1, <2>4, <2>5
  <1>4. ASSUME NEW i \in 1..m, k < i PROVE i \in hit
    <2>1. i \in 1..Len(c.ends) /\ i \in 0..Len(c.ends) /\ i <= m
      BY <1>1
    <2>2. from < EndOf(c, i)
      BY <1>4, <2>1
    <2>3. StartOf(c, i) < at
      <3>1. StartOf(c, i) \in Nat /\ StartOf(c, m) \in Nat /\ EndOf(c, i) \in Nat
        BY <2>1, StartFacts
      <3>2. CASE i = m
        BY <3>2
      <3>3. CASE i < m
        <4>1. StartOf(c, i) < EndOf(c, i)
          BY <1>1, <2>1, StartFacts
        <4>2. EndOf(c, i) <= StartOf(c, m)
          BY <2>1, <3>3, StartFacts
        <4> QED
          BY <3>1, <4>1, <4>2
      <3> QED
        BY <1>1, <2>1, <3>2, <3>3
    <2> QED
      BY <2>1, <2>2, <2>3
  <1>5. lost \cup hit \subseteq 1..m
    <2>1. \A i \in hit : i \in 1..m
      BY <1>1, <1>3
    <2>2. 1..k \subseteq 1..m
      BY <1>1, <1>2
    <2> QED
      BY <2>1, <2>2
  <1>6. Holds(c, <<>>, m, EndOf(c, m), lost \cup hit)
    BY <1>1, <1>5, HoldsNothing
  <1>7. \A i : i \in 1..m /\ i \notin hit <=> i \in 1..k
    BY <1>1, <1>2, <1>3, <1>4
  <1> QED
    BY <1>1, <1>6, <1>7 DEF Good

-----------------------------------------------------------------------------
(* The transport: what is in its buffer, or about to be inserted, and what *)
(* the subscriber got.                                                     *)
Pending == receive_buffer \o incoming

DeliverInv ==
    wired /\ Framed(stream) /\ ~straddled =>
        /\ ~notification_callback \/ disconnecting => Pending = <<>>
        /\ \E k \in 0..Len(stream.ends) :
              /\ Holds(stream, Pending, k, sent, cut)
              /\ Enumerates(packets, [i \in Good(stream, k, cut) |-> Part(stream, i)])

LEMMA PendingInserted ==
    ASSUME TypeOK, processing # "insert" PROVE incoming = <<>> /\ Pending = receive_buffer
  BY ConcatEmptySeq DEF TypeOK, Pending

LEMMA EmptyPending == <<>> \o <<>> = <<>>
  <1>1. <<>> \in Seq(Byte)
    BY EmptySeq
  <1> QED
    BY <1>1, ConcatEmptySeq

LEMMA NothingGood == ASSUME NEW c PROVE Good(c, 0, {}) = {}
  BY DEF Good

LEMMA DeliverInit == Init => DeliverInv
  <1> SUFFICES ASSUME Init PROVE DeliverInv
    OBVIOUS
  <1>1. /\ stream \in Conversations /\ receive_buffer = <<>> /\ packets = <<>> /\ sent = 0 /\ cut = {}
        /\ incoming = <<>>
    BY DEF Init, Transport!TInit
  <1>2. 0 \in 0..Len(stream.ends) /\ EndOf(stream, 0) = 0
    BY <1>1, EndFacts DEF EndOf
  <1>3. Pending = <<>>
    BY <1>1, EmptyPending DEF Pending
  <1>4. Holds(stream, Pending, 0, sent, cut)
    BY <1>1, <1>2, <1>3, HoldsNothing
  <1>5. Enumerates(packets, [i \in Good(stream, 0, cut) |-> Part(stream, i)])
    BY <1>1, NothingGood, EnumerateNone
  <1> QED
    BY <1>2, <1>3, <1>4, <1>5 DEF DeliverInv

LEMMA DeliverKept ==
    ASSUME DeliverInv, UNCHANGED radio, packets' = packets, Pending' = Pending,
           ~notification_callback' \/ disconnecting' => ~notification_callback \/ disconnecting
    PROVE  DeliverInv'
  BY DEF DeliverInv, radio

(* Without noise a packet is always found at the front of the buffer.      *)
LEMMA HeaderInFront ==
    ASSUME TypeOK, Framed(stream), NEW k, Holds(stream, receive_buffer, k, sent, cut),
           Len(receive_buffer) >= 2
    PROVE  /\ Transport!IsHeader(1)
           /\ \A i \in 1..Len(receive_buffer) : Transport!FirstHeader(i) => i = 1
           /\ Transport!From(1) = receive_buffer
  <1>1. receive_buffer # <<>> /\ Len(receive_buffer) \in Nat
    BY TypeFacts, EmptySeq
  <1>2. stream \in Conversations
    BY DEF TypeOK
  <1>3. k < Len(stream.ends)
    BY <1>1, <1>2, TypeFacts, MoreToCome
  <1>4. Transport!HasHeader(receive_buffer)
    BY <1>2, <1>3, TypeFacts, FrontFacts
  <1>5. Transport!IsHeader(1)
    BY <1>4 DEF Transport!HasHeader, Transport!IsHeader
  <1>6. ASSUME NEW i \in 1..Len(receive_buffer), Transport!FirstHeader(i) PROVE i = 1
    <2>1. ~(1 \in 1..(i - 1))
      BY <1>5, <1>6 DEF Transport!FirstHeader
    <2> QED
      BY <1>1, <2>1
  <1>7. Transport!From(1) = receive_buffer
    BY TypeFacts, SubSeqFull DEF Transport!From
  <1> QED
    BY <1>5, <1>6, <1>7

LEMMA DeliverExtract ==
    ASSUME TypeOK, AlignInv, DeliverInv, Extract PROVE DeliverInv'
  <1>1. PICK h \in 1..Len(receive_buffer) : Transport!ExtractPacket(h)
    BY DEF Extract
  <1>2. /\ stream' = stream /\ wired' = wired /\ sent' = sent /\ cut' = cut /\ straddled' = straddled
        /\ stream \in Conversations
    BY DEF Extract, radio, TypeOK
  <1>5. /\ Len(receive_buffer) >= 4 /\ Transport!FirstHeader(h)
        /\ Transport!IsComplete(Transport!From(h))
        /\ processing # "insert" /\ incoming' = incoming
        /\ notification_callback' = notification_callback /\ disconnecting' = disconnecting
    BY <1>1 DEF Transport!ExtractPacket
  <1>0. Pending = receive_buffer /\ Pending' = receive_buffer' /\ receive_buffer # <<>>
    <2>1. receive_buffer' \in Seq(Byte)
      BY <1>1, <1>5, PacketFacts DEF Transport!ExtractPacket
    <2> QED
      BY <1>5, <2>1, PendingInserted, ConcatEmptySeq, EmptySeq DEF Pending
  <1>3. SUFFICES ASSUME wired, Framed(stream), ~straddled
                 PROVE  /\ notification_callback' /\ ~disconnecting'
                        /\ \E k \in 0..Len(stream.ends) :
                              /\ Holds(stream, receive_buffer', k, sent, cut)
                              /\ Enumerates(packets', [i \in Good(stream, k, cut) |-> Part(stream, i)])
    BY <1>0, <1>2 DEF DeliverInv
  <1>4. PICK k \in 0..Len(stream.ends) :
          /\ Holds(stream, receive_buffer, k, sent, cut)
          /\ Enumerates(packets, [i \in Good(stream, k, cut) |-> Part(stream, i)])
    BY <1>0, <1>3 DEF DeliverInv
  <1>6. h = 1 /\ Transport!From(1) = receive_buffer
    BY <1>3, <1>4, <1>5, TypeFacts, HeaderInFront
  <1>7. notification_callback /\ ~disconnecting
    BY <1>0, <1>3 DEF DeliverInv
  <1>8. PICK p : p = Part(stream, k + 1)
    OBVIOUS
  <1>9. /\ ~Partial(receive_buffer) /\ receive_buffer[3] \in Nat
        /\ Transport!PacketSize(receive_buffer) = receive_buffer[3] + 4
    <2>1. receive_buffer[3] \in Nat /\ Len(receive_buffer) \in Nat
      BY <1>5, TypeFacts
    <2> QED
      BY <1>5, <1>6, <2>1 DEF Partial, Transport!IsComplete, Transport!PacketSize
  <1>10. /\ k \in Nat /\ k + 1 \in 1..Len(stream.ends)
         /\ SubSeq(receive_buffer, 1, receive_buffer[3] + 4) = p
         /\ Holds(stream, SubSeq(receive_buffer, receive_buffer[3] + 5, Len(receive_buffer)), k + 1, sent, cut)
    BY <1>2, <1>3, <1>4, <1>8, <1>9, TypeFacts, NextPiece
  <1>11. Transport!PacketAt(h) = p
    BY <1>6, <1>9, <1>10 DEF Transport!PacketAt
  <1>12. /\ receive_buffer' = SubSeq(receive_buffer, receive_buffer[3] + 5, Len(receive_buffer))
         /\ packets' = IF Transport!ValidatePacket(p) THEN Append(packets, p) ELSE packets
    <2>1. (receive_buffer[3] + 4) + 1 = receive_buffer[3] + 5
      BY <1>9
    <2> QED
      BY <1>1, <1>6, <1>7, <1>9, <1>11, <2>1 DEF Transport!ExtractPacket, Transport!IsForwarded
  <1> DEFINE old == [i \in Good(stream, k, cut) |-> Part(stream, i)]
             item == [i \in Good(stream, k + 1, cut) |-> Part(stream, i)]
  <1>13. cut \subseteq 1..k
    BY <1>4 DEF Holds
  <1>14. /\ IsFiniteSet(DOMAIN old) /\ DOMAIN old \subseteq 1..k
         /\ DOMAIN item = IF Transport!ValidatePacket(p) THEN DOMAIN old \cup {k + 1} ELSE DOMAIN old
    <2>1. IsFiniteSet(Good(stream, k, cut)) /\ Good(stream, k, cut) \subseteq 1..k
      BY <1>10, GoodFinite
    <2>2. Good(stream, k + 1, cut) = IF Transport!ValidatePacket(p)
                                     THEN Good(stream, k, cut) \cup {k + 1} ELSE Good(stream, k, cut)
      BY <1>8, <1>10, <1>13, GoodNext
    <2> QED
      BY <2>1, <2>2
  <1>15. Enumerates(packets', item)
    <2>1. CASE Transport!ValidatePacket(p)
      <3>1. DOMAIN item = DOMAIN old \cup {k + 1} /\ item[k + 1] = p
        BY <1>8, <1>14, <2>1
      <3>2. DOMAIN old \subseteq Nat /\ k + 1 \in Nat /\ \A j \in DOMAIN old : j < k + 1 /\ item[j] = old[j]
        BY <1>10, <1>14
      <3>3. packets \in Seq(Seq(Byte)) /\ p \in Seq(Byte)
        <4>1. k < Len(stream.ends)
          BY <1>2, <1>10, EndFacts
        <4> QED
          BY <1>2, <1>8, <1>10, <4>1, PartFacts DEF AlignInv
      <3> HIDE DEF old, item
      <3>4. Enumerates(Append(packets, item[k + 1]), item)
        BY <1>4, <1>14, <3>1, <3>2, <3>3, EnumerateOneMore DEF old
      <3> QED
        BY <1>12, <2>1, <3>1, <3>4
    <2>2. CASE ~Transport!ValidatePacket(p)
      <3>1. item = old
        BY <1>14, <2>2
      <3> QED
        BY <1>4, <1>12, <2>2, <3>1
    <2> QED
      BY <2>1, <2>2
  <1>16. k + 1 \in 0..Len(stream.ends)
    BY <1>10
  <1> QED
    BY <1>5, <1>7, <1>10, <1>12, <1>15, <1>16

LEMMA DeliverNotification ==
    ASSUME TypeOK, DeliverInv, Notification PROVE DeliverInv'
  <1>1. PICK n \in ChunkSizes :
          LET chunk == SubSeq(stream.bytes, sent + 1, sent + n) IN
          /\ sent + n <= Len(stream.bytes) /\ sent' = sent + n
          /\ wired => Transport!ProcessIncomingData(chunk)
    BY DEF Notification
  <1>2. PICK chunk : chunk = SubSeq(stream.bytes, sent + 1, sent + n)
    OBVIOUS
  <1>3. n \in Nat /\ chunk \in Seq(Byte) /\ Len(chunk) = n /\ \A j \in 1..n : chunk[j] = stream.bytes[j + sent]
    BY <1>1, <1>2, ChunkFacts
  <1>4. /\ stream' = stream /\ wired' = wired /\ cut' = cut /\ sent' = sent + n /\ straddled' = straddled
        /\ stream \in Conversations /\ notification_callback /\ ~disconnecting /\ processing = "idle"
    BY <1>1 DEF Notification, AtRest, TypeOK
  <1>5. SUFFICES ASSUME wired, Framed(stream), ~straddled
                 PROVE  /\ notification_callback' /\ ~disconnecting'
                        /\ \E k \in 0..Len(stream.ends) :
                              /\ Holds(stream, Pending', k, sent + n, cut)
                              /\ Enumerates(packets', [i \in Good(stream, k, cut) |-> Part(stream, i)])
    BY <1>4 DEF DeliverInv
  <1>6. /\ Pending' = receive_buffer \o chunk /\ packets' = packets /\ Pending = receive_buffer
        /\ notification_callback' = notification_callback /\ disconnecting' = disconnecting
    BY <1>1, <1>2, <1>4, <1>5, PendingInserted DEF Transport!ProcessIncomingData, Pending
  <1>7. PICK k \in 0..Len(stream.ends) :
          /\ Holds(stream, receive_buffer, k, sent, cut)
          /\ Enumerates(packets, [i \in Good(stream, k, cut) |-> Part(stream, i)])
    BY <1>5, <1>6 DEF DeliverInv
  <1>8. Holds(stream, receive_buffer \o chunk, k, sent + n, cut)
    BY <1>3, <1>4, <1>7, TypeFacts, HoldsMore
  <1> QED
    BY <1>4, <1>6, <1>7, <1>8

LEMMA DeliverFinish ==
    ASSUME TypeOK, DeliverInv, FinishExtracting PROVE DeliverInv'
  <1>1. /\ UNCHANGED radio /\ packets' = packets
        /\ incoming' = incoming /\ processing # "insert" /\ stream \in Conversations
        /\ notification_callback' = notification_callback /\ disconnecting' = disconnecting
    BY DEF FinishExtracting, Transport!FinishExtracting, TypeOK
  <1>2. ASSUME wired, Framed(stream), ~straddled PROVE receive_buffer' = receive_buffer
    <2>1. PICK k \in 0..Len(stream.ends) : Holds(stream, receive_buffer, k, sent, cut)
      BY <1>1, <1>2, PendingInserted DEF DeliverInv
    <2>2. CASE Len(receive_buffer) < 4
      BY <2>2, TypeFacts DEF FinishExtracting, Transport!FinishExtracting, Transport!TooShort,
            Transport!NoHeader, Transport!Incomplete
    <2>3. CASE Len(receive_buffer) >= 4
      <3>1. /\ Transport!IsHeader(1) /\ Transport!From(1) = receive_buffer
            /\ \A i \in 1..Len(receive_buffer) : Transport!FirstHeader(i) => i = 1
        BY <1>2, <2>1, <2>3, TypeFacts, HeaderInFront
      <3>2. ~Transport!NoHeader /\ ~Transport!TooShort
        BY <2>3, <3>1, TypeFacts DEF Transport!NoHeader, Transport!TooShort
      <3>3. Transport!Incomplete
        BY <3>2 DEF FinishExtracting, Transport!FinishExtracting
      <3> QED
        BY <3>1, <3>3 DEF Transport!Incomplete
    <2> QED
      BY <2>2, <2>3, TypeFacts
  <1>3. CASE wired /\ Framed(stream) /\ ~straddled
    <2>1. Pending' = Pending
      BY <1>1, <1>2, <1>3 DEF Pending
    <2> QED
      BY <1>1, <2>1, DeliverKept
  <1>4. CASE ~(wired /\ Framed(stream) /\ ~straddled)
    BY <1>1, <1>4 DEF DeliverInv, radio
  <1> QED
    BY <1>3, <1>4

(* A fragment without noise is the beginning of a packet.                  *)
LEMMA FragmentIsPartial ==
    ASSUME TypeOK, AtRest PROVE Partial(receive_buffer)
  <1>1. Transport!FragmentOnly /\ Len(receive_buffer) \in Nat
    BY TypeFacts DEF TypeOK, AtRest
  <1> QED
    BY <1>1 DEF Transport!FragmentOnly, Transport!PacketSize, Partial

(* A loss clears everything that is pending, and the pieces in it are hit. *)
LEMMA DeliverLoss ==
    ASSUME TypeOK, DeliverInv, LinkLost PROVE DeliverInv'
  <1>1. /\ stream' = stream /\ wired' = wired /\ packets' = packets /\ receive_buffer' = <<>>
        /\ incoming' = incoming /\ straddled' = (straddled \/ incoming # <<>>)
        /\ cut' = cut \cup Hit(Unread)
    BY DEF LinkLost, Transport!ClearReceiveBuffer
  <1>2. SUFFICES ASSUME wired, Framed(stream), ~straddled, incoming = <<>>
                 PROVE  /\ Pending' = <<>>
                        /\ \E k \in 0..Len(stream.ends) :
                              /\ Holds(stream, Pending', k, sent', cut')
                              /\ Enumerates(packets', [i \in Good(stream, k, cut') |-> Part(stream, i)])
    BY <1>1 DEF DeliverInv
  <1>3. Pending' = <<>> /\ Pending = receive_buffer
    BY <1>1, <1>2, EmptyPending, ConcatEmptySeq, TypeFacts DEF Pending
  <1>4. PICK k \in 0..Len(stream.ends) :
          /\ Holds(stream, receive_buffer, k, sent, cut)
          /\ Enumerates(packets, [i \in Good(stream, k, cut) |-> Part(stream, i)])
    BY <1>2, <1>3 DEF DeliverInv
  <1>5. PICK m \in Pieces : End(m - 1) < sent /\ sent <= End(m) /\ sent' = End(m)
    BY DEF LinkLost
  <1>6. /\ stream \in Conversations /\ Pieces = 1..Len(stream.ends) /\ sent \in Nat
        /\ Len(receive_buffer) \in Nat /\ Unread \in Nat /\ Unread = Len(receive_buffer)
    BY <1>2, TypeFacts, EmptySeq DEF TypeOK, Pieces, Unread
  <1>7. EndOf(stream, k) \in Nat /\ EndOf(stream, k) = sent - Unread /\ cut \subseteq 1..k /\ k \in Nat
    BY <1>4, <1>6, EndFacts DEF Holds
  <1>8. \A i \in 1..Len(stream.ends) : k < i => sent - Unread < EndOf(stream, i)
    BY <1>6, <1>7, EndFacts
  <1>9. Hit(Unread) = {i \in 1..Len(stream.ends) : sent - Unread < EndOf(stream, i) /\ EndOf(stream, i - 1) < sent}
    BY <1>6, SameStream DEF Hit
  <1>10. /\ m \in 0..Len(stream.ends) /\ Holds(stream, <<>>, m, sent', cut')
         /\ Good(stream, m, cut') = Good(stream, k, cut)
    <2>1. StartOf(stream, m) < sent /\ sent <= EndOf(stream, m) /\ sent' = EndOf(stream, m)
      BY <1>5, SameStream DEF StartOf
    <2>2. EndOf(stream, k) <= sent - Unread
      BY <1>7
    <2>3. PICK hit : hit = Hit(Unread)
      OBVIOUS
    <2>6. \A i : i \in hit <=> i \in 1..Len(stream.ends) /\ sent - Unread < EndOf(stream, i)
                                                         /\ StartOf(stream, i) < sent
      BY <1>9, <2>3 DEF StartOf
    <2>7. sent - Unread \in Int /\ sent - Unread <= sent
      BY <1>6
    <2>8. cut \subseteq 1..k
      BY <1>7
    <2>4. m \in 1..Len(stream.ends)
      BY <1>5, <1>6
    <2>5. /\ m \in 0..Len(stream.ends) /\ Holds(stream, <<>>, m, EndOf(stream, m), cut \cup hit)
          /\ Good(stream, m, cut \cup hit) = Good(stream, k, cut)
      <3>1. IsHit(stream, k, sent - Unread, sent, m, cut, hit)
        BY <1>6, <1>8, <2>1, <2>2, <2>4, <2>6, <2>7, <2>8 DEF IsHit
      <3> QED
        BY <1>6, <3>1, LossCuts
    <2> QED
      BY <1>1, <2>1, <2>3, <2>5
  <1> QED
    BY <1>1, <1>3, <1>4, <1>10

(* At rest the pieces received as a whole are those up to k.               *)
LEMMA GoodAtRest ==
    ASSUME TypeOK, Framed(stream), NEW b \in Seq(Byte), NEW k \in 0..Len(stream.ends),
           Holds(stream, b, k, sent, cut), Partial(b)
    PROVE  GoodPackets = Good(stream, k, cut)
  <1>1. \A i \in 1..Len(stream.ends) : EndOf(stream, i) <= sent <=> i <= k
    BY TypeFacts, Settled DEF TypeOK
  <1>2. Pieces = 1..Len(stream.ends) /\ Len(stream.ends) \in Nat /\ k \in 0..Len(stream.ends)
    BY TypeFacts DEF Pieces
  <1>3. \A i : i \in 1..k <=> i \in 1..Len(stream.ends) /\ i <= k
    BY <1>2
  <1> QED
    BY <1>1, <1>2, <1>3, SameStream DEF GoodPackets, Good

LEMMA DeliverNext == TypeOK /\ AlignInv /\ DeliverInv /\ [Next]_vars => DeliverInv'
  <1> SUFFICES ASSUME TypeOK, AlignInv, DeliverInv, [Next]_vars PROVE DeliverInv'
    OBVIOUS
  <1>1. CASE Extract
    BY <1>1, DeliverExtract
  <1>2. CASE Notification
    BY <1>2, DeliverNotification
  <1>3. CASE FinishExtracting
    BY <1>3, DeliverFinish
  <1>4. CASE LinkLost
    BY <1>4, DeliverLoss
  <1>5. CASE Insert
    <2>1. receive_buffer' = Pending /\ incoming' = <<>>
      BY <1>5 DEF Insert, Transport!Insert, Pending
    <2>2. Pending \in Seq(Byte)
      BY TypeFacts, ConcatProperties DEF Pending
    <2>3. Pending' = Pending
      BY <2>1, <2>2, ConcatEmptySeq DEF Pending
    <2> QED
      BY <1>5, <2>3, DeliverKept DEF Insert, Transport!Insert
  <1>6. CASE Subscribe
    BY <1>6, DeliverKept DEF Subscribe, Transport!SubscribeToNotifications, Pending
  <1>7. CASE Disconnected
    BY <1>7, DeliverKept DEF Disconnected, Transport!ClearCallback, Pending
  <1>8. CASE Parse \/ UNCHANGED vars
    BY <1>8, DeliverKept DEF Parse, vars, transport, Pending
  <1> QED
    BY <1>1, <1>2, <1>3, <1>4, <1>5, <1>6, <1>7, <1>8 DEF Next

(* Every packet with a right checksum is delivered, in order and once,     *)
(* however the radio cuts the stream, behind packets with a wrong checksum *)
(* and behind losses of the link, also those that come between the two     *)
(* locks of processIncomingData, unless they hit the packet; as long as    *)
(* there is no noise in the stream and no disconnect fell between the      *)
(* arrival of data and their insertion (TeslaBLETransport.cpp:31-209).     *)
THEOREM LossesStayLocal == Spec => [](NoNoise => LossIsLocal)
  <1>1. TypeOK /\ DeliverInv => (NoNoise => LossIsLocal)
    <2> SUFFICES ASSUME TypeOK, DeliverInv, NoNoise, wired, AtRest, ~straddled
                 PROVE  /\ \A i \in GoodPackets : i \in GoodPackets
                        /\ Enumerates(packets, [i \in GoodPackets |-> Piece(i)])
      BY DEF LossIsLocal, DeliversPackets
    <2>1. PICK k \in 0..Len(stream.ends) :
            /\ Holds(stream, receive_buffer, k, sent, cut)
            /\ Enumerates(packets, [i \in Good(stream, k, cut) |-> Part(stream, i)])
      BY SameStream, PendingInserted DEF DeliverInv, AtRest
    <2>2. Partial(receive_buffer)
      BY FragmentIsPartial
    <2>3. GoodPackets = Good(stream, k, cut)
      BY <2>1, <2>2, SameStream, TypeFacts, GoodAtRest
    <2>4. [i \in GoodPackets |-> Piece(i)] = [i \in Good(stream, k, cut) |-> Part(stream, i)]
      BY <2>3, SameStream
    <2> QED
      BY <2>1, <2>4
  <1>2. Spec => [](TypeOK /\ AlignInv /\ DeliverInv)
    BY TypeInit, TypeNext, AlignInit, AlignNext, DeliverInit, DeliverNext, PTL DEF Spec
  <1> QED
    BY <1>1, <1>2, PTL

-----------------------------------------------------------------------------
(* The parser fed with notifications.                                      *)
Short(c, k, lost) == {i \in Good(c, k, lost) : Part(c, i)[3] <= 8}

FrameInv ==
    ~wired =>
        /\ processing = "idle"
        /\ ~feeding => ~Parser!HasFrame
        /\ Framed(stream) =>
              \E k \in 0..Len(stream.ends) :
                  /\ Holds(stream, m_buffer, k, sent, cut)
                  /\ Enumerates(signals, [i \in Short(stream, k, cut) |-> Parser!ParseFrame(Part(stream, i))])

LEMMA FrameInit == Init => FrameInv
  <1> SUFFICES ASSUME Init PROVE FrameInv
    OBVIOUS
  <1>1. /\ stream \in Conversations /\ m_buffer = <<>> /\ signals = <<>> /\ sent = 0 /\ cut = {}
        /\ processing = "idle"
    BY DEF Init, Transport!TInit, Parser!PInit
  <1>2. 0 \in 0..Len(stream.ends) /\ EndOf(stream, 0) = 0
    BY <1>1, EndFacts DEF EndOf
  <1>3. Holds(stream, m_buffer, 0, sent, cut)
    BY <1>1, <1>2, HoldsNothing
  <1>4. Enumerates(signals, [i \in Short(stream, 0, cut) |-> Parser!ParseFrame(Part(stream, i))])
    <2> DEFINE item == [i \in Short(stream, 0, cut) |-> Parser!ParseFrame(Part(stream, i))]
    <2>1. Short(stream, 0, cut) = {}
      BY <1>1, NothingGood DEF Short
    <2>2. DOMAIN item = {}
      BY <2>1
    <2> HIDE DEF item
    <2>3. Enumerates(<<>>, item)
      BY <2>2, EnumerateNone
    <2> QED
      BY <1>1, <2>3 DEF item
  <1>5. ~Parser!HasFrame
    BY <1>1, EmptySeq DEF Parser!HasFrame
  <1> QED
    BY <1>1, <1>2, <1>3, <1>4, <1>5 DEF FrameInv

LEMMA FrameKept ==
    ASSUME FrameInv, stream' = stream, wired' = wired, cut' = cut, sent' = sent,
           m_buffer' = m_buffer, signals' = signals, feeding' = feeding,
           processing = "idle" => processing' = "idle"
    PROVE  FrameInv'
  BY DEF FrameInv, Parser!HasFrame, Parser!FrameSize

LEMMA NoFrameIsPartial == ASSUME TypeOK PROVE Parser!HasFrame <=> ~Partial(m_buffer)
  <1>1. Len(m_buffer) \in Nat /\ (Len(m_buffer) >= 3 => m_buffer[3] \in Nat)
    BY TypeFacts
  <1> QED
    BY <1>1 DEF Parser!HasFrame, Parser!FrameSize, Partial

(* For the parser a packet is a frame; a frame has at most eight data bytes.*)
LEMMA FrameIsPacket ==
    ASSUME NEW p \in Seq(Byte), IsFramed(p)
    PROVE  Parser!IsValidFrame(p) <=> Transport!ValidatePacket(p) /\ p[3] <= 8
  <1>1. Len(p) >= 4 /\ Transport!HasHeader(p) /\ Len(p) = p[3] + 4
    BY DEF IsFramed, Transport!PacketSize
  <1>2. p[3] \in Nat
    BY <1>1, Bytes
  <1>3. Transport!CalculateChecksum(p) = Parser!CalculateChecksum(p)
    BY SameChecksum
  <1>4. Parser!FrameSize(p[3]) = Len(p) /\ Transport!PacketSize(p) = Len(p)
    BY <1>1, <1>2 DEF Parser!FrameSize, Transport!PacketSize
  <1> QED
    BY <1>1, <1>3, <1>4 DEF Parser!IsValidFrame, Transport!ValidatePacket

LEMMA FrameCut ==
    ASSUME TypeOK, AlignInv, FrameInv, Parser!CutFrame, UNCHANGED <<radio, transport>> PROVE FrameInv'
  <1>1. PICK size, frame : size = Parser!FrameSize(m_buffer[3]) /\ frame = SubSeq(m_buffer, 1, size)
    OBVIOUS
  <1>2. /\ stream' = stream /\ wired' = wired /\ sent' = sent /\ cut' = cut /\ processing' = processing
        /\ stream \in Conversations /\ feeding /\ feeding' = feeding /\ Parser!HasFrame
    BY DEF Parser!CutFrame, radio, transport, TypeOK
  <1>3. SUFFICES ASSUME ~wired, Framed(stream)
                 PROVE  \E k \in 0..Len(stream.ends) :
                           /\ Holds(stream, m_buffer', k, sent, cut)
                           /\ Enumerates(signals', [i \in Short(stream, k, cut) |->
                                                       Parser!ParseFrame(Part(stream, i))])
    BY <1>2 DEF FrameInv
  <1>4. PICK k \in 0..Len(stream.ends) :
          /\ Holds(stream, m_buffer, k, sent, cut)
          /\ Enumerates(signals, [i \in Short(stream, k, cut) |-> Parser!ParseFrame(Part(stream, i))])
    BY <1>3 DEF FrameInv
  <1>5. /\ m_buffer[3] \in Nat /\ size = m_buffer[3] + 4 /\ size + 1 = m_buffer[3] + 5
        /\ frame \in Seq(Byte) /\ Parser!Skip(frame) = size
    BY <1>1, <1>2, FrameFacts
  <1>6. ~Partial(m_buffer)
    BY <1>2, NoFrameIsPartial
  <1>7. /\ k \in Nat /\ k + 1 \in 1..Len(stream.ends)
        /\ SubSeq(m_buffer, 1, m_buffer[3] + 4) = Part(stream, k + 1)
        /\ Holds(stream, SubSeq(m_buffer, m_buffer[3] + 5, Len(m_buffer)), k + 1, sent, cut)
    BY <1>2, <1>3, <1>4, <1>6, TypeFacts, NextPiece
  <1>8. frame = Part(stream, k + 1) /\ IsFramed(frame)
    BY <1>1, <1>3, <1>5, <1>7 DEF Framed
  <1>9. /\ m_buffer' = SubSeq(m_buffer, m_buffer[3] + 5, Len(m_buffer))
        /\ signals' = IF Parser!IsValidFrame(frame)
                      THEN Append(signals, Parser!ParseFrame(frame)) ELSE signals
    BY <1>1, <1>5 DEF Parser!CutFrame
  <1> DEFINE old == [i \in Short(stream, k, cut) |-> Parser!ParseFrame(Part(stream, i))]
             item == [i \in Short(stream, k + 1, cut) |-> Parser!ParseFrame(Part(stream, i))]
  <1>10. cut \subseteq 1..k
    BY <1>4 DEF Holds
  <1>11. IsFiniteSet(DOMAIN old) /\ DOMAIN old \subseteq 1..k
    <2>1. IsFiniteSet(Good(stream, k, cut)) /\ Good(stream, k, cut) \subseteq 1..k
      BY <1>7, GoodFinite
    <2>2. DOMAIN old \subseteq Good(stream, k, cut)
      BY DEF Short
    <2> QED
      BY <2>1, <2>2, FS_Subset
  <1>12. DOMAIN item = IF Parser!IsValidFrame(frame) THEN DOMAIN old \cup {k + 1} ELSE DOMAIN old
    <2>1. Good(stream, k + 1, cut) = IF Transport!ValidatePacket(frame)
                                     THEN Good(stream, k, cut) \cup {k + 1} ELSE Good(stream, k, cut)
      BY <1>7, <1>8, <1>10, GoodNext
    <2>2. Parser!IsValidFrame(frame) <=> Transport!ValidatePacket(frame) /\ frame[3] <= 8
      BY <1>5, <1>8, FrameIsPacket
    <2> QED
      BY <1>8, <2>1, <2>2 DEF Short
  <1>13. Enumerates(signals', item)
    <2>1. CASE Parser!IsValidFrame(frame)
      <3>1. DOMAIN item = DOMAIN old \cup {k + 1} /\ item[k + 1] = Parser!ParseFrame(frame)
        BY <1>8, <1>12, <2>1
      <3>2. DOMAIN old \subseteq Nat /\ k + 1 \in Nat /\ \A j \in DOMAIN old : j < k + 1 /\ item[j] = old[j]
        <4>1. DOMAIN old \subseteq DOMAIN item
          BY <3>1
        <4> QED
          BY <1>7, <1>11, <4>1
      <3>3. signals \in Seq(Signal) /\ item[k + 1] \in Signal
        BY <1>5, <3>1 DEF AlignInv, Signal
      <3> HIDE DEF old, item
      <3>4. Enumerates(Append(signals, item[k + 1]), item)
        BY <1>4, <1>11, <3>1, <3>2, <3>3, EnumerateOneMore DEF old
      <3> QED
        BY <1>9, <2>1, <3>1, <3>4
    <2>2. CASE ~Parser!IsValidFrame(frame)
      <3>1. item = old
        BY <1>12, <2>2
      <3> QED
        BY <1>4, <1>9, <2>2, <3>1
    <2> QED
      BY <2>1, <2>2
  <1>14. k + 1 \in 0..Len(stream.ends)
    BY <1>7
  <1> QED
    BY <1>7, <1>9, <1>13, <1>14

LEMMA FrameNotification ==
    ASSUME TypeOK, FrameInv, Notification PROVE FrameInv'
  <1>1. PICK n \in ChunkSizes :
          LET chunk == SubSeq(stream.bytes, sent + 1, sent + n) IN
          /\ sent + n <= Len(stream.bytes) /\ sent' = sent + n
          /\ ~wired => Parser!FeedData(chunk) /\ UNCHANGED transport
    BY DEF Notification
  <1>2. PICK chunk : chunk = SubSeq(stream.bytes, sent + 1, sent + n)
    OBVIOUS
  <1>3. n \in Nat /\ chunk \in Seq(Byte) /\ Len(chunk) = n /\ \A j \in 1..n : chunk[j] = stream.bytes[j + sent]
    BY <1>1, <1>2, ChunkFacts
  <1>4. /\ stream' = stream /\ wired' = wired /\ cut' = cut /\ sent' = sent + n
        /\ stream \in Conversations
    BY <1>1 DEF Notification, TypeOK
  <1>5. SUFFICES ASSUME ~wired
                 PROVE  /\ processing' = "idle" /\ feeding'
                        /\ Framed(stream) =>
                             \E k \in 0..Len(stream.ends) :
                                /\ Holds(stream, m_buffer', k, sent + n, cut)
                                /\ Enumerates(signals', [i \in Short(stream, k, cut) |->
                                                            Parser!ParseFrame(Part(stream, i))])
    BY <1>4 DEF FrameInv
  <1>6. m_buffer' = m_buffer \o chunk /\ signals' = signals /\ feeding' /\ processing' = "idle"
    <2>1. /\ m_buffer' = m_buffer \o chunk /\ signals' = signals /\ feeding' = TRUE
          /\ processing' = processing
      BY <1>1, <1>2, <1>5 DEF Parser!FeedData, transport
    <2>2. processing = "idle"
      BY <1>5 DEF FrameInv
    <2> QED
      BY <2>1, <2>2
  <1>7. SUFFICES ASSUME Framed(stream)
                 PROVE  \E k \in 0..Len(stream.ends) :
                           /\ Holds(stream, m_buffer', k, sent + n, cut)
                           /\ Enumerates(signals', [i \in Short(stream, k, cut) |->
                                                       Parser!ParseFrame(Part(stream, i))])
    BY <1>6
  <1>8. PICK k \in 0..Len(stream.ends) :
          /\ Holds(stream, m_buffer, k, sent, cut)
          /\ Enumerates(signals, [i \in Short(stream, k, cut) |-> Parser!ParseFrame(Part(stream, i))])
    BY <1>5, <1>7 DEF FrameInv
  <1>9. Holds(stream, m_buffer \o chunk, k, sent + n, cut)
    BY <1>3, <1>4, <1>8, TypeFacts, HoldsMore
  <1> QED
    BY <1>6, <1>8, <1>9

LEMMA FrameLoss ==
    ASSUME TypeOK, FrameInv, LinkLost PROVE FrameInv'
  <1>1. /\ stream' = stream /\ wired' = wired /\ processing' = processing /\ ~feeding
        /\ cut' = cut \cup Hit(Unread)
        /\ ~wired => m_buffer' = <<>> /\ signals' = signals
    BY DEF LinkLost, Transport!ClearReceiveBuffer, Parser!ClearBuffer
  <1>2. ASSUME m_buffer' = <<>> PROVE ~Parser!HasFrame'
    BY <1>2, EmptySeq DEF Parser!HasFrame
  <1>3. ASSUME ~wired, Framed(stream)
        PROVE  \E k \in 0..Len(stream.ends) :
                  /\ Holds(stream, m_buffer', k, sent', cut')
                  /\ Enumerates(signals', [i \in Short(stream, k, cut') |-> Parser!ParseFrame(Part(stream, i))])
    <2>1. PICK k \in 0..Len(stream.ends) :
            /\ Holds(stream, m_buffer, k, sent, cut)
            /\ Enumerates(signals, [i \in Short(stream, k, cut) |-> Parser!ParseFrame(Part(stream, i))])
      BY <1>3 DEF FrameInv
    <2>2. Partial(m_buffer)
      BY <1>1, <1>3, NoFrameIsPartial DEF FrameInv
    <2>3. PICK m \in Pieces : End(m - 1) < sent /\ sent <= End(m) /\ sent' = End(m)
      BY DEF LinkLost
    <2>4. /\ m \in 0..Len(stream.ends) /\ Holds(stream, <<>>, m, sent', cut')
          /\ Good(stream, m, cut') = Good(stream, k, cut)
      <3>1. /\ stream \in Conversations /\ Pieces = 1..Len(stream.ends) /\ sent \in Nat
            /\ sent <= Len(stream.bytes) /\ Unread = 0 /\ sent - Unread = sent /\ m_buffer \in Seq(Byte)
        BY <1>3, TypeFacts DEF TypeOK, Pieces, Unread
      <3>2. /\ k \in Nat /\ cut \subseteq 1..k
            /\ \A i \in 1..Len(stream.ends) : EndOf(stream, i) <= sent <=> i <= k
        <4>1. k \in Nat /\ cut \subseteq 1..k
          BY <2>1, <3>1, EndFacts DEF Holds
        <4>2. \A i \in 1..Len(stream.ends) : EndOf(stream, i) <= sent <=> i <= k
          BY <1>3, <2>1, <2>2, <3>1, Settled
        <4> QED
          BY <4>1, <4>2
      <3>3. \A i \in 0..Len(stream.ends) : EndOf(stream, i) \in Nat
        BY <3>1, EndFacts
      <3>4. EndOf(stream, k) <= sent
        BY <2>1, <3>1, <3>3, TypeFacts DEF Holds
      <3>5. \A i \in 1..Len(stream.ends) : k < i => sent < EndOf(stream, i)
        BY <3>1, <3>2, <3>3
      <3>6. Hit(Unread) = {i \in 1..Len(stream.ends) : sent - Unread < EndOf(stream, i)
                                                         /\ EndOf(stream, i - 1) < sent}
        BY <3>1, SameStream DEF Hit
      <3>7. StartOf(stream, m) < sent /\ sent <= EndOf(stream, m) /\ sent' = EndOf(stream, m)
        BY <2>3, SameStream DEF StartOf
      <3>8. PICK hit : hit = Hit(Unread)
        OBVIOUS
      <3>9. m \in 1..Len(stream.ends) /\ sent \in Int /\ sent <= sent
        BY <2>3, <3>1
      <3>10. \A i : i \in hit <=> i \in 1..Len(stream.ends) /\ sent < EndOf(stream, i)
                                                            /\ StartOf(stream, i) < sent
        BY <3>1, <3>6, <3>8 DEF StartOf
      <3>12. cut \subseteq 1..k
        BY <3>2
      <3>11. /\ m \in 0..Len(stream.ends) /\ Holds(stream, <<>>, m, EndOf(stream, m), cut \cup hit)
             /\ Good(stream, m, cut \cup hit) = Good(stream, k, cut)
        <4>1. IsHit(stream, k, sent, sent, m, cut, hit)
          BY <3>1, <3>4, <3>5, <3>7, <3>9, <3>10, <3>12 DEF IsHit
        <4> QED
          BY <3>1, <4>1, LossCuts
      <3> QED
        BY <1>1, <3>7, <3>8, <3>11
    <2>5. Short(stream, m, cut') = Short(stream, k, cut)
      BY <2>4 DEF Short
    <2> QED
      BY <1>1, <1>3, <2>1, <2>4, <2>5
  <1> QED
    BY <1>1, <1>2, <1>3 DEF FrameInv

LEMMA FrameNext == TypeOK /\ AlignInv /\ FrameInv /\ [Next]_vars => FrameInv'
  <1> SUFFICES ASSUME TypeOK, AlignInv, FrameInv, [Next]_vars PROVE FrameInv'
    OBVIOUS
  <1>1. CASE Notification
    BY <1>1, FrameNotification
  <1>2. CASE LinkLost
    BY <1>2, FrameLoss
  <1>3. CASE Parse
    <2>1. CASE Parser!CutFrame
      BY <1>3, <2>1, FrameCut DEF Parse
    <2>2. CASE Parser!FinishFeeding
      <3>1. /\ stream' = stream /\ wired' = wired /\ cut' = cut /\ sent' = sent /\ processing' = processing
            /\ m_buffer' = m_buffer /\ signals' = signals /\ ~Parser!HasFrame
        BY <1>3, <2>2 DEF Parse, Parser!FinishFeeding, radio, transport
      <3>2. ~Parser!HasFrame'
        BY <3>1 DEF Parser!HasFrame, Parser!FrameSize
      <3> QED
        BY <3>1, <3>2 DEF FrameInv
    <2> QED
      BY <1>3, <2>1, <2>2 DEF Parse
  <1>4. CASE Insert \/ Extract \/ FinishExtracting
    <2>1. processing # "idle" /\ wired' = wired
      BY <1>4 DEF Insert, Transport!Insert, Extract, Transport!ExtractPacket, FinishExtracting,
            Transport!FinishExtracting, radio
    <2> QED
      BY <2>1 DEF FrameInv
  <1>5. CASE Subscribe \/ Disconnected
    BY <1>5, FrameKept DEF Subscribe, Transport!SubscribeToNotifications, Disconnected,
          Transport!ClearCallback, radio, parser
  <1>6. CASE UNCHANGED vars
    BY <1>6, FrameKept DEF vars, radio, transport, parser
  <1> QED
    BY <1>1, <1>2, <1>3, <1>4, <1>5, <1>6 DEF Next

(* The parser fed with notifications directly gives the signal of every    *)
(* frame with a right checksum and at most eight data bytes, in order and  *)
(* once, however the radio cuts the stream, behind invalid frames and      *)
(* behind losses of the link, as long as there is no noise                 *)
(* (TeslaSignalParser.cpp:42-86).                                          *)
THEOREM PartialFramesAreFound == Spec => []FindsFrames
  <1>1. TypeOK /\ FrameInv => FindsFrames
    <2> SUFFICES ASSUME TypeOK, FrameInv, ~wired, NoNoise, ~feeding
                 PROVE  Enumerates(signals, [i \in {n \in GoodPackets : Piece(n)[3] <= 8} |->
                                               Parser!ParseFrame(Piece(i))])
      BY DEF FindsFrames
    <2>1. PICK k \in 0..Len(stream.ends) :
            /\ Holds(stream, m_buffer, k, sent, cut)
            /\ Enumerates(signals, [i \in Short(stream, k, cut) |-> Parser!ParseFrame(Part(stream, i))])
      BY SameStream DEF FrameInv
    <2>2. Partial(m_buffer)
      BY NoFrameIsPartial DEF FrameInv
    <2>3. GoodPackets = Good(stream, k, cut)
      BY <2>1, <2>2, SameStream, TypeFacts, GoodAtRest
    <2>4. {n \in GoodPackets : Piece(n)[3] <= 8} = Short(stream, k, cut)
      BY <2>3, SameStream DEF Short
    <2>5. [i \in {n \in GoodPackets : Piece(n)[3] <= 8} |-> Parser!ParseFrame(Piece(i))]
            = [i \in Short(stream, k, cut) |-> Parser!ParseFrame(Part(stream, i))]
      BY <2>4, SameStream
    <2> QED
      BY <2>1, <2>5
  <1>2. Spec => [](TypeOK /\ AlignInv /\ FrameInv)
    BY TypeInit, TypeNext, AlignInit, AlignNext, FrameInit, FrameNext, PTL DEF Spec
  <1> QED
    BY <1>1, <1>2, PTL

=============================================================================
