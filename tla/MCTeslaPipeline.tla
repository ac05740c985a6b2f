---------------------------- MODULE MCTeslaPipeline ----------------------------
EXTENDS TeslaPipeline, SequencesExt

Checked(bytes) == Append(bytes, FoldLeft(+, 0, bytes) % 256)
Packet(payload) == Checked(<<170, 85, Len(payload)>> \o payload)
BadPacket(payload) == Append(<<170, 85, Len(payload)>> \o payload, 7)

Short == Packet(<<90, 101>>)
Empty == Packet(<<>>)
Speed == Packet(<<16, 39, 1, 0, 30, 200>>)
Fast == Packet(<<0, 0, 0, 1>>)
Long == Packet(<<1, 2, 3, 4, 5, 6, 7, 8, 9>>)
HalfHeader == Packet(<<170>>)
Noise == <<1, 2, 3>>
LongNoise == <<9, 85, 170, 1, 2>>

Conversation(pieces) ==
    [bytes |-> FlattenSeq(pieces),
     ends  |-> [i \in DOMAIN pieces |-> Len(FlattenSeq(SubSeq(pieces, 1, i)))]]

(* Packets only, with wrong checksums and with more data than a CAN frame  *)
(* has; then packets with noise before and between them.                   *)
MCConversations == {
    Conversation(<<Short, BadPacket(<<5>>), Speed, Empty>>),
    Conversation(<<HalfHeader, Long, Fast>>),
    Conversation(<<Noise, Speed, Short, Noise, HalfHeader, Empty>>),
    Conversation(<<LongNoise, Short, Noise, Noise, Empty, Speed>>) }
=============================================================================
