------------------------- MODULE MCPacketProcessor --------------------------
\* Streams of a few packets for PacketProcessor.
EXTENDS PacketProcessor

Packet(k, s, c) == [kind |-> k, size |-> s, calls |-> c]
Variable(s) == Packet("variable", s, 1)
Fixed(s) == Packet("fixed", s, 1)
Compressed(s, c) == Packet("compressed", s, c)
Crypted(s) == Packet("crypted", s, 1)

Streams(client, server) ==
  [d \in Sides |-> IF d = "client" THEN client ELSE server]
Silent == [s \in {} |-> Crypted(1)]
Nothing == Streams({}, {})

\* The server alone; every kind of packet, some behind one another.
ServerLength == Streams(0, 18)
ServerPackets ==
  Streams(Silent,
          [s \in {1, 4, 6, 8, 12, 13, 18} |->
             IF s = 1 THEN Variable(3) ELSE IF s = 4 THEN Fixed(2)
             ELSE IF s = 6 THEN Compressed(2, 2) ELSE IF s = 8 THEN Variable(4)
             ELSE IF s = 13 THEN Variable(5) ELSE Fixed(1)])

\* Chunks that end in a compressed packet or between a type and its size are left
\* out, and here those that cut a packet the plugin changes, or the one before it;
\* or these are let in.
BodyEnds == Streams({}, {3, 5, 7, 9, 10, 11, 12, 14, 15, 16, 17, 18})
ChangedEnds == Streams({}, {2, 3, 4, 5, 7, 9, 10, 11, 12, 14, 15, 16, 17, 18})
ServerChanges == Streams({}, {Call(1, 1), Call(4, 1)})

\* The first of these is a case of what the theorems about clean chunks assume.
ASSUME BodyIsClean ==
  (Ends = BodyEnds /\ Modified = ServerChanges) => CleanChunks /\ CleanChanges

\* Both directions, few packets, and chunks that end behind every packet and in
\* each; of two ways to cut the compressed one only the second.
FewLength == Streams(2, 7)
FewPackets ==
  Streams([s \in {1} |-> Crypted(2)],
          [s \in {1, 2, 5} |-> IF s = 1 THEN Fixed(1)
                              ELSE IF s = 2 THEN Variable(3) ELSE Compressed(3, 2)])
FewEnds == Streams(1 .. 2, 1 .. 7 \ {5})
=============================================================================
