---------------------------- MODULE GuiTextProofs ---------------------------
(***************************************************************************)
(* The lengths of the GUI's texts, as functions of the bytes done.         *)
(***************************************************************************)
EXTENDS GuiText, TLAPS

IInv ==
  /\ packetSize \in Nat
  /\ i \in Nat
  /\ i <= packetSize
  /\ packetData = 3 * i + 5 * (i \div 16)
  /\ ascii = i + 5 * (i \div 16)

\* A line ends wherever the number of whole lines grows.
LEMMA LinesAreCounted ==
  ASSUME NEW n \in Nat
  PROVE  5 * ((n + 1) \div 16) = 5 * (n \div 16) + LineEnd(n)
  BY DEF LineEnd

LEMMA LengthsAreKept ==
  ASSUME PacketSizes \subseteq Nat
  PROVE  Spec => []IInv
<1>1. Init => IInv
  BY DEF Init, IInv
<1>2. IInv /\ [Next]_vars => IInv'
  <2> SUFFICES ASSUME IInv, [Next]_vars PROVE IInv'
    OBVIOUS
  <2>1. CASE Byte
    <3>1. 5 * ((i + 1) \div 16) = 5 * (i \div 16) + LineEnd(i)
      BY LinesAreCounted DEF IInv
    <3>2. LineEnd(i) \in Int /\ i \div 16 \in Int /\ (i + 1) \div 16 \in Int
      BY DEF IInv, LineEnd
    <3> QED
      BY <2>1, <3>1, <3>2 DEF Byte, IInv
  <2>2. CASE UNCHANGED vars
    BY <2>2 DEF IInv, vars
  <2> QED
    BY <2>1, <2>2 DEF Next
<1> QED
  BY <1>1, <1>2, PTL DEF Spec

\* The texts of a packet of up to ShortPacket bytes fit, whatever its bytes are.
THEOREM ShortPacketsFitAlways ==
  ASSUME PacketSizes \subseteq Nat, Overhead \in 0 .. 1024
  PROVE  Spec => []ShortPacketsFit
<1>1. IInv => ShortPacketsFit
  <2> SUFFICES ASSUME IInv, packetSize <= ShortPacket
               PROVE  /\ packetData < TextSize /\ ascii < TextSize
                      /\ FrameLength < BufLen /\ ~Full
    BY DEF ShortPacketsFit
  <2>1. i \in Nat /\ i <= 4945 /\ i \div 16 \in Nat /\ i \div 16 <= 309
    BY DEF IInv, ShortPacket
  <2>2. packetData <= 16380 /\ ascii <= 6490 /\ packetData \in Int /\ ascii \in Int
    BY <2>1 DEF IInv
  <2>3. TextSize = 16383
    BY DEF TextSize, BufLen
  <2> QED
    BY <2>2, <2>3 DEF FrameLength, FrameHeader, BufLen, Full
<1> QED
  BY <1>1, LengthsAreKept, PTL
=============================================================================
