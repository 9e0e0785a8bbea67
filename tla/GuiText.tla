------------------------------- MODULE GuiText ------------------------------
(***************************************************************************)
(* The texts the GUI plugin makes of a packet (sendPacketToGui, gui.c):    *)
(* every byte becomes three characters of packetData and one of ascii,     *)
(* every sixteenth ends a line in both; the two go into a JSON text, and   *)
(* that into a WebSocket frame.  Only the lengths are modelled: a length   *)
(* is also the place of the terminating zero.                              *)
(***************************************************************************)
EXTENDS Integers

CONSTANTS
  PacketSizes,   \* the sizes of packets
  Overhead       \* the length of the JSON text around the two

BufLen == 65535
TextSize == BufLen \div 4        \* of packetData and of ascii
FrameHeader == 4                 \* of wsMakeFrame, for a text of more than 125 characters

VARIABLES
  packetSize,
  i,            \* the bytes done
  packetData,   \* the length of the text so far
  ascii

vars == <<packetSize, i, packetData, ascii>>

Init == packetSize \in PacketSizes /\ i = 0 /\ packetData = 0 /\ ascii = 0

\* The check at the head of the loop, with its slack of 0x100.
Full == ascii > TextSize + 256 \/ packetData > TextSize + 256

LineEnd(byte) == IF (byte + 1) % 16 = 0 THEN 5 ELSE 0   \* "<br/>"

Byte ==
  /\ i < packetSize
  /\ ~Full
  /\ packetData' = packetData + 3 + LineEnd(i)
  /\ ascii' = ascii + 1 + LineEnd(i)
  /\ i' = i + 1
  /\ UNCHANGED packetSize

\* The loop is over: sendTextToClient.
FrameLength == FrameHeader + Overhead + packetData + ascii

Next == Byte
Spec == Init /\ [][Next]_vars

-----------------------------------------------------------------------------
\* The longest packet whose texts fit.
ShortPacket == 4945

\* What sendPacketToGui makes of such a packet fits the buffers it is written
\* to, at every byte, and is not truncated (gui.c:89-111, 54).
ShortPacketsFit ==
  packetSize <= ShortPacket =>
    /\ packetData < TextSize
    /\ ascii < TextSize
    /\ FrameLength < BufLen
    /\ ~Full
=============================================================================
