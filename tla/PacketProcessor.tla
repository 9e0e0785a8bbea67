--------------------------- MODULE PacketProcessor --------------------------
(***************************************************************************)
(* foreachDecryptedPacket (src/src/common/PacketProcessor) in a plugin of  *)
(* Floana: it cuts each received chunk into packets, calls the plugin for  *)
(* each, writes what the plugin changed back into the chunk, and keeps a   *)
(* server packet that the chunk does not hold completely for the next one. *)
(*                                                                         *)
(* The listeners of the two directions run it at the same time.  They      *)
(* share packetQueue, a global variable without a lock.                    *)
(*                                                                         *)
(* A stream is a row of cells and a packet takes one or more of them: the  *)
(* type is the first cell of a server packet and the size the second one   *)
(* of a packet of variable size; the first cell of a client packet is its  *)
(* cryptographic header.                                                   *)
(***************************************************************************)
EXTENDS Integers, Sequences

CONSTANTS
  Length,          \* how many cells each stream has
  Packets,         \* for each side, from the first cell of a packet to its
                   \* [kind, size, calls], where calls is how many packets a
                   \* compressed one holds, and 1 for the others
  Ends,            \* the cells of each stream a received chunk may end with
  BufferSize,      \* bufferSize of a RawPacket, in cells
  Modified,        \* the packets the plugin changes, for each side
  MaxMisread,      \* the largest size a header read in the wrong place shows
  CallbackMayFail, \* whether the plugin's callback may return 0
  Memcpy           \* what memcpy does when its areas overlap: "moves", "repeats"

Sides == {"client", "server"}
Kinds == {"fixed", "variable", "compressed", "crypted"}
Starts(d) == DOMAIN Packets[d]
SizeOf(d, s) == Packets[d][s].size
LastCell(d, s) == s + SizeOf(d, s) - 1

ASSUME ProcessorAssumption ==
  /\ Length \in [Sides -> Nat]
  /\ BufferSize \in Nat \ {0}
  /\ MaxMisread \in Nat
  /\ CallbackMayFail \in BOOLEAN
  /\ Memcpy \subseteq {"moves", "repeats"} /\ Memcpy # {}
  /\ \A d \in Sides :
       /\ Ends[d] \subseteq 1 .. Length[d]
       /\ Starts(d) \subseteq 1 .. Length[d]
       /\ \A s \in Starts(d) :
            /\ Packets[d][s] \in [kind : Kinds, size : Nat \ {0}, calls : Nat]
            /\ (Packets[d][s].kind = "crypted") <=> (d = "client")
            /\ Packets[d][s].kind = "variable" => SizeOf(d, s) >= 2
            /\ Packets[d][s].kind # "compressed" => Packets[d][s].calls = 1
            /\ LastCell(d, s) <= Length[d]
            /\ \A t \in Starts(d) : s < t => LastCell(d, s) < t
       /\ \A c \in 1 .. Length[d] :
            \E s \in Starts(d) : c \in s .. LastCell(d, s)

VARIABLES
  arrived,      \* how many cells of each stream have been received
  raw,          \* the chunk each listener holds, which it will send on
  copy,         \* copyPacket of each listener
  cursor,       \* how far each listener is in its copy
  pc,           \* where each listener is
  packetQueue,  \* the fragments kept for a next chunk
  called,       \* history: the packets the plugin was called with
  sent,         \* history: the cells sent on
  mishaps,      \* history: "repeated" a chunk, "two kept" at the same time
  losses        \* history: what first made the processor lose or misread packets

processorVars ==
  <<arrived, raw, copy, cursor, pc, packetQueue, called, sent, mishaps, losses>>

\* Cell number n of the stream of side d; changed by the plugin or not.
Cell(d, n) == [side |-> d, pos |-> n, changed |-> FALSE]
\* What decompressing garbage leaves.
Stray == [side |-> "server", pos |-> 0, changed |-> FALSE]
Cells == [side : Sides, pos : Nat, changed : BOOLEAN]

\* A call of the plugin: with the nth packet that starts at a cell, or with
\* bytes that are no packet.
Call(s, n) == [start |-> s, nth |-> n]
Garbage == Call(0, 0)
Calls(d) == UNION {{Call(s, n) : n \in 1 .. Packets[d][s].calls} : s \in Starts(d)}
Before(a, b) == a.start < b.start \/ (a.start = b.start /\ a.nth < b.nth)

Init ==
  /\ arrived = [d \in Sides |-> 0]
  /\ raw = [d \in Sides |-> << >>]
  /\ copy = [d \in Sides |-> << >>]
  /\ cursor = [d \in Sides |-> 0]
  /\ pc = [d \in Sides |-> "recv"]
  /\ packetQueue = << >>
  /\ called = [d \in Sides |-> << >>]
  /\ sent = [d \in Sides |-> << >>]
  /\ mishaps = {}
  /\ losses = {}

Goto(d, l) == pc' = [pc EXCEPT ![d] = l]
Calling(d, c) == called' = [called EXCEPT ![d] = @ \o c]
Advance(d, n) == cursor' = [cursor EXCEPT ![d] = @ + n]
Keep(fragments) ==
  /\ packetQueue' = fragments
  /\ mishaps' = IF Len(fragments) > 1 THEN mishaps \cup {"two kept"} ELSE mishaps

\* The ways to lose packets, each of which a step below takes: a fragment taken by
\* the client's listener, gone before it could be taken, dropped because it does
\* not fit, or put before a chunk that memcpy repeats; a chunk that ends inside a
\* packet of the client, a compressed one or before a size; a callback's refusal.
Losses == {"taken", "raced", "dropped", "repeated",
           "cut crypted", "cut compressed", "cut size", "refused"}
Lose(causes) == losses' = IF losses = {} THEN causes ELSE losses

-----------------------------------------------------------------------------
(* Receiving a chunk and putting a kept fragment before it.                *)

\* rawPacketInit and rawPacketRecv; a chunk that fills the buffer is an error.
Recv(d) ==
  /\ pc[d] = "recv"
  /\ \E e \in Ends[d] :
       /\ arrived[d] < e /\ e < arrived[d] + BufferSize
       /\ raw' = [raw EXCEPT ![d] =
                    [i \in 1 .. e - arrived[d] |-> Cell(d, arrived[d] + i)]]
       /\ arrived' = [arrived EXCEPT ![d] = e]
  /\ Goto(d, "start")
  /\ UNCHANGED <<copy, cursor, packetQueue, called, sent, mishaps, losses>>

\* rawPacketCopy, and getPacketQueue looks at the length of the queue.
CopyPacket(d) ==
  /\ pc[d] = "start"
  /\ copy' = [copy EXCEPT ![d] = raw[d]]
  /\ cursor' = [cursor EXCEPT ![d] = 0]
  /\ Goto(d, IF packetQueue = << >> THEN "loop" ELSE "pop")
  /\ UNCHANGED <<arrived, raw, packetQueue, called, sent, mishaps, losses>>

\* Mutant: the fragment is put behind the chunk.
PopFragmentBehind(d) ==
  /\ pc[d] = "pop"
  /\ packetQueue # << >>
  /\ copy' = [copy EXCEPT ![d] = @ \o Head(packetQueue)]
  /\ packetQueue' = Tail(packetQueue)
  /\ Goto(d, "loop")
  /\ UNCHANGED <<arrived, raw, cursor, called, sent, mishaps, losses>>

\* The chunk moved up to make room for a fragment of n cells: memcpy is called
\* with areas that overlap if the chunk is longer, and one that copies forward
\* repeats the first n cells.
MovedUp(c, n) ==
  {IF how = "moves" THEN c ELSE [i \in DOMAIN c |-> c[((i - 1) % n) + 1]] :
     how \in Memcpy}

\* getPacketQueue takes the first fragment; if the two together are too large
\* the fragment is lost, and nobody looks at the 0 that is returned.
PopFragment(d) ==
  /\ pc[d] = "pop"
  /\ packetQueue # << >>
  /\ LET fragment == Head(packetQueue)
         taken == IF d = "client" THEN {"taken"} ELSE {}
     IN  IF Len(copy[d]) + Len(fragment) > BufferSize
           THEN UNCHANGED <<copy, mishaps>> /\ Lose(taken \cup {"dropped"})
           ELSE \E chunk \in MovedUp(copy[d], Len(fragment)) :
                  LET repeated == IF chunk = copy[d] THEN {} ELSE {"repeated"}
                  IN  /\ copy' = [copy EXCEPT ![d] = fragment \o chunk]
                      /\ mishaps' = mishaps \cup repeated
                      /\ Lose(taken \cup repeated)
  /\ packetQueue' = Tail(packetQueue)
  /\ Goto(d, "loop")
  /\ UNCHANGED <<arrived, raw, cursor, called, sent>>

\* The other listener took the fragment after this one saw the length:
\* bb_queue_get_first returns NULL, and Floana does not survive reading from it.
PopNothing(d) ==
  /\ pc[d] = "pop"
  /\ packetQueue = << >>
  /\ pc' = [e \in Sides |-> "crashed"]
  /\ Lose({"raced"})
  /\ UNCHANGED <<arrived, raw, copy, cursor, packetQueue, called, sent, mishaps>>

-----------------------------------------------------------------------------
(* The packets of the chunk.                                               *)

InLoop(d) == pc[d] = "loop" /\ cursor[d] < Len(copy[d])
Left(d) == Len(copy[d]) - cursor[d]
Rest(d) == SubSeq(copy[d], cursor[d] + 1, Len(copy[d]))
FrontOfRest(d, n) == SubSeq(Rest(d), 1, IF n < Left(d) THEN n ELSE Left(d))

\* Whether the cursor is at the start of a packet of the listener's own side.
AtStart(d) ==
  LET c == Head(Rest(d)) IN c.side = d /\ c.pos \in Starts(d)
Start(d) == Head(Rest(d)).pos

\* The next n cells are one packet of the stream, complete and in order.
IsWhole(d, n) ==
  /\ AtStart(d)
  /\ n = SizeOf(d, Start(d))
  /\ n <= Left(d)
  /\ \A i \in 1 .. n :
       LET c == Rest(d)[i] IN c.side = d /\ c.pos = Start(d) + i - 1

\* The chunk ends less than n cells behind the start of the packet at the cursor.
CutHere(d, n, cause) == IF AtStart(d) /\ Left(d) < n THEN {cause} ELSE {}

\* The call with the packet at the cursor, if n cells are passed.
CallWith(d, n) == IF IsWhole(d, n) THEN Call(Start(d), 1) ELSE Garbage

\* The plugin changes the packet it is called with if it is one it looks for.
Changes(d) == AtStart(d) /\ Call(Start(d), 1) \in Modified[d]
Changed(cells) == [i \in DOMAIN cells |-> [cells[i] EXCEPT !.changed = TRUE]]

\* memcpy (rawPacket->buffer + offset, ...): what lies behind the end of the
\* chunk is not sent.
Overwrite(chunk, offset, cells) ==
  [i \in DOMAIN chunk |->
     IF i \in offset + 1 .. offset + Len(cells) THEN cells[i - offset] ELSE chunk[i]]

\* Every header that reading at the cursor can show.  What follows the end of a
\* chunk in its buffer is zero.
Headers(d) ==
  IF AtStart(d) /\ Packets[d][Start(d)].kind = "variable" /\ Left(d) = 1
    THEN {[kind |-> "variable", size |-> 0]}
    ELSE IF AtStart(d)
      THEN {[kind |-> Packets[d][Start(d)].kind, size |-> SizeOf(d, Start(d))]}
      ELSE [kind : {"variable"}, size : 0 .. MaxMisread]
             \cup [kind : {"fixed", "compressed"}, size : 1 .. MaxMisread]
             \cup [kind : {"unknown"}, size : {0}]

\* Mutant: the whole chunk is kept, not only what is left of it.
CutPacketKeepsTheChunk(d) ==
  \E h \in Headers(d) :
    /\ h.kind \in {"fixed", "variable"}
    /\ Left(d) < h.size
    /\ Keep(Append(packetQueue, copy[d]))
    /\ Advance(d, h.size)
    /\ UNCHANGED <<arrived, raw, copy, pc, called, sent, losses>>

\* Mutant: nothing is kept.
CutPacketIsLost(d) ==
  \E h \in Headers(d) :
    /\ h.kind \in {"fixed", "variable"}
    /\ Left(d) < h.size
    /\ Advance(d, h.size)
    /\ UNCHANGED <<arrived, raw, copy, pc, packetQueue, called, sent, mishaps,
                   losses>>

\* The chunk ends in the middle of the packet: addPacketQueue.
CutPacket(d) ==
  \E h \in Headers(d) :
    /\ h.kind \in {"fixed", "variable"}
    /\ Left(d) < h.size
    /\ Keep(Append(packetQueue, Rest(d)))
    /\ Advance(d, h.size)
    /\ UNCHANGED <<arrived, raw, copy, pc, called, sent, losses>>

\* Mutant: the plugin's changes are written to the start of the chunk.
WholePacketOverwritesTheStart(d) ==
  \E h \in Headers(d) :
    /\ h.kind \in {"fixed", "variable"}
    /\ h.size \in 1 .. Left(d)
    /\ Calling(d, <<CallWith(d, h.size)>>)
    /\ raw' = IF Changes(d)
                THEN [raw EXCEPT ![d] =
                        Overwrite(@, 0, Changed(FrontOfRest(d, h.size)))]
                ELSE raw
    /\ Advance(d, h.size)
    /\ UNCHANGED <<arrived, copy, pc, packetQueue, sent, mishaps, losses>>

\* Mutant: the plugin's changes stay in the copy.
WholePacketKeepsTheChanges(d) ==
  \E h \in Headers(d) :
    /\ h.kind \in {"fixed", "variable"}
    /\ h.size \in 1 .. Left(d)
    /\ Calling(d, <<CallWith(d, h.size)>>)
    /\ Advance(d, h.size)
    /\ UNCHANGED <<arrived, raw, copy, pc, packetQueue, sent, mishaps, losses>>

\* A packet of the server: the callback, and what it changed goes to the place
\* in the chunk that the packet has in the copy.
WholePacket(d) ==
  \E h \in Headers(d) :
    /\ h.kind \in {"fixed", "variable"}
    /\ h.size \in 1 .. Left(d)
    /\ Calling(d, <<CallWith(d, h.size)>>)
    /\ raw' = IF Changes(d)
                THEN [raw EXCEPT ![d] =
                        Overwrite(@, cursor[d], Changed(FrontOfRest(d, h.size)))]
                ELSE raw
    /\ Advance(d, h.size)
    /\ UNCHANGED <<arrived, copy, pc, packetQueue, sent, mishaps, losses>>

\* A size of 0: the callback is called with no bytes, for ever.
EmptyPacket(d) ==
  \E h \in Headers(d) :
    /\ h.kind = "variable"
    /\ h.size = 0
    /\ Goto(d, "hung")
    /\ Lose(CutHere(d, 2, "cut size"))
    /\ UNCHANGED <<arrived, raw, copy, cursor, packetQueue, called, sent, mishaps>>

InnerCalls(d) == [n \in 1 .. Packets[d][Start(d)].calls |-> Call(Start(d), n)]
SomeInnerCalls(d) ==
  IF AtStart(d)
    THEN {SubSeq(InnerCalls(d), 1, n) : n \in 1 .. Packets[d][Start(d)].calls}
    ELSE {}

\* A compressed packet, processed by a call of foreachDecryptedPacket of its
\* own; its copy is thrown away with what the plugin changed in it.
CompressedPacket(d) ==
  \E h \in Headers(d) :
    /\ h.kind = "compressed"
    /\ IsWhole(d, h.size)
    /\ packetQueue = << >>
    /\ Calling(d, InnerCalls(d))
    /\ Advance(d, h.size)
    /\ UNCHANGED <<arrived, raw, copy, pc, packetQueue, sent, mishaps, losses>>

\* Nobody checks that the chunk holds all of the compressed packet.  When it is
\* cut, or is none, zlibDecompress fails; its result is ignored and its size
\* never set.  The call processes what the buffer happens to hold, behind the
\* fragment that is in the queue then: a few of the packets or garbage, of which
\* it may keep a part in the queue, or on which it may hang.
GarbledPacket(d) ==
  \E h \in Headers(d) :
    /\ h.kind = "compressed"
    /\ ~IsWhole(d, h.size) \/ packetQueue # << >>
    /\ \E calls \in {<< >>, <<Garbage>>} \cup SomeInnerCalls(d) : Calling(d, calls)
    /\ \E kept \in {<< >>, << <<Stray>> >>} :
         Keep((IF packetQueue = << >> THEN << >> ELSE Tail(packetQueue)) \o kept)
    /\ \E l \in {"loop", "hung"} : Goto(d, l)
    /\ Advance(d, h.size)
    /\ Lose(CutHere(d, h.size, "cut compressed"))
    /\ UNCHANGED <<arrived, raw, copy, sent>>

\* "Skipping the raw packet ...": the rest of the chunk is not looked at.
UnknownPacket(d) ==
  \E h \in Headers(d) :
    /\ h.kind = "unknown"
    /\ Goto(d, "forward")
    /\ UNCHANGED <<arrived, raw, copy, cursor, packetQueue, called, sent, mishaps,
                   losses>>

\* The data size a client's cryptographic header shows.
PlainSizes(d) ==
  IF AtStart(d) THEN {SizeOf(d, Start(d)) - 1} ELSE 0 .. MaxMisread

\* Mutant: the size of the header is taken off instead of added.
ClientPacketStepsBack(d) ==
  \E n \in PlainSizes(d) :
    /\ Calling(d, <<CallWith(d, n + 1)>>)
    /\ Advance(d, n - 1)
    /\ UNCHANGED <<arrived, raw, copy, pc, packetQueue, sent, mishaps, losses>>

\* A packet of the client is decrypted without checking that the chunk holds it.
\* What the callback changed is encrypted again, header and all, and goes to
\* where the data has been.
ClientPacket(d) ==
  \E n \in PlainSizes(d) :
    /\ Calling(d, <<CallWith(d, n + 1)>>)
    /\ raw' = IF Changes(d)
                THEN [raw EXCEPT ![d] =
                        Overwrite(@, cursor[d] + 1, Changed(FrontOfRest(d, n + 1)))]
                ELSE raw
    /\ Advance(d, n + 1)
    /\ Lose(CutHere(d, n + 1, "cut crypted"))
    /\ UNCHANGED <<arrived, copy, pc, packetQueue, sent, mishaps>>

\* The callback returns 0: the rest of the chunk is not looked at, and what the
\* callback changed is not written back.
CallbackFails(d) ==
  /\ CallbackMayFail
  /\ \/ /\ d = "server"
        /\ \E h \in Headers(d) :
             /\ h.kind \in {"fixed", "variable"}
             /\ h.size \in 1 .. Left(d)
             /\ Calling(d, <<CallWith(d, h.size)>>)
     \/ /\ d = "server"
        /\ \E h \in Headers(d) :
             /\ h.kind = "compressed"
             /\ \E calls \in SomeInnerCalls(d) \cup
                              (IF IsWhole(d, h.size) THEN {} ELSE {<<Garbage>>}) :
                  Calling(d, calls)
     \/ /\ d = "client"
        /\ \E n \in PlainSizes(d) : Calling(d, <<CallWith(d, n + 1)>>)
  /\ Goto(d, "forward")
  /\ Lose({"refused"})
  /\ UNCHANGED <<arrived, raw, copy, cursor, packetQueue, sent, mishaps>>

ServerPacket ==
  /\ InLoop("server")
  /\ \/ CutPacket("server") \/ WholePacket("server") \/ EmptyPacket("server")
     \/ CompressedPacket("server") \/ GarbledPacket("server")
     \/ UnknownPacket("server")

ProcessPacket(d) ==
  \/ d = "server" /\ ServerPacket
  \/ d = "client" /\ InLoop(d) /\ ClientPacket(d)
  \/ InLoop(d) /\ CallbackFails(d)

\* Mutant: the loop runs until exactly nothing is left.
EndOfChunkExactly(d) ==
  /\ pc[d] = "loop"
  /\ cursor[d] = Len(copy[d])
  /\ Goto(d, "forward")
  /\ UNCHANGED <<arrived, raw, copy, cursor, packetQueue, called, sent, mishaps,
                 losses>>

\* dataSize is 0, or less.
EndOfChunk(d) ==
  /\ pc[d] = "loop"
  /\ cursor[d] >= Len(copy[d])
  /\ Goto(d, "forward")
  /\ UNCHANGED <<arrived, raw, copy, cursor, packetQueue, called, sent, mishaps,
                 losses>>

\* The plugin succeeds whatever foreachDecryptedPacket returned, and the listener
\* sends the chunk.
Forward(d) ==
  /\ pc[d] = "forward"
  /\ sent' = [sent EXCEPT ![d] = @ \o raw[d]]
  /\ raw' = [raw EXCEPT ![d] = << >>]
  /\ copy' = [copy EXCEPT ![d] = << >>]
  /\ cursor' = [cursor EXCEPT ![d] = 0]
  /\ Goto(d, "recv")
  /\ UNCHANGED <<arrived, packetQueue, called, mishaps, losses>>

Process(d) ==
  \/ CopyPacket(d) \/ PopFragment(d) \/ PopNothing(d)
  \/ ProcessPacket(d) \/ EndOfChunk(d) \/ Forward(d)

Next == \E d \in Sides : Recv(d) \/ Process(d)

Spec == Init /\ [][Next]_processorVars

FairSpec == Spec /\ \A d \in Sides : WF_processorVars(Process(d))

-----------------------------------------------------------------------------
(* Correctness.                                                            *)

TypeOK ==
  /\ arrived \in [Sides -> Nat]
  /\ raw \in [Sides -> Seq(Cells)]
  /\ copy \in [Sides -> Seq(Cells)]
  /\ cursor \in [Sides -> Nat]
  /\ pc \in [Sides -> {"recv", "start", "pop", "loop", "forward", "hung", "crashed"}]
  /\ packetQueue \in Seq(Seq(Cells))
  /\ called \in [Sides -> Seq([start : Nat, nth : Nat])]
  /\ sent \in [Sides -> Seq(Cells)]
  /\ mishaps \subseteq {"repeated", "two kept"}
  /\ losses \subseteq Losses

\* The packet, if any, that is cut by a chunk that ends with cell e.
Cuts(d, e) == {s \in Starts(d) : s <= e /\ e < LastCell(d, s)}

\* Chunks the processor can handle.  None cuts a packet of the client, a compressed
\* one, or one of variable size before its size; a packet that is cut fits the
\* buffer with the chunk behind it, and there is no client then to take its
\* fragment from the queue.
CleanChunks ==
  /\ ~CallbackMayFail
  /\ Memcpy = {"moves"}
  /\ \A e \in Ends["client"] : Cuts("client", e) = {}
  /\ \A e \in Ends["server"] : \A s \in Cuts("server", e) :
       /\ Packets["server"][s].kind # "compressed"
       /\ Packets["server"][s].kind = "variable" => s < e
       /\ \A f \in Ends["server"] : (e < f /\ f < e + BufferSize) => f - s < BufferSize
       /\ Ends["client"] = {}

\* Changes the processor can handle: the plugin changes packets of the server, none
\* of them inside a compressed one, and none that ends in a chunk which begins
\* inside a packet.
CleanChanges ==
  /\ Modified["client"] = {}
  /\ \A c \in Modified["server"] :
       /\ c.start \in Starts("server") /\ c = Call(c.start, 1)
       /\ Packets["server"][c.start].kind # "compressed"
       /\ \A a, e \in Ends["server"] :
            (e < a + BufferSize /\ LastCell("server", c.start) \in a + 1 .. e)
              => Cuts("server", a) = {}

\* The plugin is called with whole packets only, each once and in the order of
\* the stream, however the chunks cut them (PacketProcessor.c:145-180).
PacketsComeOutWhole ==
  \A d \in Sides :
    /\ Garbage \notin {called[d][i] : i \in DOMAIN called[d]}
    /\ \A i, j \in DOMAIN called[d] : i < j => Before(called[d][i], called[d][j])

\* When a listener waits for its next chunk, the plugin has seen every packet
\* whose last cell has arrived.
NothingIsHeldBack ==
  \A d \in Sides : pc[d] = "recv" =>
    \A c \in Calls(d) : LastCell(d, c.start) <= arrived[d] =>
      c \in {called[d][i] : i \in DOMAIN called[d]}

\* Whatever is misread, no packet is passed to the plugin as such a second time,
\* unless memcpy has repeated a chunk (PacketProcessor.c:31-33), and none after a
\* later one as long as no two fragments are kept at the same time (the call for a
\* compressed packet keeps garbage and its caller what the chunk then cuts).
PacketsComeOnce ==
  \A d \in Sides : \A i, j \in DOMAIN called[d] :
    (i < j /\ called[d][i] # Garbage /\ called[d][j] # Garbage) =>
      /\ "repeated" \notin mishaps => called[d][i] # called[d][j]
      /\ mishaps = {} => Before(called[d][i], called[d][j])

\* The list of the ways to lose packets is complete: until one of them happens,
\* the two listeners, the chunks they cut wherever they like and the queue they
\* share do the plugin no harm.  It is called with whole packets in order and with
\* all that have arrived, and both listeners go on (PacketProcessor.c:9-42, 134-185).
EveryLossHasACause ==
  losses = {} =>
    /\ PacketsComeOutWhole
    /\ NothingIsHeldBack
    /\ \A d \in Sides : pc[d] \notin {"hung", "crashed"}

\* The bytes that go out are the bytes that came in, in the same places; only
\* packets that the plugin changed differ.
OnlyChangedPacketsDiffer ==
  \A d \in Sides : \A i \in DOMAIN sent[d] :
    LET c == sent[d][i]
    IN  /\ c.side = d
        /\ c.pos = i
        /\ c.changed =>
             \E s \in Starts(d) : i \in s .. LastCell(d, s) /\ Call(s, 1) \in Modified[d]

\* What the plugin changed goes out changed.
ChangesGoOut ==
  \A d \in Sides : \A m \in Modified[d] :
    m \in {called[d][i] : i \in DOMAIN called[d]} =>
      \A i \in DOMAIN sent[d] :
        i \in m.start .. LastCell(d, m.start) => sent[d][i].changed

\* Every chunk is sent on, if the threads of the two listeners run.
EveryChunkIsSentOn == \A d \in Sides : (pc[d] # "recv") ~> (pc[d] = "recv")

=============================================================================
