------------------------ MODULE PacketProcessorProofs ------------------------
(***************************************************************************)
(* Proofs about foreachDecryptedPacket in the two listeners, for any       *)
(* streams, chunks, buffer and reading of garbage:                         *)
(*   - the types, and the steps a processed packet can take;               *)
(*   - no packet comes twice, or after a later one (OnceInv);              *)
(*   - with chunks the processor can handle every packet comes whole, once *)
(*     and as soon as it has arrived (CleanInv);                           *)
(*   - changes it can handle go out, and nothing else does (ChangesInv).   *)
(***************************************************************************)
EXTENDS PacketProcessor, SequenceTheorems, TLAPS

Places == {"recv", "start", "pop", "loop", "forward", "hung", "crashed"}

-----------------------------------------------------------------------------
(* What every step does, whatever the plugin, and the types.               *)

CallRecords == [start : Nat, nth : Nat]
NonEmpty == Seq(Cells) \ {<< >>}

\* The fragments in the queue are never empty: the step that moves a chunk up by
\* the length of one divides by it.
TypeInv ==
  /\ TypeOK
  /\ packetQueue \in Seq(NonEmpty)

\* The calls of one step: with bytes that are no packet, or with those of the
\* packet at the cursor.
OwnCalls(d, cs) ==
  \A k \in 1 .. Len(cs) : cs[k] = Garbage \/ (AtStart(d) /\ cs[k] = Call(Start(d), k))

QueueWithoutFirst == IF packetQueue = << >> THEN << >> ELSE Tail(packetQueue)

\* What the processing of a packet does to the queue.
QueueStep(d, cs, n) ==
  \/ UNCHANGED <<packetQueue, mishaps>>
  \/ /\ d = "server" /\ cs = << >> /\ n > Left(d)
     /\ Keep(Append(packetQueue, Rest(d)))
  \/ /\ d = "server"
     /\ Keep(QueueWithoutFirst) \/ Keep(QueueWithoutFirst \o << <<Stray>> >>)

\* What the processing of a packet does: it calls the plugin, changes the chunk
\* in its place, and goes on behind the packet or leaves the loop.
Passes(d, cs, n, l) ==
  /\ OwnCalls(d, cs)
  /\ Calling(d, cs)
  /\ Advance(d, n)
  /\ Goto(d, l)
  /\ l = "loop" => n >= 1
  /\ QueueStep(d, cs, n)

Leaving == {"loop", "forward", "hung"}

LEMMA PacketTypes ==
  ASSUME NEW d \in Sides, NEW s \in Starts(d)
  PROVE  /\ s \in Nat /\ s >= 1 /\ s <= Length[d] /\ Length[d] \in Nat
         /\ SizeOf(d, s) \in Nat \ {0} /\ LastCell(d, s) \in Nat
         /\ LastCell(d, s) <= Length[d]
         /\ Packets[d][s].calls \in Nat /\ Packets[d][s].kind \in Kinds
         /\ Packets[d][s].kind = "variable" => SizeOf(d, s) >= 2
         /\ Packets[d][s].kind = "crypted" <=> d = "client"
<1>1. /\ Starts(d) \subseteq 1 .. Length[d] /\ Length[d] \in Nat
      /\ Packets[d][s] \in [kind : Kinds, size : Nat \ {0}, calls : Nat]
  BY ProcessorAssumption
<1>2. s \in 1 .. Length[d]
  BY <1>1
<1>3. /\ Packets[d][s].size \in Nat \ {0} /\ Packets[d][s].calls \in Nat
      /\ Packets[d][s].kind \in Kinds
  BY <1>1
<1>4. /\ LastCell(d, s) <= Length[d]
      /\ Packets[d][s].kind = "variable" => SizeOf(d, s) >= 2
      /\ Packets[d][s].kind = "crypted" <=> d = "client"
  BY ProcessorAssumption
<1> QED
  BY <1>1, <1>2, <1>3, <1>4 DEF SizeOf, LastCell

\* What is left of a chunk.
LEMMA RestOfChunk ==
  ASSUME TypeOK, NEW d \in Sides, InLoop(d)
  PROVE  /\ copy[d] \in Seq(Cells) /\ Len(copy[d]) \in Nat /\ cursor[d] \in Nat
         /\ Left(d) \in Nat \ {0} /\ Left(d) = Len(copy[d]) - cursor[d]
         /\ Rest(d) \in Seq(Cells) /\ Len(Rest(d)) = Left(d) /\ Rest(d) # << >>
         /\ \A i \in 1 .. Left(d) :
              Rest(d)[i] = copy[d][cursor[d] + i] /\ cursor[d] + i \in 1 .. Len(copy[d])
         /\ Head(Rest(d)) = copy[d][cursor[d] + 1]
<1>1. copy[d] \in Seq(Cells) /\ cursor[d] \in Nat /\ cursor[d] < Len(copy[d])
  BY DEF TypeOK, InLoop
<1>2. PICK c \in Seq(Cells) : c = copy[d]
  BY <1>1
<1>3. PICK k \in Nat : k = cursor[d]
  BY <1>1
<1>4. Len(c) \in Nat /\ \A i \in k + 1 .. Len(c) : c[i] \in Cells
  BY <1>2, <1>3, ElementOfSeq, LenProperties
<1> DEFINE r == SubSeq(c, k + 1, Len(c))
<1>5. /\ r \in Seq(Cells) /\ Len(r) = Len(c) - k
      /\ \A i \in 1 .. Len(c) - k : r[i] = c[k + i]
  <2>1. k + 1 \in Int /\ Len(c) \in Int /\ k + 1 <= Len(c)
    BY <1>1, <1>2, <1>3, <1>4
  <2>2. /\ r \in Seq(Cells)
        /\ Len(r) = IF k + 1 <= Len(c) THEN Len(c) - (k + 1) + 1 ELSE 0
        /\ \A i \in 1 .. Len(c) - (k + 1) + 1 : r[i] = c[k + 1 + i - 1]
    BY <1>4, <2>1, SubSeqProperties
  <2> QED
    BY <1>4, <2>1, <2>2
<1>6. r = Rest(d) /\ Left(d) = Len(c) - k
  BY <1>2, <1>3 DEF Rest, Left
<1> HIDE DEF r
<1>7. r # << >> /\ Head(r) = r[1] /\ 1 \in 1 .. Len(c) - k
  <2>1. Len(r) \in Nat /\ Len(r) >= 1
    BY <1>1, <1>2, <1>3, <1>4, <1>5
  <2>2. r # << >>
    BY <2>1
  <2>3. Head(r) = r[1]
    BY <1>5, <2>2
  <2> QED
    BY <1>5, <2>1, <2>2, <2>3
<1>8. Head(r) = c[k + 1]
  BY <1>5, <1>7
<1>9. \A i \in 1 .. Len(c) - k : k + i \in 1 .. Len(c)
  BY <1>1, <1>2, <1>3, <1>4
<1>10. Left(d) \in Nat \ {0} /\ Left(d) = Len(copy[d]) - cursor[d]
  BY <1>1, <1>2, <1>3, <1>4, <1>6
<1>11. Rest(d) \in Seq(Cells) /\ Len(Rest(d)) = Left(d) /\ Rest(d) # << >>
  BY <1>5, <1>6, <1>7
<1>12. \A i \in 1 .. Left(d) :
         Rest(d)[i] = copy[d][cursor[d] + i] /\ cursor[d] + i \in 1 .. Len(copy[d])
  BY <1>2, <1>3, <1>5, <1>6, <1>9
<1>13. Head(Rest(d)) = copy[d][cursor[d] + 1]
  BY <1>2, <1>3, <1>6, <1>8
<1>14. Len(copy[d]) \in Nat
  BY <1>2, <1>4
<1> QED
  BY <1>1, <1>10, <1>11, <1>12, <1>13, <1>14

LEMMA HeaderTypes ==
  ASSUME NEW d \in Sides, NEW h \in Headers(d)
  PROVE  h.size \in Nat /\ (h.kind = "compressed" => h.size >= 1)
<1>0. MaxMisread \in Nat
  BY ProcessorAssumption
<1>1. CASE AtStart(d) /\ Packets[d][Start(d)].kind = "variable" /\ Left(d) = 1
  BY <1>1 DEF Headers
<1>2. CASE AtStart(d) /\ ~(Packets[d][Start(d)].kind = "variable" /\ Left(d) = 1)
  <2>1. Start(d) \in Starts(d)
    BY <1>2 DEF AtStart, Start
  <2>2. SizeOf(d, Start(d)) \in Nat \ {0}
    BY <2>1, PacketTypes
  <2>3. h = [kind |-> Packets[d][Start(d)].kind, size |-> SizeOf(d, Start(d))]
    BY <1>2 DEF Headers
  <2> QED
    BY <2>2, <2>3
<1>3. CASE ~AtStart(d)
  <2>1. \/ h \in [kind : {"variable"}, size : 0 .. MaxMisread]
        \/ h \in [kind : {"fixed", "compressed"}, size : 1 .. MaxMisread]
        \/ h \in [kind : {"unknown"}, size : {0}]
    BY <1>3 DEF Headers
  <2> QED
    BY <1>0, <2>1
<1> QED
  BY <1>1, <1>2, <1>3

LEMMA PlainSizeTypes ==
  ASSUME NEW d \in Sides, NEW n \in PlainSizes(d)
  PROVE  n \in Nat
<1>1. MaxMisread \in Nat
  BY ProcessorAssumption
<1>2. CASE AtStart(d)
  <2>1. Start(d) \in Starts(d)
    BY <1>2 DEF AtStart, Start
  <2>2. SizeOf(d, Start(d)) \in Nat \ {0} /\ n = SizeOf(d, Start(d)) - 1
    BY <1>2, <2>1, PacketTypes DEF PlainSizes
  <2> QED
    BY <2>2
<1>3. CASE ~AtStart(d)
  BY <1>1, <1>3 DEF PlainSizes
<1> QED
  BY <1>2, <1>3

\* Writing cells into a chunk keeps its length.
LEMMA OverwriteTypes ==
  ASSUME NEW chunk \in Seq(Cells), NEW offset \in Nat, NEW cells \in Seq(Cells)
  PROVE  /\ Overwrite(chunk, offset, Changed(cells)) \in Seq(Cells)
         /\ Len(Overwrite(chunk, offset, Changed(cells))) = Len(chunk)
<1> DEFINE n == Len(chunk)
           ch == Changed(cells)
           e(i) == IF i \in offset + 1 .. offset + Len(ch) THEN ch[i - offset]
                   ELSE chunk[i]
<1>1. n \in Nat /\ DOMAIN chunk = 1 .. n /\ \A i \in 1 .. n : chunk[i] \in Cells
  BY LenProperties, ElementOfSeq
<1>2. /\ Len(cells) \in Nat /\ DOMAIN cells = 1 .. Len(cells)
      /\ \A i \in 1 .. Len(cells) : cells[i] \in Cells
  BY LenProperties, ElementOfSeq
<1>3. \A i \in 1 .. Len(cells) : [cells[i] EXCEPT !.changed = TRUE] \in Cells
  <2> SUFFICES ASSUME NEW i \in 1 .. Len(cells)
               PROVE  [cells[i] EXCEPT !.changed = TRUE] \in Cells
    OBVIOUS
  <2>1. cells[i] \in Cells
    BY <1>2
  <2> QED
    BY <2>1 DEF Cells
<1>4. ch \in Seq(Cells) /\ Len(ch) = Len(cells)
  BY <1>2, <1>3 DEF Changed
<1>5. \A j \in 1 .. Len(ch) : ch[j] \in Cells
  BY <1>4, ElementOfSeq
<1>6. Len(ch) \in Nat
  BY <1>2, <1>4
<1> HIDE DEF ch
<1>7. \A i \in 1 .. n : e(i) \in Cells
  BY <1>1, <1>5, <1>6
<1>8. Overwrite(chunk, offset, ch) = [i \in 1 .. n |-> e(i)]
  BY <1>1 DEF Overwrite
<1> HIDE DEF e
<1>9. Overwrite(chunk, offset, ch) \in Seq(Cells) /\ Len(Overwrite(chunk, offset, ch)) = n
  BY <1>1, <1>7, <1>8
<1> QED
  BY <1>9 DEF ch

\* Moving a chunk up keeps its length, in whatever way memcpy does it.
LEMMA MovedUpTypes ==
  ASSUME NEW c \in Seq(Cells), NEW n \in Nat \ {0}, NEW m \in MovedUp(c, n)
  PROVE  m \in Seq(Cells) /\ Len(m) = Len(c)
<1> DEFINE e(i) == c[((i - 1) % n) + 1]
<1>1. Len(c) \in Nat /\ DOMAIN c = 1 .. Len(c) /\ \A i \in 1 .. Len(c) : c[i] \in Cells
  BY LenProperties, ElementOfSeq
<1>2. m = c \/ m = [i \in 1 .. Len(c) |-> e(i)]
  BY <1>1 DEF MovedUp
<1>3. \A i \in 1 .. Len(c) : e(i) \in Cells
  <2> SUFFICES ASSUME NEW i \in 1 .. Len(c) PROVE e(i) \in Cells
    OBVIOUS
  <2>1. i - 1 \in Nat /\ i - 1 < Len(c)
    BY <1>1
  <2>2. (i - 1) % n \in 0 .. i - 1
    BY <2>1
  <2>3. ((i - 1) % n) + 1 \in 1 .. Len(c)
    BY <1>1, <2>1, <2>2
  <2> QED
    BY <1>1, <2>3
<1> HIDE DEF e
<1> QED
  BY <1>1, <1>2, <1>3

LEMMA QueueTypes ==
  ASSUME TypeInv
  PROVE  /\ Len(packetQueue) \in Nat
         /\ \A f \in 1 .. Len(packetQueue) :
              packetQueue[f] \in Seq(Cells) /\ Len(packetQueue[f]) \in Nat \ {0}
         /\ QueueWithoutFirst \in Seq(NonEmpty)
         /\ packetQueue = << >> => QueueWithoutFirst = << >>
         /\ packetQueue # << >> =>
              /\ Head(packetQueue) = packetQueue[1] /\ 1 \in 1 .. Len(packetQueue)
              /\ Len(QueueWithoutFirst) = Len(packetQueue) - 1
              /\ \A f \in 1 .. Len(QueueWithoutFirst) :
                   QueueWithoutFirst[f] = packetQueue[f + 1]
<1>1. PICK q \in Seq(NonEmpty) : q = packetQueue
  BY DEF TypeInv
<1>2. Len(q) \in Nat /\ \A f \in 1 .. Len(q) : q[f] \in NonEmpty
  BY ElementOfSeq, LenProperties
<1>3. \A s \in NonEmpty : s \in Seq(Cells) /\ Len(s) \in Nat \ {0}
  BY EmptySeq DEF NonEmpty
<1>4. CASE q = << >>
  BY <1>1, <1>2, <1>3, <1>4 DEF QueueWithoutFirst
<1>5. CASE q # << >>
  <2>1. /\ Tail(q) \in Seq(NonEmpty) /\ Len(Tail(q)) = Len(q) - 1
        /\ \A i \in 1 .. Len(Tail(q)) : Tail(q)[i] = q[i + 1]
    BY <1>5, HeadTailProperties
  <2>2. Head(q) = q[1] /\ 1 \in 1 .. Len(q)
    BY <1>2, <1>5, EmptySeq
  <2> QED
    BY <1>1, <1>2, <1>3, <1>5, <2>1, <2>2 DEF QueueWithoutFirst
<1> QED
  BY <1>4, <1>5

LEMMA CallTypes ==
  ASSUME NEW d \in Sides, NEW n \in Nat
  PROVE  CallWith(d, n) \in CallRecords /\ OwnCalls(d, <<CallWith(d, n)>>)
<1>1. Garbage \in CallRecords
  BY DEF Garbage, Call, CallRecords
<1>2. CASE IsWhole(d, n)
  <2>1. AtStart(d) /\ Start(d) \in Starts(d)
    BY <1>2 DEF IsWhole, AtStart, Start
  <2>2. Start(d) \in Nat
    BY <2>1, PacketTypes
  <2>3. CallWith(d, n) = Call(Start(d), 1)
    BY <1>2 DEF CallWith
  <2>4. Call(Start(d), 1) \in CallRecords
    BY <2>2 DEF Call, CallRecords
  <2> QED
    BY <2>1, <2>3, <2>4 DEF OwnCalls
<1>3. CASE ~IsWhole(d, n)
  BY <1>1, <1>3 DEF CallWith, OwnCalls
<1> QED
  BY <1>2, <1>3

LEMMA InnerCallTypes ==
  ASSUME NEW d \in Sides, AtStart(d)
  PROVE  /\ InnerCalls(d) \in Seq(CallRecords)
         /\ OwnCalls(d, InnerCalls(d))
         /\ Packets[d][Start(d)].calls \in Nat
         /\ Len(InnerCalls(d)) = Packets[d][Start(d)].calls
         /\ \A cs \in SomeInnerCalls(d) :
              cs \in Seq(CallRecords) /\ OwnCalls(d, cs)
<1> DEFINE n == Packets[d][Start(d)].calls
           e(i) == Call(Start(d), i)
<1>1. Start(d) \in Starts(d)
  BY DEF AtStart, Start
<1>2. Start(d) \in Nat /\ n \in Nat
  BY <1>1, PacketTypes
<1>3. \A i \in Nat : e(i) \in CallRecords
  BY <1>2 DEF Call, CallRecords
<1>4. InnerCalls(d) = [i \in 1 .. n |-> e(i)]
  BY DEF InnerCalls
<1> HIDE DEF n, e
<1>5. InnerCalls(d) \in Seq(CallRecords) /\ Len(InnerCalls(d)) = n
      /\ \A i \in 1 .. n : InnerCalls(d)[i] = e(i)
  BY <1>2, <1>3, <1>4
<1>6. OwnCalls(d, InnerCalls(d))
  BY <1>5 DEF OwnCalls, e
<1>7. ASSUME NEW cs \in SomeInnerCalls(d)
      PROVE  cs \in Seq(CallRecords) /\ OwnCalls(d, cs)
  <2>1. PICK k \in 1 .. n : cs = SubSeq(InnerCalls(d), 1, k)
    BY <1>7 DEF SomeInnerCalls, n
  <2>2. PICK ic \in Seq(CallRecords) : ic = InnerCalls(d)
    BY <1>5
  <2>3. \A i \in 1 .. k : ic[i] \in CallRecords /\ ic[i] = e(i)
    BY <1>2, <1>3, <1>5, <2>2
  <2>4. k \in Int /\ 1 <= k
    BY <1>2
  <2>5. /\ cs \in Seq(CallRecords) /\ Len(cs) = k
        /\ \A i \in 1 .. k : cs[i] = ic[i]
    <3>1. /\ SubSeq(ic, 1, k) \in Seq(CallRecords)
          /\ Len(SubSeq(ic, 1, k)) = IF 1 <= k THEN k - 1 + 1 ELSE 0
          /\ \A i \in 1 .. k - 1 + 1 : SubSeq(ic, 1, k)[i] = ic[1 + i - 1]
      BY <2>3, <2>4, SubSeqProperties
    <3> QED
      BY <2>1, <2>2, <2>4, <3>1
  <2> QED
    BY <2>3, <2>5 DEF OwnCalls, e
<1> QED
  BY <1>2, <1>5, <1>6, <1>7 DEF n

\* The chunk of one listener is changed in its place, or not.
RawStep(d) ==
  /\ raw' \in [Sides -> Seq(Cells)]
  /\ \A x \in Sides : Len(raw'[x]) = Len(raw[x])
  /\ \A x \in Sides \ {d} : raw'[x] = raw[x]

\* The processing of a packet passes the cursor over it.
Passing(d) ==
  /\ InLoop(d)
  /\ UNCHANGED <<arrived, copy, sent>>
  /\ RawStep(d)
  /\ \E cs \in Seq(CallRecords), n \in Nat, l \in Leaving : Passes(d, cs, n, l)

LEMMA SameRaw ==
  ASSUME TypeOK, NEW d \in Sides, UNCHANGED raw PROVE RawStep(d)
BY DEF TypeOK, RawStep

LEMMA ChangedRaw ==
  ASSUME TypeOK, NEW d \in Sides, InLoop(d), NEW n \in Nat, NEW o \in Nat,
         raw' = IF Changes(d)
                  THEN [raw EXCEPT ![d] =
                          Overwrite(@, o, Changed(FrontOfRest(d, n)))]
                  ELSE raw
  PROVE  RawStep(d)
<1>1. CASE Changes(d)
  <2>1. FrontOfRest(d, n) \in Seq(Cells)
    <3>1. PICK r \in Seq(Cells) : r = Rest(d)
      BY RestOfChunk
    <3>2. PICK k \in Nat : k = (IF n < Left(d) THEN n ELSE Left(d)) /\ k <= Len(r)
      BY <3>1, RestOfChunk
    <3>3. \A i \in 1 .. k : r[i] \in Cells
      BY <3>2, ElementOfSeq, LenProperties
    <3>4. 1 \in Int /\ k \in Int
      BY <3>2
    <3>5. SubSeq(r, 1, k) \in Seq(Cells)
      BY <3>3, <3>4, SubSeqProperties
    <3> QED
      BY <3>1, <3>2, <3>5 DEF FrontOfRest
  <2>2. raw[d] \in Seq(Cells)
    BY DEF TypeOK
  <2>3. PICK w : w = Overwrite(raw[d], o, Changed(FrontOfRest(d, n)))
    OBVIOUS
  <2>4. w \in Seq(Cells) /\ Len(w) = Len(raw[d])
    BY <2>1, <2>2, <2>3, OverwriteTypes
  <2>5. raw' = [raw EXCEPT ![d] = w]
    BY <1>1, <2>3
  <2> QED
    BY <2>4, <2>5 DEF TypeOK, RawStep
<1>2. CASE ~Changes(d)
  BY <1>2, SameRaw
<1> QED
  BY <1>1, <1>2

\* A step that calls the plugin once and goes on behind the packet.
LEMMA OneCallPasses ==
  ASSUME TypeInv, NEW d \in Sides, InLoop(d), NEW n \in Nat, NEW a \in Nat \ {0},
         Calling(d, <<CallWith(d, n)>>), Advance(d, a),
         UNCHANGED <<pc, packetQueue, mishaps>>
  PROVE  \E cs \in Seq(CallRecords), m \in Nat, l \in Leaving : Passes(d, cs, m, l)
<1>1. <<CallWith(d, n)>> \in Seq(CallRecords) /\ OwnCalls(d, <<CallWith(d, n)>>)
  BY CallTypes
<1>2. Goto(d, "loop") /\ "loop" \in Leaving
  BY DEF Goto, InLoop, TypeInv, TypeOK, Leaving
<1>3. QueueStep(d, <<CallWith(d, n)>>, a)
  BY DEF QueueStep
<1>4. Passes(d, <<CallWith(d, n)>>, a, "loop")
  BY <1>1, <1>2, <1>3 DEF Passes
<1> QED
  BY <1>1, <1>2, <1>4

\* A step that leaves the loop where it is, with some calls or none.
LEMMA LeavingPasses ==
  ASSUME TypeInv, NEW d \in Sides, NEW cs \in Seq(CallRecords), OwnCalls(d, cs),
         Calling(d, cs), NEW l \in {"forward", "hung"}, Goto(d, l),
         UNCHANGED <<cursor, packetQueue, mishaps>>
  PROVE  \E c \in Seq(CallRecords), m \in Nat, k \in Leaving : Passes(d, c, m, k)
<1>1. Advance(d, 0)
  <2>0. cursor \in [Sides -> Nat]
    BY DEF TypeInv, TypeOK
  <2>1. cursor[d] + 0 = cursor[d]
    BY <2>0
  <2>2. [cursor EXCEPT ![d] = cursor[d]] = cursor
    BY <2>0
  <2> QED
    BY <2>1, <2>2 DEF Advance
<1>2. QueueStep(d, cs, 0)
  BY DEF QueueStep
<1>3. Passes(d, cs, 0, l) /\ l \in Leaving
  BY <1>1, <1>2 DEF Passes, Leaving
<1> QED
  BY <1>3

LEMMA NoCalls ==
  ASSUME TypeInv, NEW d \in Sides, UNCHANGED called
  PROVE  << >> \in Seq(CallRecords) /\ OwnCalls(d, << >>) /\ Calling(d, << >>)
<1>1. called \in [Sides -> Seq(CallRecords)]
  BY DEF TypeInv, TypeOK, CallRecords
<1>2. called[d] \o << >> = called[d]
  BY <1>1, ConcatEmptySeq
<1>3. Calling(d, << >>)
  BY <1>1, <1>2 DEF Calling
<1>4. << >> \in Seq(CallRecords) /\ Len(<< >>) = 0
  BY EmptySeq
<1>5. OwnCalls(d, << >>)
  BY <1>4 DEF OwnCalls
<1> QED
  BY <1>3, <1>4, <1>5

LEMMA ProcessPacketPasses ==
  ASSUME TypeInv, NEW d \in Sides, ProcessPacket(d)
  PROVE  Passing(d)
<1>0. InLoop(d) /\ TypeOK
  BY DEF ProcessPacket, ServerPacket, TypeInv
<1> DEFINE Goal == \E cs \in Seq(CallRecords), n \in Nat, l \in Leaving :
                      Passes(d, cs, n, l)
<1>1. CASE d = "server" /\ CutPacket(d)
  <2>1. PICK h \in Headers(d) :
          /\ Left(d) < h.size /\ Keep(Append(packetQueue, Rest(d))) /\ Advance(d, h.size)
          /\ UNCHANGED <<arrived, raw, copy, pc, called, sent>>
    BY <1>1 DEF CutPacket
  <2>2. h.size \in Nat /\ h.size >= 1 /\ h.size > Left(d)
    BY <1>0, <2>1, HeaderTypes, RestOfChunk
  <2>3. Goto(d, "loop") /\ "loop" \in Leaving
    BY <1>0, <2>1 DEF Goto, InLoop, TypeOK, Leaving
  <2>4. QueueStep(d, << >>, h.size)
    BY <1>1, <2>1, <2>2 DEF QueueStep
  <2>5. << >> \in Seq(CallRecords) /\ OwnCalls(d, << >>) /\ Calling(d, << >>)
    BY <2>1, NoCalls
  <2>6. Passes(d, << >>, h.size, "loop")
    BY <2>1, <2>2, <2>3, <2>4, <2>5 DEF Passes
  <2>7. Goal
    BY <2>2, <2>3, <2>5, <2>6
  <2> QED
    BY <1>0, <2>1, <2>7, SameRaw DEF Passing
<1>2. CASE d = "server" /\ WholePacket(d)
  <2>1. PICK h \in Headers(d) :
          /\ h.size \in 1 .. Left(d) /\ Calling(d, <<CallWith(d, h.size)>>)
          /\ raw' = IF Changes(d)
                      THEN [raw EXCEPT ![d] =
                              Overwrite(@, cursor[d], Changed(FrontOfRest(d, h.size)))]
                      ELSE raw
          /\ Advance(d, h.size)
          /\ UNCHANGED <<arrived, copy, pc, packetQueue, sent, mishaps>>
    BY <1>2 DEF WholePacket
  <2>2. h.size \in Nat /\ h.size \in Nat \ {0} /\ cursor[d] \in Nat
    BY <1>0, <2>1, RestOfChunk
  <2>3. RawStep(d)
    BY <1>0, <2>1, <2>2, ChangedRaw
  <2>4. Goal
    BY <1>0, <2>1, <2>2, OneCallPasses
  <2> QED
    BY <1>0, <2>1, <2>3, <2>4 DEF Passing
<1>3. CASE d = "server" /\ EmptyPacket(d)
  <2>1. Goto(d, "hung")
        /\ UNCHANGED <<arrived, raw, copy, cursor, packetQueue, called, sent, mishaps>>
    BY <1>3 DEF EmptyPacket
  <2>2. << >> \in Seq(CallRecords) /\ OwnCalls(d, << >>) /\ Calling(d, << >>)
    BY <2>1, NoCalls
  <2>3. Goal
    BY <2>1, <2>2, LeavingPasses
  <2> QED
    BY <1>0, <2>1, <2>3, SameRaw DEF Passing
<1>4. CASE d = "server" /\ CompressedPacket(d)
  <2>1. PICK h \in Headers(d) :
          /\ h.kind = "compressed" /\ IsWhole(d, h.size) /\ Calling(d, InnerCalls(d))
          /\ Advance(d, h.size)
          /\ UNCHANGED <<arrived, raw, copy, pc, packetQueue, sent, mishaps>>
    BY <1>4 DEF CompressedPacket
  <2>2. h.size \in Nat /\ h.size >= 1
    BY <2>1, HeaderTypes
  <2>3. InnerCalls(d) \in Seq(CallRecords) /\ OwnCalls(d, InnerCalls(d))
    BY <2>1, InnerCallTypes DEF IsWhole
  <2>4. Goto(d, "loop") /\ "loop" \in Leaving
    BY <1>0, <2>1 DEF Goto, InLoop, TypeOK, Leaving
  <2>5. QueueStep(d, InnerCalls(d), h.size)
    BY <2>1 DEF QueueStep
  <2>6. Passes(d, InnerCalls(d), h.size, "loop")
    BY <2>1, <2>2, <2>3, <2>4, <2>5 DEF Passes
  <2>7. Goal
    BY <2>2, <2>3, <2>4, <2>6
  <2> QED
    BY <1>0, <2>1, <2>7, SameRaw DEF Passing
<1>5. CASE d = "server" /\ GarbledPacket(d)
  <2>1. PICK h \in Headers(d), cs \in {<< >>, <<Garbage>>} \cup SomeInnerCalls(d),
             kept \in {<< >>, << <<Stray>> >>}, l \in {"loop", "hung"} :
          /\ h.kind = "compressed" /\ Calling(d, cs)
          /\ Keep(QueueWithoutFirst \o kept)
          /\ Goto(d, l) /\ Advance(d, h.size)
          /\ UNCHANGED <<arrived, raw, copy, sent>>
    BY <1>5 DEF GarbledPacket, QueueWithoutFirst
  <2>2. h.size \in Nat /\ h.size >= 1 /\ l \in Leaving
    BY <2>1, HeaderTypes DEF Leaving
  <2>3. cs \in Seq(CallRecords) /\ OwnCalls(d, cs)
    <3>1. CASE cs = << >>
      BY <3>1 DEF OwnCalls
    <3>2. CASE cs = <<Garbage>>
      BY <3>2 DEF OwnCalls, Garbage, Call, CallRecords
    <3>3. CASE cs \in SomeInnerCalls(d)
      BY <3>3, InnerCallTypes DEF SomeInnerCalls
    <3> QED
      BY <2>1, <3>1, <3>2, <3>3
  <2>4. QueueWithoutFirst \o << >> = QueueWithoutFirst
    BY QueueTypes, ConcatEmptySeq
  <2>5. QueueStep(d, cs, h.size)
    BY <1>5, <2>1, <2>4 DEF QueueStep
  <2>6. Passes(d, cs, h.size, l)
    BY <2>1, <2>2, <2>3, <2>5 DEF Passes
  <2>7. Goal
    BY <2>2, <2>3, <2>6
  <2> QED
    BY <1>0, <2>1, <2>7, SameRaw DEF Passing
<1>6. CASE d = "server" /\ UnknownPacket(d)
  <2>1. Goto(d, "forward")
        /\ UNCHANGED <<arrived, raw, copy, cursor, packetQueue, called, sent, mishaps>>
    BY <1>6 DEF UnknownPacket
  <2>2. << >> \in Seq(CallRecords) /\ OwnCalls(d, << >>) /\ Calling(d, << >>)
    BY <2>1, NoCalls
  <2>3. Goal
    BY <2>1, <2>2, LeavingPasses
  <2> QED
    BY <1>0, <2>1, <2>3, SameRaw DEF Passing
<1>7. CASE d = "client" /\ ClientPacket(d)
  <2>1. PICK n \in PlainSizes(d) :
          /\ Calling(d, <<CallWith(d, n + 1)>>)
          /\ raw' = IF Changes(d)
                      THEN [raw EXCEPT ![d] =
                              Overwrite(@, cursor[d] + 1, Changed(FrontOfRest(d, n + 1)))]
                      ELSE raw
          /\ Advance(d, n + 1)
          /\ UNCHANGED <<arrived, copy, pc, packetQueue, sent, mishaps>>
    BY <1>7 DEF ClientPacket
  <2>2. n \in Nat
    BY PlainSizeTypes
  <2>3. n + 1 \in Nat /\ n + 1 \in Nat \ {0} /\ cursor[d] + 1 \in Nat
    BY <1>0, <2>2, RestOfChunk
  <2>4. RawStep(d)
    BY <1>0, <2>1, <2>3, ChangedRaw
  <2>5. Goal
    BY <1>0, <2>1, <2>3, OneCallPasses
  <2> QED
    BY <1>0, <2>1, <2>4, <2>5 DEF Passing
<1>8. CASE CallbackFails(d)
  <2>1. Goto(d, "forward")
        /\ UNCHANGED <<arrived, raw, copy, cursor, packetQueue, sent, mishaps>>
    BY <1>8 DEF CallbackFails
  <2>2. \E cs \in Seq(CallRecords) : OwnCalls(d, cs) /\ Calling(d, cs)
    <3>1. ASSUME NEW n \in Nat, Calling(d, <<CallWith(d, n)>>)
          PROVE  \E cs \in Seq(CallRecords) : OwnCalls(d, cs) /\ Calling(d, cs)
      BY <3>1, CallTypes
    <3>2. ASSUME NEW h \in Headers(d), Calling(d, <<CallWith(d, h.size)>>)
          PROVE  \E cs \in Seq(CallRecords) : OwnCalls(d, cs) /\ Calling(d, cs)
      BY <3>1, <3>2, HeaderTypes
    <3>3. ASSUME NEW n \in PlainSizes(d), Calling(d, <<CallWith(d, n + 1)>>)
          PROVE  \E cs \in Seq(CallRecords) : OwnCalls(d, cs) /\ Calling(d, cs)
      <4>1. n + 1 \in Nat
        BY PlainSizeTypes
      <4> QED
        BY <4>1, <3>1, <3>3
    <3>4. ASSUME NEW cs \in SomeInnerCalls(d) \cup {<<Garbage>>}, Calling(d, cs)
          PROVE  \E c \in Seq(CallRecords) : OwnCalls(d, c) /\ Calling(d, c)
      <4>1. CASE cs = <<Garbage>>
        <5>1. <<Garbage>> \in Seq(CallRecords) /\ OwnCalls(d, <<Garbage>>)
          BY DEF OwnCalls, Garbage, Call, CallRecords
        <5> QED
          BY <3>4, <4>1, <5>1
      <4>2. CASE cs \in SomeInnerCalls(d)
        BY <3>4, <4>2, InnerCallTypes DEF SomeInnerCalls
      <4> QED
        BY <3>4, <4>1, <4>2
    <3>5. \/ \E h \in Headers(d) : Calling(d, <<CallWith(d, h.size)>>)
          \/ \E cs \in SomeInnerCalls(d) \cup {<<Garbage>>} : Calling(d, cs)
          \/ \E n \in PlainSizes(d) : Calling(d, <<CallWith(d, n + 1)>>)
      BY <1>8 DEF CallbackFails
    <3> QED
      BY <3>2, <3>3, <3>4, <3>5
  <2>3. Goal
    BY <2>1, <2>2, LeavingPasses
  <2> QED
    BY <1>0, <2>1, <2>3, SameRaw DEF Passing
<1> QED
  BY <1>1, <1>2, <1>3, <1>4, <1>5, <1>6, <1>7, <1>8 DEF ProcessPacket, ServerPacket

LEMMA InitTypes == Init => TypeInv
<1> SUFFICES ASSUME Init PROVE TypeInv
  OBVIOUS
<1>1. << >> \in Seq(Cells) /\ << >> \in Seq(CallRecords) /\ << >> \in Seq(NonEmpty)
      /\ << >> \in Seq(Seq(Cells))
  BY EmptySeq
<1>2. arrived \in [Sides -> Nat] /\ cursor \in [Sides -> Nat] /\ pc \in [Sides -> Places]
  BY DEF Init, Places
<1>3. raw \in [Sides -> Seq(Cells)] /\ copy \in [Sides -> Seq(Cells)]
      /\ sent \in [Sides -> Seq(Cells)] /\ called \in [Sides -> Seq(CallRecords)]
  BY <1>1 DEF Init
<1> QED
  BY <1>1, <1>2, <1>3 DEF TypeInv, TypeOK, Init, Places, CallRecords

\* The queue holds fragments of cells if it holds fragments that are not empty.
LEMMA QueueTypeSuffices ==
  ASSUME NEW q \in Seq(NonEmpty) PROVE q \in Seq(Seq(Cells))
<1>1. NonEmpty \subseteq Seq(Cells)
  BY DEF NonEmpty
<1> QED
  BY <1>1, SeqMonotonic

LEMMA RecvTypes ==
  ASSUME TypeInv, NEW d \in Sides, Recv(d), losses' \subseteq Losses
  PROVE  TypeInv'
<1>1. PICK e \in Ends[d] :
        /\ arrived[d] < e
        /\ raw' = [raw EXCEPT ![d] =
                     [i \in 1 .. e - arrived[d] |-> Cell(d, arrived[d] + i)]]
        /\ arrived' = [arrived EXCEPT ![d] = e]
  BY DEF Recv
<1>2. PICK a \in Nat : a = arrived[d]
  BY DEF TypeInv, TypeOK
<1>3. e \in Nat /\ e - a \in Nat
  BY <1>1, <1>2, ProcessorAssumption
<1>4. \A i \in 1 .. e - a : Cell(d, a + i) \in Cells
  BY <1>2 DEF Cell, Cells
<1>5. [i \in 1 .. e - a |-> Cell(d, a + i)] \in Seq(Cells)
  BY <1>3, <1>4
<1>6. raw' \in [Sides -> Seq(Cells)] /\ arrived' \in [Sides -> Nat]
  BY <1>1, <1>2, <1>3, <1>5 DEF TypeInv, TypeOK
<1>7. pc' = [pc EXCEPT ![d] = "start"]
      /\ UNCHANGED <<copy, cursor, packetQueue, called, sent, mishaps>>
  BY DEF Recv, Goto
<1> QED
  BY <1>6, <1>7 DEF TypeInv, TypeOK

LEMMA CopyTypes ==
  ASSUME TypeInv, NEW d \in Sides, CopyPacket(d), losses' \subseteq Losses
  PROVE  TypeInv'
<1>1. /\ copy' = [copy EXCEPT ![d] = raw[d]] /\ cursor' = [cursor EXCEPT ![d] = 0]
      /\ UNCHANGED <<arrived, raw, packetQueue, called, sent, mishaps>>
  BY DEF CopyPacket
<1>2. PICK l \in {"loop", "pop"} : pc' = [pc EXCEPT ![d] = l]
  BY DEF CopyPacket, Goto
<1>3. raw[d] \in Seq(Cells)
  BY DEF TypeInv, TypeOK
<1>4. copy' \in [Sides -> Seq(Cells)] /\ cursor' \in [Sides -> Nat]
  BY <1>1, <1>3 DEF TypeInv, TypeOK
<1> QED
  BY <1>1, <1>2, <1>4 DEF TypeInv, TypeOK

\* A loss that a step names is one of the list.
LEMMA LossesTypes ==
  ASSUME losses \subseteq Losses, NEW d \in Sides, Recv(d) \/ Process(d)
  PROVE  losses' \subseteq Losses
<1>1. ASSUME NEW causes \in SUBSET Losses, Lose(causes) PROVE losses' \subseteq Losses
  BY <1>1 DEF Lose
<1>2. CASE Recv(d) \/ CopyPacket(d) \/ EndOfChunk(d) \/ Forward(d)
  BY <1>2 DEF Recv, CopyPacket, EndOfChunk, Forward
<1>3. CASE PopFragment(d)
  <2>1. \/ losses' = losses
        \/ losses' \in SUBSET {"taken", "dropped"}
        \/ \E chunk \in MovedUp(copy[d], Len(Head(packetQueue))) :
             losses' = (IF d = "client" THEN {"taken"} ELSE {})
                         \cup (IF chunk = copy[d] THEN {} ELSE {"repeated"})
    BY <1>3 DEF PopFragment, Lose
  <2> QED
    BY <2>1 DEF Losses
<1>4. CASE PopNothing(d)
  <2>1. Lose({"raced"}) /\ {"raced"} \in SUBSET Losses
    BY <1>4 DEF PopNothing, Losses
  <2> QED
    BY <1>1, <2>1
<1>5. CASE CutPacket(d) \/ WholePacket(d) \/ CompressedPacket(d) \/ UnknownPacket(d)
  BY <1>5 DEF CutPacket, WholePacket, CompressedPacket, UnknownPacket
<1>6. CASE EmptyPacket(d) \/ GarbledPacket(d) \/ ClientPacket(d)
  <2>1. CASE EmptyPacket(d)
    <3>1. Lose(CutHere(d, 2, "cut size"))
      BY <2>1 DEF EmptyPacket
    <3> QED
      BY <3>1 DEF Lose, CutHere, Losses
  <2>2. CASE GarbledPacket(d)
    <3>1. PICK h \in Headers(d) : Lose(CutHere(d, h.size, "cut compressed"))
      BY <2>2 DEF GarbledPacket
    <3> QED
      BY <3>1 DEF Lose, CutHere, Losses
  <2>3. CASE ClientPacket(d)
    <3>1. PICK n \in PlainSizes(d) : Lose(CutHere(d, n + 1, "cut crypted"))
      BY <2>3 DEF ClientPacket
    <3> QED
      BY <3>1 DEF Lose, CutHere, Losses
  <2> QED
    BY <1>6, <2>1, <2>2, <2>3
<1>7. CASE CallbackFails(d)
  <2>1. Lose({"refused"}) /\ {"refused"} \in SUBSET Losses
    BY <1>7 DEF CallbackFails, Losses
  <2> QED
    BY <1>1, <2>1
<1> QED
  BY <1>2, <1>3, <1>4, <1>5, <1>6, <1>7 DEF Process, ProcessPacket, ServerPacket

\* What putting a fragment before the chunk does to it.
LEMMA PopFragmentMoves ==
  ASSUME NEW d \in Sides, PopFragment(d)
  PROVE  \/ UNCHANGED <<copy, mishaps>>
         \/ /\ ~(Len(copy[d]) + Len(Head(packetQueue)) > BufferSize)
            /\ \E chunk \in MovedUp(copy[d], Len(Head(packetQueue))) :
                 /\ copy' = [copy EXCEPT ![d] = Head(packetQueue) \o chunk]
                 /\ mishaps' = mishaps \cup (IF chunk = copy[d] THEN {} ELSE {"repeated"})
  BY DEF PopFragment

LEMMA PopFragmentTypes ==
  ASSUME TypeInv, NEW d \in Sides, PopFragment(d), losses' \subseteq Losses
  PROVE  TypeInv'
<1>1. /\ packetQueue # << >> /\ packetQueue' = Tail(packetQueue)
      /\ pc' = [pc EXCEPT ![d] = "loop"]
      /\ UNCHANGED <<arrived, raw, cursor, called, sent>>
  BY DEF PopFragment, Goto
<1>2. packetQueue' \in Seq(NonEmpty)
  BY <1>1, QueueTypes DEF QueueWithoutFirst
<1>3. PICK f \in Seq(Cells) : f = Head(packetQueue) /\ Len(f) \in Nat \ {0}
  BY <1>1, QueueTypes
<1>4. copy' \in [Sides -> Seq(Cells)] /\ mishaps' \subseteq {"repeated", "two kept"}
  <2>1. CASE UNCHANGED <<copy, mishaps>>
    BY <2>1 DEF TypeInv, TypeOK
  <2>2. ASSUME NEW chunk \in MovedUp(copy[d], Len(f)),
               copy' = [copy EXCEPT ![d] = f \o chunk],
               mishaps' = mishaps \cup (IF chunk = copy[d] THEN {} ELSE {"repeated"})
        PROVE  copy' \in [Sides -> Seq(Cells)]
               /\ mishaps' \subseteq {"repeated", "two kept"}
    <3>1. chunk \in Seq(Cells)
      BY <1>3, MovedUpTypes DEF TypeInv, TypeOK
    <3>2. f \o chunk \in Seq(Cells)
      BY <3>1, ConcatProperties
    <3>3. mishaps \subseteq {"repeated", "two kept"}
      BY DEF TypeInv, TypeOK
    <3>4. copy' \in [Sides -> Seq(Cells)]
      BY <2>2, <3>2 DEF TypeInv, TypeOK
    <3> QED
      BY <2>2, <3>3, <3>4
  <2> QED
    BY <1>3, <2>1, <2>2, PopFragmentMoves
<1>5. pc' \in [Sides -> Places]
  BY <1>1 DEF TypeInv, TypeOK, Places
<1>6. packetQueue' \in Seq(Seq(Cells))
  BY <1>2, QueueTypeSuffices
<1> QED
  BY <1>1, <1>2, <1>4, <1>5, <1>6 DEF TypeInv, TypeOK, Places

LEMMA ForwardTypes ==
  ASSUME TypeInv, NEW d \in Sides, Forward(d), losses' \subseteq Losses
  PROVE  TypeInv'
<1>1. /\ sent' = [sent EXCEPT ![d] = sent[d] \o raw[d]]
      /\ raw' = [raw EXCEPT ![d] = << >>]
      /\ copy' = [copy EXCEPT ![d] = << >>]
      /\ cursor' = [cursor EXCEPT ![d] = 0]
      /\ pc' = [pc EXCEPT ![d] = "recv"]
      /\ UNCHANGED <<arrived, packetQueue, called, mishaps>>
  BY DEF Forward, Goto
<1>2. sent[d] \in Seq(Cells) /\ raw[d] \in Seq(Cells) /\ << >> \in Seq(Cells)
  BY EmptySeq DEF TypeInv, TypeOK
<1>3. sent[d] \o raw[d] \in Seq(Cells)
  BY <1>2, ConcatProperties
<1>4. sent' \in [Sides -> Seq(Cells)] /\ raw' \in [Sides -> Seq(Cells)]
      /\ copy' \in [Sides -> Seq(Cells)] /\ cursor' \in [Sides -> Nat]
  BY <1>1, <1>2, <1>3 DEF TypeInv, TypeOK
<1>5. pc' \in [Sides -> Places]
  BY <1>1 DEF TypeInv, TypeOK, Places
<1> QED
  BY <1>1, <1>4, <1>5 DEF TypeInv, TypeOK, Places

LEMMA KeepTypes ==
  ASSUME TypeInv, NEW q \in Seq(NonEmpty), Keep(q)
  PROVE  packetQueue' \in Seq(NonEmpty) /\ mishaps' \subseteq {"repeated", "two kept"}
BY DEF Keep, TypeInv, TypeOK

LEMMA PassingTypes ==
  ASSUME TypeInv, NEW d \in Sides, Passing(d), losses' \subseteq Losses
  PROVE  TypeInv'
<1>1. PICK cs \in Seq(CallRecords), n \in Nat, l \in Leaving : Passes(d, cs, n, l)
  BY DEF Passing
<1>2. /\ called' = [called EXCEPT ![d] = called[d] \o cs]
      /\ cursor' = [cursor EXCEPT ![d] = cursor[d] + n]
      /\ pc' = [pc EXCEPT ![d] = l]
      /\ UNCHANGED <<arrived, copy, sent>>
      /\ raw' \in [Sides -> Seq(Cells)]
  BY <1>1 DEF Passing, Passes, RawStep, Calling, Advance, Goto
<1>3. called \in [Sides -> Seq(CallRecords)] /\ cursor \in [Sides -> Nat]
  BY DEF TypeInv, TypeOK, CallRecords
<1>4. called[d] \o cs \in Seq(CallRecords) /\ cursor[d] + n \in Nat
  BY <1>3, ConcatProperties
<1>5. called' \in [Sides -> Seq(CallRecords)] /\ cursor' \in [Sides -> Nat]
  BY <1>2, <1>3, <1>4
<1>6. pc' \in [Sides -> Places]
  BY <1>2 DEF TypeInv, TypeOK, Places, Leaving
<1>7. packetQueue' \in Seq(NonEmpty) /\ mishaps' \subseteq {"repeated", "two kept"}
  <2>1. CASE UNCHANGED <<packetQueue, mishaps>>
    BY <2>1 DEF TypeInv, TypeOK
  <2>2. CASE Keep(Append(packetQueue, Rest(d)))
    <3>1. Rest(d) \in NonEmpty
      BY RestOfChunk DEF Passing, TypeInv, NonEmpty
    <3>2. Append(packetQueue, Rest(d)) \in Seq(NonEmpty)
      BY <3>1, AppendProperties DEF TypeInv
    <3> QED
      BY <2>2, <3>2, KeepTypes
  <2>3. CASE Keep(QueueWithoutFirst) \/ Keep(QueueWithoutFirst \o << <<Stray>> >>)
    <3>1. QueueWithoutFirst \in Seq(NonEmpty)
      BY QueueTypes
    <3>2. <<Stray>> \in NonEmpty
      BY DEF Stray, Cells, NonEmpty, Sides
    <3>3. << <<Stray>> >> \in Seq(NonEmpty)
      BY <3>2
    <3>4. QueueWithoutFirst \o << <<Stray>> >> \in Seq(NonEmpty)
      BY <3>1, <3>3, ConcatProperties
    <3> QED
      BY <2>3, <3>1, <3>4, KeepTypes
  <2> QED
    BY <1>1, <2>1, <2>2, <2>3 DEF Passes, QueueStep
<1>8. packetQueue' \in Seq(Seq(Cells))
  BY <1>7, QueueTypeSuffices
<1> QED
  BY <1>2, <1>5, <1>6, <1>7, <1>8 DEF TypeInv, TypeOK, Places, CallRecords

LEMMA NextTypes == TypeInv /\ [Next]_processorVars => TypeInv'
<1> SUFFICES ASSUME TypeInv, [Next]_processorVars PROVE TypeInv'
  OBVIOUS
<1>1. CASE UNCHANGED processorVars
  BY <1>1 DEF TypeInv, TypeOK, processorVars
<1>0. losses \subseteq Losses
  BY DEF TypeInv, TypeOK
<1>2. ASSUME NEW d \in Sides, Recv(d) PROVE TypeInv'
  BY <1>0, <1>2, LossesTypes, RecvTypes
<1>3. ASSUME NEW d \in Sides, Process(d) PROVE TypeInv'
  <2>0. losses' \subseteq Losses
    BY <1>0, <1>3, LossesTypes
  <2>1. CASE CopyPacket(d)
    BY <2>0, <2>1, CopyTypes
  <2>2. CASE PopFragment(d)
    BY <2>0, <2>2, PopFragmentTypes
  <2>3. CASE PopNothing(d)
    BY <2>0, <2>3 DEF PopNothing, TypeInv, TypeOK
  <2>4. CASE ProcessPacket(d)
    BY <2>0, <2>4, ProcessPacketPasses, PassingTypes
  <2>5. CASE EndOfChunk(d)
    BY <2>0, <2>5 DEF EndOfChunk, Goto, TypeInv, TypeOK
  <2>6. CASE Forward(d)
    BY <2>0, <2>6, ForwardTypes
  <2> QED
    BY <1>3, <2>1, <2>2, <2>3, <2>4, <2>5, <2>6 DEF Process
<1> QED
  BY <1>1, <1>2, <1>3 DEF Next

\* The variables keep their types; the fragments in the queue are never empty, and
\* no reading of a header, however wrong, moves a listener's cursor back
\* (PacketProcessor.c:94-95, 183-184).
THEOREM TypesAreCorrect == Spec => []TypeOK
<1>1. Init => TypeInv
  BY InitTypes
<1>2. TypeInv /\ [Next]_processorVars => TypeInv'
  BY NextTypes
<1>3. TypeInv => TypeOK
  BY DEF TypeInv
<1> QED
  BY <1>1, <1>2, <1>3, PTL DEF Spec

-----------------------------------------------------------------------------
(* No packet comes twice, or after a later one.                            *)

\* A cell that stands before another in a chunk, or in the fragment before it, is
\* another cell of the stream; an earlier one, as long as nothing went wrong.
\* What decompressed garbage leaves has no place in the stream.
InOrder(m, a, b) ==
  (a.side = b.side /\ a.pos # 0 /\ b.pos # 0) =>
    a.pos # b.pos /\ (m = {} => a.pos < b.pos)

\* The calls made for one stream.
CallsInOrder(cs, m) ==
  /\ \A i \in 1 .. Len(cs) : cs[i] = Garbage \/ cs[i].start >= 1
  /\ \A i, j \in 1 .. Len(cs) :
       (i < j /\ cs[i] # Garbage /\ cs[j] # Garbage) =>
         cs[i] # cs[j] /\ (m = {} => Before(cs[i], cs[j]))

\* The chunk c of side d, looked at up to cell k, behind the calls cs; what has
\* arrived ends with cell top.
Line(d, c, k, m, cs, top) ==
  /\ d = "server" => \A i \in 1 .. Len(c) : c[i].side = "server"
  /\ \A i \in 1 .. Len(c) : c[i].side = d => c[i].pos <= top
  /\ \A i, j \in k + 1 .. Len(c) : i < j => InOrder(m, c[i], c[j])
  /\ \A x \in 1 .. Len(cs) : \A i \in k + 1 .. Len(c) :
       InOrder(m, Cell(d, cs[x].start), c[i])

\* The fragments q in the queue, behind the server's calls cs; what it has
\* received before the chunk it holds ends with cell top.
Kept(q, m, cs, top) ==
  /\ \A f \in 1 .. Len(q) : \A i \in 1 .. Len(q[f]) :
       q[f][i].side = "server" /\ q[f][i].pos <= top
  /\ \A f \in 1 .. Len(q) : \A i, j \in 1 .. Len(q[f]) :
       i < j => InOrder(m, q[f][i], q[f][j])
  /\ \A f, g \in 1 .. Len(q) : f < g =>
       \A i \in 1 .. Len(q[f]) : \A j \in 1 .. Len(q[g]) : InOrder(m, q[f][i], q[g][j])
  /\ \A x \in 1 .. Len(cs) : \A f \in 1 .. Len(q) : \A i \in 1 .. Len(q[f]) :
       InOrder(m, Cell("server", cs[x].start), q[f][i])
  /\ m = {} => Len(q) <= 1

\* The fragments in the queue and what is left of the server's chunk: different
\* cells, and at first there are no fragments but garbage until the chunk is done.
Meet(q, m, c, k) ==
  \A f \in 1 .. Len(q) : \A i \in 1 .. Len(q[f]) : \A j \in k + 1 .. Len(c) :
    InOrder(m, q[f][i], c[j]) /\ (m = {} => q[f][i].pos = 0)

\* The cells of the chunk a listener holds count as seen once its copy is made and
\* the fragment is before it.
Seen(d) ==
  IF pc[d] \in {"start", "pop"} THEN arrived[d] - Len(raw[d]) ELSE arrived[d]

Fresh(d) ==
  pc[d] \in {"start", "pop"} =>
    /\ Len(raw[d]) <= arrived[d]
    /\ \A i \in 1 .. Len(raw[d]) : raw[d][i] = Cell(d, Seen(d) + i)
    /\ pc[d] = "pop" => copy[d] = raw[d] /\ cursor[d] = 0

ListenerInv(d) ==
  /\ Fresh(d)
  /\ \A x \in 1 .. Len(called[d]) : called[d][x].start <= Seen(d)
  /\ CallsInOrder(called[d], mishaps)
  /\ pc[d] = "loop" =>
       Line(d, copy[d], cursor[d], mishaps, called[d], arrived[d])

FragmentsInv ==
  /\ Kept(packetQueue, mishaps, called["server"], Seen("server"))
  /\ pc["server"] = "loop" =>
       Meet(packetQueue, mishaps, copy["server"], cursor["server"])

OnceInv ==
  "repeated" \notin mishaps =>
    /\ \A d \in Sides : ListenerInv(d)
    /\ FragmentsInv

LEMMA OnceInvSuffices == TypeInv /\ OnceInv => PacketsComeOnce
<1> SUFFICES ASSUME TypeInv, OnceInv, NEW d \in Sides,
                    NEW i \in DOMAIN called[d], NEW j \in DOMAIN called[d],
                    i < j, called[d][i] # Garbage, called[d][j] # Garbage,
                    "repeated" \notin mishaps
             PROVE  /\ called[d][i] # called[d][j]
                    /\ mishaps = {} => Before(called[d][i], called[d][j])
  BY DEF PacketsComeOnce
<1>1. called[d] \in Seq(CallRecords)
  BY DEF TypeInv, TypeOK, CallRecords
<1>2. i \in 1 .. Len(called[d]) /\ j \in 1 .. Len(called[d])
  BY <1>1
<1>3. CallsInOrder(called[d], mishaps)
  BY DEF OnceInv, ListenerInv
<1> QED
  BY <1>2, <1>3 DEF CallsInOrder

-----------------------------------------------------------------------------
(* Lines of cells, for any chunk, fragments and calls.                     *)

LEMMA InOrderStays ==
  ASSUME NEW m, NEW n, m \subseteq n, NEW a, NEW b, InOrder(m, a, b)
  PROVE  InOrder(n, a, b)
BY DEF InOrder

LEMMA LineStays ==
  ASSUME NEW d, NEW c, NEW k \in Nat, NEW l \in Nat, k <= l, NEW m, NEW n,
         m \subseteq n, NEW cs, NEW top, Line(d, c, k, m, cs, top),
         Len(c) \in Nat
  PROVE  Line(d, c, l, n, cs, top)
<1>1. l + 1 .. Len(c) \subseteq k + 1 .. Len(c)
  OBVIOUS
<1>2. \A i, j \in l + 1 .. Len(c) : i < j => InOrder(n, c[i], c[j])
  BY <1>1, InOrderStays DEF Line
<1>3. \A x \in 1 .. Len(cs) : \A i \in l + 1 .. Len(c) :
        InOrder(n, Cell(d, cs[x].start), c[i])
  BY <1>1, InOrderStays DEF Line
<1> QED
  BY <1>2, <1>3 DEF Line

LEMMA CallsStay ==
  ASSUME NEW m, NEW n, m \subseteq n, NEW cs, CallsInOrder(cs, m)
  PROVE  CallsInOrder(cs, n)
BY DEF CallsInOrder

LEMMA KeptStays ==
  ASSUME NEW q, NEW m, NEW n, m \subseteq n, NEW cs, NEW top \in Int, NEW t \in Int,
         top <= t, Kept(q, m, cs, top),
         \A f \in 1 .. Len(q) : \A i \in 1 .. Len(q[f]) : q[f][i].pos \in Nat
  PROVE  Kept(q, n, cs, t)
<1>1. \A f \in 1 .. Len(q) : \A i \in 1 .. Len(q[f]) :
        q[f][i].side = "server" /\ q[f][i].pos <= t
  BY DEF Kept
<1>2. \A f \in 1 .. Len(q) : \A i, j \in 1 .. Len(q[f]) :
        i < j => InOrder(n, q[f][i], q[f][j])
  BY InOrderStays DEF Kept
<1>3. \A f, g \in 1 .. Len(q) : f < g =>
        \A i \in 1 .. Len(q[f]) : \A j \in 1 .. Len(q[g]) : InOrder(n, q[f][i], q[g][j])
  BY InOrderStays DEF Kept
<1>4. \A x \in 1 .. Len(cs) : \A f \in 1 .. Len(q) : \A i \in 1 .. Len(q[f]) :
        InOrder(n, Cell("server", cs[x].start), q[f][i])
  BY InOrderStays DEF Kept
<1>5. n = {} => Len(q) <= 1
  BY DEF Kept
<1> QED
  BY <1>1, <1>2, <1>3, <1>4, <1>5 DEF Kept

LEMMA MeetStays ==
  ASSUME NEW q, NEW m, NEW n, m \subseteq n, NEW c, NEW k \in Nat, NEW l \in Nat,
         k <= l, Len(c) \in Nat, Meet(q, m, c, k)
  PROVE  Meet(q, n, c, l)
<1>1. l + 1 .. Len(c) \subseteq k + 1 .. Len(c)
  OBVIOUS
<1> QED
  BY <1>1, InOrderStays DEF Meet

\* The calls of a step with the packet whose first cell is c[k + 1].
NewCalls(d, c, k, ns) ==
  \A x \in 1 .. Len(ns) :
    ns[x] = Garbage \/ (c[k + 1].side = d /\ c[k + 1].pos >= 1
                        /\ ns[x] = Call(c[k + 1].pos, x))

\* The elements of two sequences behind one another.
LEMMA ElementsOfConcat ==
  ASSUME NEW S, NEW s \in Seq(S), NEW t \in Seq(S), NEW x \in 1 .. Len(s \o t)
  PROVE  \/ x \in 1 .. Len(s) /\ (s \o t)[x] = s[x]
         \/ /\ x > Len(s) /\ x - Len(s) \in 1 .. Len(t)
            /\ (s \o t)[x] = t[x - Len(s)]
<1>1. Len(s) \in Nat /\ Len(t) \in Nat /\ Len(s \o t) = Len(s) + Len(t)
  BY LenProperties, ConcatProperties
<1>2. (s \o t)[x] = IF x <= Len(s) THEN s[x] ELSE t[x - Len(s)]
  BY <1>1, ConcatProperties
<1> QED
  BY <1>1, <1>2

LEMMA LineBehindCalls ==
  ASSUME NEW d \in Sides, NEW c \in Seq(Cells), NEW k \in Nat, k < Len(c),
         NEW m, NEW cs \in Seq(CallRecords), NEW top,
         Line(d, c, k, m, cs, top), NEW ns \in Seq(CallRecords),
         NewCalls(d, c, k, ns), NEW l \in Nat, k < l
  PROVE  Line(d, c, l, m, cs \o ns, top)
<1>0. Len(c) \in Nat
  BY LenProperties
<1>1. Line(d, c, l, m, cs, top)
  BY <1>0, LineStays
<1>2. ASSUME NEW x \in 1 .. Len(cs \o ns), NEW i \in l + 1 .. Len(c)
      PROVE  InOrder(m, Cell(d, (cs \o ns)[x].start), c[i])
  <2>1. CASE x \in 1 .. Len(cs) /\ (cs \o ns)[x] = cs[x]
    BY <1>1, <2>1 DEF Line
  <2>2. ASSUME NEW y \in 1 .. Len(ns), (cs \o ns)[x] = ns[y]
        PROVE  InOrder(m, Cell(d, (cs \o ns)[x].start), c[i])
    <3>1. CASE ns[y] = Garbage
      BY <2>2, <3>1 DEF Garbage, Call, Cell, InOrder
    <3>2. CASE c[k + 1].side = d /\ ns[y] = Call(c[k + 1].pos, y)
      <4>1. k + 1 \in k + 1 .. Len(c) /\ i \in k + 1 .. Len(c) /\ k + 1 < i
        BY <1>0
      <4>2. InOrder(m, c[k + 1], c[i])
        BY <4>1 DEF Line
      <4>3. Cell(d, (cs \o ns)[x].start).side = c[k + 1].side
            /\ Cell(d, (cs \o ns)[x].start).pos = c[k + 1].pos
        BY <2>2, <3>2 DEF Cell, Call
      <4> QED
        BY <4>2, <4>3 DEF InOrder
    <3> QED
      BY <3>1, <3>2 DEF NewCalls
  <2> QED
    BY <2>1, <2>2, ElementsOfConcat
<1> QED
  BY <1>1, <1>2 DEF Line

LEMMA MoreCallsInOrder ==
  ASSUME NEW d \in Sides, NEW c \in Seq(Cells), NEW k \in Nat, k < Len(c),
         NEW m, NEW cs \in Seq(CallRecords), NEW top,
         Line(d, c, k, m, cs, top), NEW ns \in Seq(CallRecords),
         NewCalls(d, c, k, ns), CallsInOrder(cs, m)
  PROVE  CallsInOrder(cs \o ns, m)
<1> DEFINE all == cs \o ns
<1>0. k + 1 \in k + 1 .. Len(c) /\ c[k + 1] \in Cells
  BY LenProperties, ElementOfSeq
<1>1. \A x \in 1 .. Len(all) :
        \/ x \in 1 .. Len(cs) /\ all[x] = cs[x]
        \/ x > Len(cs) /\ x - Len(cs) \in 1 .. Len(ns) /\ all[x] = ns[x - Len(cs)]
  BY ElementsOfConcat
<1>2. /\ Len(cs) \in Nat /\ Len(ns) \in Nat /\ Len(all) \in Nat
      /\ \A x \in 1 .. Len(cs) : cs[x] \in CallRecords
      /\ \A x \in 1 .. Len(ns) : ns[x] \in CallRecords
  BY LenProperties, ElementOfSeq, ConcatProperties
<1> HIDE DEF all
<1>3. \A x \in 1 .. Len(ns) :
        \/ ns[x] = Garbage
        \/ /\ ns[x].start = c[k + 1].pos /\ ns[x].nth = x
           /\ c[k + 1].pos >= 1 /\ c[k + 1].side = d
  <2>1. \A p, x : Call(p, x).start = p /\ Call(p, x).nth = x
    BY DEF Call
  <2> QED
    BY <2>1 DEF NewCalls
<1>4. ASSUME NEW x \in 1 .. Len(all)
      PROVE  all[x] = Garbage \/ all[x].start >= 1
  <2>1. CASE x \in 1 .. Len(cs) /\ all[x] = cs[x]
    BY <2>1 DEF CallsInOrder
  <2>2. ASSUME NEW y \in 1 .. Len(ns), all[x] = ns[y]
        PROVE  all[x] = Garbage \/ all[x].start >= 1
    BY <1>3, <2>2
  <2> QED
    BY <1>1, <2>1, <2>2
<1>5. ASSUME NEW x \in 1 .. Len(all), NEW y \in 1 .. Len(all), x < y,
             all[x] # Garbage, all[y] # Garbage
      PROVE  all[x] # all[y] /\ (m = {} => Before(all[x], all[y]))
  <2>1. CASE y \in 1 .. Len(cs) /\ all[y] = cs[y]
    <3>1. x \in 1 .. Len(cs) /\ all[x] = cs[x]
      BY <1>1, <1>2, <1>5, <2>1
    <3> QED
      BY <1>5, <2>1, <3>1 DEF CallsInOrder
  <2>2. ASSUME NEW b \in 1 .. Len(ns), b = y - Len(cs), all[y] = ns[b]
        PROVE  all[x] # all[y] /\ (m = {} => Before(all[x], all[y]))
    <3>1. ns[b].start = c[k + 1].pos /\ ns[b].nth = b /\ c[k + 1].pos >= 1
          /\ c[k + 1].side = d
      BY <1>3, <1>5, <2>2
    <3>2. CASE x \in 1 .. Len(cs) /\ all[x] = cs[x]
      <4>1. InOrder(m, Cell(d, cs[x].start), c[k + 1])
        BY <1>0, <3>2 DEF Line
      <4>2. cs[x].start >= 1 /\ cs[x].start # 0 /\ c[k + 1].pos # 0
        <5>1. cs[x].start \in Nat /\ cs[x].start >= 1
          BY <1>2, <1>5, <3>2 DEF CallsInOrder, CallRecords
        <5>2. c[k + 1].pos \in Nat
          BY <1>0 DEF Cells
        <5> QED
          BY <3>1, <5>1, <5>2
      <4>3. cs[x].start # c[k + 1].pos /\ (m = {} => cs[x].start < c[k + 1].pos)
        BY <3>1, <4>1, <4>2 DEF InOrder, Cell
      <4> QED
        BY <2>2, <3>1, <3>2, <4>3 DEF Before
    <3>3. ASSUME NEW a \in 1 .. Len(ns), a = x - Len(cs), all[x] = ns[a]
          PROVE  all[x] # all[y] /\ (m = {} => Before(all[x], all[y]))
      <4>1. ns[a].start = c[k + 1].pos /\ ns[a].nth = a
        BY <1>3, <1>5, <3>3
      <4>2. a < b
        BY <1>2, <1>5, <2>2, <3>3
      <4> QED
        BY <2>2, <3>1, <3>3, <4>1, <4>2 DEF Before
    <3> QED
      BY <1>1, <3>2, <3>3
  <2> QED
    BY <1>1, <2>1, <2>2
<1> QED
  BY <1>4, <1>5 DEF CallsInOrder, all

LEMMA KeptBehindCalls ==
  ASSUME NEW q \in Seq(NonEmpty), NEW c \in Seq(Cells), NEW k \in Nat, k < Len(c),
         NEW m, NEW cs \in Seq(CallRecords), NEW top, Kept(q, m, cs, top),
         Meet(q, m, c, k), NEW ns \in Seq(CallRecords), NewCalls("server", c, k, ns)
  PROVE  Kept(q, m, cs \o ns, top)
<1>0. k + 1 \in k + 1 .. Len(c)
  BY LenProperties
<1>1. ASSUME NEW x \in 1 .. Len(cs \o ns), NEW f \in 1 .. Len(q),
             NEW i \in 1 .. Len(q[f])
      PROVE  InOrder(m, Cell("server", (cs \o ns)[x].start), q[f][i])
  <2>1. CASE x \in 1 .. Len(cs) /\ (cs \o ns)[x] = cs[x]
    BY <2>1 DEF Kept
  <2>2. ASSUME NEW y \in 1 .. Len(ns), (cs \o ns)[x] = ns[y]
        PROVE  InOrder(m, Cell("server", (cs \o ns)[x].start), q[f][i])
    <3>1. CASE ns[y] = Garbage
      BY <2>2, <3>1 DEF Garbage, Call, Cell, InOrder
    <3>2. CASE c[k + 1].side = "server" /\ ns[y] = Call(c[k + 1].pos, y)
      <4>1. InOrder(m, q[f][i], c[k + 1]) /\ (m = {} => q[f][i].pos = 0)
        BY <1>0 DEF Meet
      <4>2. /\ Cell("server", (cs \o ns)[x].start).side = c[k + 1].side
            /\ Cell("server", (cs \o ns)[x].start).pos = c[k + 1].pos
        BY <2>2, <3>2 DEF Cell, Call
      <4> QED
        BY <4>1, <4>2 DEF InOrder
    <3> QED
      BY <3>1, <3>2 DEF NewCalls
  <2> QED
    BY <2>1, <2>2, ElementsOfConcat
<1> QED
  BY <1>1 DEF Kept

\* Two fragments are kept at the same time: nothing is said of the order any more.
LEMMA KeptWithRest ==
  ASSUME NEW q \in Seq(NonEmpty), NEW c \in Seq(Cells), NEW k \in Nat, k < Len(c),
         NEW m, NEW cs, NEW top, Kept(q, m, cs, top), Meet(q, m, c, k),
         Line("server", c, k, m, cs, top), NEW r \in NonEmpty,
         Len(r) = Len(c) - k, \A i \in 1 .. Len(c) - k : r[i] = c[k + i],
         NEW n, m \subseteq n, n = {} => q = << >>
  PROVE  Kept(Append(q, r), n, cs, top)
<1> DEFINE a == Append(q, r)
<1>1. /\ Len(q) \in Nat /\ Len(a) = Len(q) + 1 /\ a[Len(q) + 1] = r
      /\ \A f \in 1 .. Len(q) : a[f] = q[f]
  BY AppendProperties, LenProperties
<1> HIDE DEF a
<1>2. \A f \in 1 .. Len(a) :
        (f \in 1 .. Len(q) /\ a[f] = q[f]) \/ (f = Len(q) + 1 /\ a[f] = r)
  BY <1>1
<1>3. /\ Len(c) \in Nat /\ Len(c) - k \in Nat
      /\ \A i \in 1 .. Len(r) : k + i \in k + 1 .. Len(c) /\ k + i \in 1 .. Len(c)
                                /\ r[i] = c[k + i]
  BY LenProperties
<1>4. ASSUME NEW f \in 1 .. Len(a), NEW i \in 1 .. Len(a[f])
      PROVE  a[f][i].side = "server" /\ a[f][i].pos <= top
  <2>1. CASE f \in 1 .. Len(q) /\ a[f] = q[f]
    BY <1>4, <2>1 DEF Kept
  <2>2. CASE a[f] = r
    BY <1>3, <1>4, <2>2 DEF Line
  <2> QED
    BY <1>2, <2>1, <2>2
<1>5. ASSUME NEW f \in 1 .. Len(a), NEW i \in 1 .. Len(a[f]), NEW j \in 1 .. Len(a[f]),
             i < j
      PROVE  InOrder(n, a[f][i], a[f][j])
  <2>1. CASE f \in 1 .. Len(q) /\ a[f] = q[f]
    BY <1>5, <2>1, InOrderStays DEF Kept
  <2>2. CASE a[f] = r
    <3>1. k + i < k + j
      BY <1>5
    <3>2. InOrder(m, c[k + i], c[k + j])
      BY <1>3, <1>5, <2>2, <3>1 DEF Line
    <3> QED
      BY <1>3, <1>5, <2>2, <3>2, InOrderStays
  <2> QED
    BY <1>2, <2>1, <2>2
<1>6. ASSUME NEW f \in 1 .. Len(a), NEW g \in 1 .. Len(a), f < g,
             NEW i \in 1 .. Len(a[f]), NEW j \in 1 .. Len(a[g])
      PROVE  InOrder(n, a[f][i], a[g][j])
  <2>1. f \in 1 .. Len(q) /\ a[f] = q[f]
    BY <1>1, <1>2, <1>6
  <2>2. CASE g \in 1 .. Len(q) /\ a[g] = q[g]
    BY <1>6, <2>1, <2>2, InOrderStays DEF Kept
  <2>3. CASE a[g] = r
    <3>1. InOrder(m, q[f][i], c[k + j])
      BY <1>3, <1>6, <2>1, <2>3 DEF Meet
    <3> QED
      BY <1>3, <1>6, <2>1, <2>3, <3>1, InOrderStays
  <2> QED
    BY <1>2, <2>2, <2>3
<1>7. ASSUME NEW x \in 1 .. Len(cs), NEW f \in 1 .. Len(a), NEW i \in 1 .. Len(a[f])
      PROVE  InOrder(n, Cell("server", cs[x].start), a[f][i])
  <2>1. CASE f \in 1 .. Len(q) /\ a[f] = q[f]
    BY <1>7, <2>1, InOrderStays DEF Kept
  <2>2. CASE a[f] = r
    <3>1. InOrder(m, Cell("server", cs[x].start), c[k + i])
      BY <1>3, <1>7, <2>2 DEF Line
    <3> QED
      BY <1>3, <1>7, <2>2, <3>1, InOrderStays
  <2> QED
    BY <1>2, <2>1, <2>2
<1>8. n = {} => Len(a) <= 1
  BY <1>1
<1>9. Kept(a, n, cs, top)
  BY <1>4, <1>5, <1>6, <1>7, <1>8 DEF Kept
<1> QED
  BY <1>9 DEF a

\* A queue of some of the fragments of another, in the same order, and of strays.
From(p, q) ==
  /\ Len(p) \in Nat
  /\ \A f \in 1 .. Len(p) :
       \/ f + 1 \in 1 .. Len(q) /\ p[f] = q[f + 1]
       \/ p[f] = <<Stray>>

LEMMA KeptFrom ==
  ASSUME NEW q, NEW p, From(p, q), NEW m, NEW n, m \subseteq n, NEW cs,
         NEW top \in Nat, Kept(q, m, cs, top), n = {} => Len(p) <= 1
  PROVE  Kept(p, n, cs, top)
<1>0. /\ Len(<<Stray>>) = 1 /\ <<Stray>>[1] = Stray
      /\ Stray.side = "server" /\ Stray.pos = 0
  BY DEF Stray
<1>1. ASSUME NEW f \in 1 .. Len(p), NEW i \in 1 .. Len(p[f])
      PROVE  p[f][i].side = "server" /\ p[f][i].pos <= top
  <2>1. CASE f + 1 \in 1 .. Len(q) /\ p[f] = q[f + 1]
    BY <1>1, <2>1 DEF Kept
  <2>2. CASE p[f] = <<Stray>>
    BY <1>0, <1>1, <2>2
  <2> QED
    BY <2>1, <2>2 DEF From
<1>2. \A a : InOrder(n, a, Stray) /\ InOrder(n, Stray, a)
  BY <1>0 DEF InOrder
<1>3. ASSUME NEW f \in 1 .. Len(p), NEW i \in 1 .. Len(p[f]), NEW j \in 1 .. Len(p[f]),
             i < j
      PROVE  InOrder(n, p[f][i], p[f][j])
  <2>1. CASE f + 1 \in 1 .. Len(q) /\ p[f] = q[f + 1]
    BY <1>3, <2>1, InOrderStays DEF Kept
  <2>2. CASE p[f] = <<Stray>>
    BY <1>0, <1>3, <2>2
  <2> QED
    BY <2>1, <2>2 DEF From
<1>4. ASSUME NEW f \in 1 .. Len(p), NEW g \in 1 .. Len(p), f < g,
             NEW i \in 1 .. Len(p[f]), NEW j \in 1 .. Len(p[g])
      PROVE  InOrder(n, p[f][i], p[g][j])
  <2>1. CASE p[f] = <<Stray>>
    BY <1>0, <1>2, <1>4, <2>1
  <2>2. CASE p[g] = <<Stray>>
    BY <1>0, <1>2, <1>4, <2>2
  <2>3. CASE f + 1 \in 1 .. Len(q) /\ p[f] = q[f + 1]
             /\ g + 1 \in 1 .. Len(q) /\ p[g] = q[g + 1]
    <3>1. f + 1 < g + 1
      BY <1>4
    <3> QED
      BY <1>4, <2>3, <3>1, InOrderStays DEF Kept
  <2> QED
    BY <2>1, <2>2, <2>3 DEF From
<1>5. ASSUME NEW x \in 1 .. Len(cs), NEW f \in 1 .. Len(p), NEW i \in 1 .. Len(p[f])
      PROVE  InOrder(n, Cell("server", cs[x].start), p[f][i])
  <2>1. CASE f + 1 \in 1 .. Len(q) /\ p[f] = q[f + 1]
    BY <1>5, <2>1, InOrderStays DEF Kept
  <2>2. CASE p[f] = <<Stray>>
    BY <1>0, <1>2, <1>5, <2>2
  <2> QED
    BY <2>1, <2>2 DEF From
<1> QED
  BY <1>1, <1>3, <1>4, <1>5 DEF Kept

LEMMA MeetFrom ==
  ASSUME NEW q, NEW p, From(p, q), NEW m, NEW n, m \subseteq n,
         NEW c, NEW k \in Nat, NEW l \in Nat, k <= l, Len(c) \in Nat, Meet(q, m, c, k)
  PROVE  Meet(p, n, c, l)
<1>0. /\ Len(<<Stray>>) = 1 /\ <<Stray>>[1] = Stray /\ Stray.pos = 0
  BY DEF Stray
<1>1. \A j \in l + 1 .. Len(c) : j \in k + 1 .. Len(c)
  OBVIOUS
<1> SUFFICES ASSUME NEW f \in 1 .. Len(p), NEW i \in 1 .. Len(p[f]),
                    NEW j \in l + 1 .. Len(c)
             PROVE  InOrder(n, p[f][i], c[j]) /\ (n = {} => p[f][i].pos = 0)
  BY DEF Meet
<1>2. CASE f + 1 \in 1 .. Len(q) /\ p[f] = q[f + 1]
  <2>1. InOrder(m, p[f][i], c[j]) /\ (m = {} => p[f][i].pos = 0)
    BY <1>1, <1>2 DEF Meet
  <2> QED
    BY <2>1, InOrderStays
<1>3. CASE p[f] = <<Stray>>
  BY <1>0, <1>3 DEF InOrder
<1> QED
  BY <1>2, <1>3 DEF From

-----------------------------------------------------------------------------

LEMMA CellFields ==
  ASSUME NEW d, NEW p PROVE Cell(d, p).side = d /\ Cell(d, p).pos = p
BY DEF Cell

\* A chunk as it is received, whose first cell is number s + 1 of the stream.
FreshChunk(d, c, s) == \A i \in 1 .. Len(c) : c[i] = Cell(d, s + i)

LEMMA FreshLine ==
  ASSUME NEW d \in Sides, NEW c \in Seq(Cells), NEW s \in Nat, FreshChunk(d, c, s),
         NEW m, NEW cs \in Seq(CallRecords),
         \A x \in 1 .. Len(cs) : cs[x].start <= s
  PROVE  Line(d, c, 0, m, cs, s + Len(c))
<1>0. Len(c) \in Nat
  BY LenProperties
<1>1. \A i \in 1 .. Len(c) : c[i].side = d /\ c[i].pos = s + i
  BY CellFields DEF FreshChunk
<1>2. \A x \in 1 .. Len(cs) : cs[x].start \in Nat
  <2>1. \A x \in 1 .. Len(cs) : cs[x] \in CallRecords
    BY ElementOfSeq
  <2> QED
    BY <2>1 DEF CallRecords
<1>3. \A i, j \in 1 .. Len(c) : i < j => InOrder(m, c[i], c[j])
  BY <1>0, <1>1 DEF InOrder
<1>4. \A x \in 1 .. Len(cs) : \A i \in 1 .. Len(c) :
        InOrder(m, Cell(d, cs[x].start), c[i])
  BY <1>0, <1>1, <1>2 DEF InOrder, Cell
<1>5. 0 + 1 = 1
  OBVIOUS
<1> QED
  BY <1>0, <1>1, <1>3, <1>4, <1>5 DEF Line

\* The fragment at the head of the queue is put before the chunk.
LEMMA LineWithFragment ==
  ASSUME NEW d \in Sides, NEW c \in Seq(Cells), NEW s \in Nat, FreshChunk(d, c, s),
         NEW m, NEW cs \in Seq(CallRecords),
         \A x \in 1 .. Len(cs) : cs[x].start <= s,
         NEW q \in Seq(NonEmpty), 1 \in 1 .. Len(q),
         NEW calls, NEW top \in Nat, Kept(q, m, calls, top),
         d = "server" => top = s /\ calls = cs
  PROVE  Line(d, q[1] \o c, 0, m, cs, s + Len(c))
<1>0. q[1] \in Seq(Cells)
  BY ElementOfSeq DEF NonEmpty
<1> DEFINE w == q[1] \o c
           n == Len(q[1])
<1>1. /\ Len(c) \in Nat /\ n \in Nat /\ Len(w) \in Nat
      /\ \A i \in 1 .. n : q[1][i] \in Cells
  BY <1>0, LenProperties, ElementOfSeq, ConcatProperties
<1>2. \A i \in 1 .. Len(w) :
        \/ i \in 1 .. n /\ w[i] = q[1][i]
        \/ i > n /\ i - n \in 1 .. Len(c) /\ w[i] = c[i - n]
  BY <1>0, ElementsOfConcat
<1> HIDE DEF w, n
<1>3. \A i \in 1 .. n : q[1][i].side = "server" /\ q[1][i].pos <= top /\ q[1][i].pos \in Nat
  BY <1>1 DEF Kept, Cells, n
<1>4. \A i \in 1 .. Len(c) : c[i].side = d /\ c[i].pos = s + i
  BY CellFields DEF FreshChunk
<1>5. Line(d, c, 0, m, cs, s + Len(c))
  BY FreshLine
<1>6. d = "server" => \A i \in 1 .. Len(w) : w[i].side = "server"
  BY <1>2, <1>3, <1>4
<1>7. ASSUME NEW i \in 1 .. Len(w), w[i].side = d
      PROVE  w[i].pos <= s + Len(c)
  <2>1. CASE i \in 1 .. n /\ w[i] = q[1][i]
    BY <1>1, <1>3, <1>7, <2>1
  <2>2. CASE i - n \in 1 .. Len(c) /\ w[i] = c[i - n]
    BY <1>1, <1>4, <2>2
  <2> QED
    BY <1>2, <2>1, <2>2
<1>8. ASSUME NEW i \in 1 .. Len(w), NEW j \in 1 .. Len(w), i < j
      PROVE  InOrder(m, w[i], w[j])
  <2>1. CASE j \in 1 .. n /\ w[j] = q[1][j]
    <3>1. i \in 1 .. n /\ w[i] = q[1][i]
      BY <1>1, <1>2, <1>8, <2>1
    <3> QED
      BY <1>8, <2>1, <3>1 DEF Kept, n
  <2>2. CASE j > n /\ j - n \in 1 .. Len(c) /\ w[j] = c[j - n]
    <3>1. CASE i \in 1 .. n /\ w[i] = q[1][i]
      BY <1>1, <1>3, <1>4, <2>2, <3>1 DEF InOrder
    <3>2. CASE i > n /\ i - n \in 1 .. Len(c) /\ w[i] = c[i - n]
      <4>1. i - n < j - n
        BY <1>1, <1>8
      <4>2. c[i - n].pos = s + (i - n) /\ c[j - n].pos = s + (j - n)
        BY <1>4, <2>2, <3>2
      <4> QED
        BY <1>1, <2>2, <3>2, <4>1, <4>2 DEF InOrder
    <3> QED
      BY <1>2, <3>1, <3>2
  <2> QED
    BY <1>2, <2>1, <2>2
<1>9. ASSUME NEW x \in 1 .. Len(cs), NEW i \in 1 .. Len(w)
      PROVE  InOrder(m, Cell(d, cs[x].start), w[i])
  <2>1. CASE i \in 1 .. n /\ w[i] = q[1][i]
    <3>1. CASE d = "server"
      BY <2>1, <3>1 DEF Kept, n
    <3>2. CASE d # "server"
      BY <1>3, <2>1, <3>2 DEF InOrder, Cell
    <3> QED
      BY <3>1, <3>2
  <2>2. CASE i - n \in 1 .. Len(c) /\ w[i] = c[i - n]
    <3>1. i - n \in 0 + 1 .. Len(c)
      BY <2>2
    <3> QED
      BY <1>5, <2>2, <3>1 DEF Line
  <2> QED
    BY <1>2, <2>1, <2>2
<1>10. \A i : i \in 0 + 1 .. Len(w) => i \in 1 .. Len(w)
  BY <1>1
<1>11. Line(d, w, 0, m, cs, s + Len(c))
  BY <1>6, <1>7, <1>8, <1>9, <1>10 DEF Line
<1> QED
  BY <1>11 DEF w

\* The fragments behind the first one and the chunk, which may have got the first
\* one before it.
LEMMA MeetAfterFragment ==
  ASSUME NEW c \in Seq(Cells), NEW s \in Nat, FreshChunk("server", c, s),
         NEW q \in Seq(NonEmpty), 1 \in 1 .. Len(q),
         NEW m, NEW calls, Kept(q, m, calls, s),
         NEW p, Len(p) = Len(q) - 1,
         \A f \in 1 .. Len(p) : f + 1 \in 1 .. Len(q) /\ p[f] = q[f + 1]
  PROVE  Meet(p, m, c, 0) /\ Meet(p, m, q[1] \o c, 0)
<1>0. q[1] \in Seq(Cells)
  BY ElementOfSeq DEF NonEmpty
<1> DEFINE w == q[1] \o c
           n == Len(q[1])
<1>1. Len(c) \in Nat /\ n \in Nat /\ Len(w) \in Nat /\ Len(q) \in Nat
  BY <1>0, LenProperties, ConcatProperties
<1>2. \A i \in 1 .. Len(w) :
        \/ i \in 1 .. n /\ w[i] = q[1][i]
        \/ i - n \in 1 .. Len(c) /\ w[i] = c[i - n]
  BY <1>0, ElementsOfConcat
<1>3. \A f \in 1 .. Len(q) : \A i \in 1 .. Len(q[f]) : q[f][i] \in Cells
  <2>1. \A f \in 1 .. Len(q) : q[f] \in Seq(Cells)
    BY ElementOfSeq DEF NonEmpty
  <2> QED
    BY <2>1, ElementOfSeq
<1> HIDE DEF w, n
<1>4. ASSUME NEW f \in 1 .. Len(p), NEW i \in 1 .. Len(p[f])
      PROVE  /\ m # {}
             /\ \A j \in 1 .. Len(c) : InOrder(m, p[f][i], c[j])
             /\ \A j \in 1 .. n : InOrder(m, p[f][i], q[1][j])
  <2>1. f + 1 \in 1 .. Len(q) /\ p[f] = q[f + 1] /\ 1 < f + 1
    BY <1>1
  <2>2. m # {}
    BY <1>1, <2>1 DEF Kept
  <2>3. p[f][i].pos \in Nat /\ p[f][i].pos <= s
    BY <1>3, <1>4, <2>1 DEF Kept, Cells
  <2>4. \A j \in 1 .. Len(c) : c[j].pos = s + j
    BY CellFields DEF FreshChunk
  <2>5. \A j \in 1 .. Len(c) : InOrder(m, p[f][i], c[j])
    BY <2>2, <2>3, <2>4 DEF InOrder
  <2>6. \A j \in 1 .. n : InOrder(m, q[1][j], p[f][i])
    BY <1>4, <2>1 DEF Kept, n
  <2>7. \A j \in 1 .. n : InOrder(m, p[f][i], q[1][j])
    BY <2>2, <2>6 DEF InOrder
  <2> QED
    BY <2>2, <2>5, <2>7
<1>5. \A j : j \in 0 + 1 .. Len(c) => j \in 1 .. Len(c)
  BY <1>1
<1>6. \A j : j \in 0 + 1 .. Len(w) => j \in 1 .. Len(w)
  BY <1>1
<1>7. Meet(p, m, c, 0)
  BY <1>4, <1>5 DEF Meet
<1>8. Meet(p, m, w, 0)
  <2> SUFFICES ASSUME NEW f \in 1 .. Len(p), NEW i \in 1 .. Len(p[f]),
                      NEW j \in 1 .. Len(w)
               PROVE  InOrder(m, p[f][i], w[j]) /\ (m = {} => p[f][i].pos = 0)
    BY <1>6 DEF Meet
  <2> QED
    BY <1>2, <1>4
<1> QED
  BY <1>7, <1>8 DEF w

-----------------------------------------------------------------------------
(* Each step.                                                              *)

Same(x) ==
  /\ pc'[x] = pc[x] /\ arrived'[x] = arrived[x] /\ raw'[x] = raw[x]
  /\ copy'[x] = copy[x] /\ cursor'[x] = cursor[x] /\ called'[x] = called[x]

LEMMA SeenRange ==
  ASSUME TypeInv, NEW d \in Sides, ListenerInv(d)
  PROVE  /\ Seen(d) \in Nat /\ Seen(d) <= arrived[d] /\ arrived[d] \in Nat
         /\ Len(raw[d]) \in Nat
         /\ pc[d] \in {"start", "pop"} => arrived[d] = Seen(d) + Len(raw[d])
         /\ pc[d] \notin {"start", "pop"} => Seen(d) = arrived[d]
<1>1. arrived[d] \in Nat /\ raw[d] \in Seq(Cells)
  BY DEF TypeInv, TypeOK
<1>2. Len(raw[d]) \in Nat
  BY <1>1, LenProperties
<1> QED
  BY <1>1, <1>2 DEF ListenerInv, Fresh, Seen

LEMMA ListenerStays ==
  ASSUME TypeInv, NEW x \in Sides, ListenerInv(x), Same(x), mishaps \subseteq mishaps'
  PROVE  ListenerInv(x)'
<1>1. Seen(x)' = Seen(x)
  BY DEF Same, Seen
<1>2. Fresh(x)'
  BY <1>1 DEF Same, Fresh, ListenerInv
<1>3. PICK m, n : m = mishaps /\ n = mishaps' /\ m \subseteq n
  OBVIOUS
<1>4. CallsInOrder(called[x], n)
  BY <1>3, CallsStay DEF ListenerInv
<1>5. ASSUME pc[x] = "loop"
      PROVE  Line(x, copy[x], cursor[x], n, called[x], arrived[x])
  <2>1. cursor[x] \in Nat /\ Len(copy[x]) \in Nat
    BY LenProperties DEF TypeInv, TypeOK
  <2>2. Line(x, copy[x], cursor[x], m, called[x], arrived[x])
    BY <1>3, <1>5 DEF ListenerInv
  <2> QED
    BY <1>3, <2>1, <2>2, LineStays
<1>6. CallsInOrder(called[x], mishaps)'
  BY <1>3, <1>4 DEF Same
<1>7. pc'[x] = "loop" => Line(x, copy[x], cursor[x], mishaps, called[x], arrived[x])'
  BY <1>3, <1>5 DEF Same
<1> QED
  BY <1>1, <1>2, <1>6, <1>7 DEF Same, ListenerInv

LEMMA CellsOfQueue ==
  ASSUME TypeInv
  PROVE  \A f \in 1 .. Len(packetQueue) : \A i \in 1 .. Len(packetQueue[f]) :
           packetQueue[f][i] \in Cells /\ packetQueue[f][i].pos \in Nat
<1>1. \A f \in 1 .. Len(packetQueue) : packetQueue[f] \in Seq(Cells)
  BY QueueTypes
<1>2. \A f \in 1 .. Len(packetQueue) : \A i \in 1 .. Len(packetQueue[f]) :
        packetQueue[f][i] \in Cells
  BY <1>1, ElementOfSeq
<1> QED
  BY <1>2 DEF Cells

\* The queue stays as it is while a listener receives or looks at more.
LEMMA QueueStays ==
  ASSUME TypeInv, FragmentsInv, UNCHANGED packetQueue, mishaps \subseteq mishaps',
         called'["server"] = called["server"],
         Seen("server") \in Int, Seen("server")' \in Int,
         Seen("server") <= Seen("server")'
  PROVE  Kept(packetQueue, mishaps, called["server"], Seen("server"))'
<1>0. PICK s \in Int, t \in Int : s = Seen("server") /\ t = Seen("server")'
  OBVIOUS
<1>1. PICK q, m, n, cs :
        q = packetQueue /\ m = mishaps /\ n = mishaps' /\ cs = called["server"]
  OBVIOUS
<1>2. Kept(q, m, cs, s)
  BY <1>0, <1>1 DEF FragmentsInv
<1>3. \A f \in 1 .. Len(q) : \A i \in 1 .. Len(q[f]) : q[f][i].pos \in Nat
  BY <1>1, CellsOfQueue
<1>4. Kept(q, n, cs, t)
  BY <1>0, <1>1, <1>2, <1>3, KeptStays
<1> QED
  BY <1>0, <1>1, <1>4

LEMMA InitOnce == Init => OnceInv
<1> SUFFICES ASSUME Init PROVE OnceInv
  OBVIOUS
<1>1. Len(<< >>) = 0
  OBVIOUS
<1>2. \A d \in Sides : pc[d] = "recv" /\ called[d] = << >> /\ arrived[d] = 0
  BY DEF Init
<1>3. \A d \in Sides : ListenerInv(d)
  BY <1>1, <1>2 DEF ListenerInv, Fresh, CallsInOrder
<1>4. packetQueue = << >> /\ called["server"] = << >> /\ pc["server"] = "recv"
  BY <1>2 DEF Init, Sides
<1>5. FragmentsInv
  BY <1>1, <1>4 DEF FragmentsInv, Kept
<1> QED
  BY <1>3, <1>5 DEF OnceInv

LEMMA RecvOnce ==
  ASSUME TypeInv, TypeInv', OnceInv, NEW d \in Sides, Recv(d)
  PROVE  OnceInv'
<1> SUFFICES ASSUME "repeated" \notin mishaps' PROVE (\A x \in Sides : ListenerInv(x)') /\ FragmentsInv'
  BY DEF OnceInv
<1>1. PICK e \in Ends[d] :
        /\ arrived[d] < e
        /\ raw' = [raw EXCEPT ![d] =
                     [i \in 1 .. e - arrived[d] |-> Cell(d, arrived[d] + i)]]
        /\ arrived' = [arrived EXCEPT ![d] = e]
  BY DEF Recv
<1>2. /\ pc[d] = "recv" /\ pc' = [pc EXCEPT ![d] = "start"]
      /\ UNCHANGED <<copy, cursor, packetQueue, called, sent, mishaps>>
  BY DEF Recv, Goto
<1>3. (\A x \in Sides : ListenerInv(x)) /\ FragmentsInv
  BY <1>2 DEF OnceInv
<1>4. PICK a \in Nat : a = arrived[d]
  BY DEF TypeInv, TypeOK
<1>5. e \in Nat /\ e - a \in Nat /\ e - (e - a) = a /\ e - a <= e
  BY <1>1, <1>4, ProcessorAssumption
<1>6. /\ raw'[d] = [i \in 1 .. e - a |-> Cell(d, a + i)] /\ arrived'[d] = e
      /\ pc'[d] = "start" /\ Len(raw'[d]) = e - a
  <2>1. raw'[d] = [i \in 1 .. e - a |-> Cell(d, a + i)]
    BY <1>1, <1>4 DEF TypeInv, TypeOK
  <2>2. \A i \in 1 .. e - a : Cell(d, a + i) \in Cells
    BY <1>4 DEF Cell, Cells
  <2>3. Len(raw'[d]) = e - a
    BY <1>5, <2>1, <2>2
  <2>4. arrived'[d] = e /\ pc'[d] = "start"
    BY <1>1, <1>2 DEF TypeInv, TypeOK
  <2> QED
    BY <2>1, <2>3, <2>4
<1>7. Seen(d)' = a /\ Seen(d) = a
  BY <1>2, <1>4, <1>5, <1>6 DEF Seen
<1>8. \A x \in Sides \ {d} : Same(x)
  BY <1>1, <1>2 DEF Same, TypeInv, TypeOK
<1>9. \A x \in Sides \ {d} : ListenerInv(x)'
  BY <1>2, <1>3, <1>8, ListenerStays
<1>10. ListenerInv(d)'
  <2>1. Fresh(d)'
    BY <1>5, <1>6, <1>7 DEF Fresh
  <2>2. called'[d] = called[d] /\ mishaps' = mishaps
    BY <1>2
  <2> QED
    BY <1>3, <1>6, <1>7, <2>1, <2>2 DEF ListenerInv
<1>11. \A x \in Sides : Seen(x)' = Seen(x)
  BY <1>7, <1>8 DEF Same, Seen
<1>12. FragmentsInv'
  <2>0. "server" \in Sides
    BY DEF Sides
  <2>1. Seen("server")' = Seen("server") /\ called'["server"] = called["server"]
    BY <1>2, <1>11, <2>0
  <2>2. pc'["server"] = "loop" => pc["server"] = "loop"
    BY <1>6, <1>8, <2>0 DEF Same
  <2> QED
    BY <1>2, <1>3, <2>1, <2>2 DEF FragmentsInv
<1> QED
  BY <1>9, <1>10, <1>12

LEMMA CopyOnce ==
  ASSUME TypeInv, TypeInv', OnceInv, NEW d \in Sides, CopyPacket(d)
  PROVE  OnceInv'
<1> SUFFICES ASSUME "repeated" \notin mishaps' PROVE (\A x \in Sides : ListenerInv(x)') /\ FragmentsInv'
  BY DEF OnceInv
<1>1. /\ copy' = [copy EXCEPT ![d] = raw[d]] /\ cursor' = [cursor EXCEPT ![d] = 0]
      /\ pc[d] = "start"
      /\ UNCHANGED <<arrived, raw, packetQueue, called, sent, mishaps>>
  BY DEF CopyPacket
<1>2. PICK l \in {"loop", "pop"} : /\ pc' = [pc EXCEPT ![d] = l]
                                   /\ l = "loop" => packetQueue = << >>
  BY DEF CopyPacket, Goto
<1>3. (\A x \in Sides : ListenerInv(x)) /\ FragmentsInv
  BY <1>1 DEF OnceInv
<1>4. copy'[d] = raw[d] /\ cursor'[d] = 0 /\ pc'[d] = l
  BY <1>1, <1>2 DEF TypeInv, TypeOK
<1>5. \A x \in Sides \ {d} : Same(x)
  BY <1>1, <1>2 DEF Same, TypeInv, TypeOK
<1>6. \A x \in Sides \ {d} : ListenerInv(x)'
  BY <1>1, <1>3, <1>5, ListenerStays
<1>7. PICK s \in Nat : s = Seen(d) /\ arrived[d] = s + Len(raw[d]) /\ Len(raw[d]) \in Nat
  BY <1>1, <1>3, SeenRange
<1>8. IF l = "pop" THEN Seen(d)' = s ELSE Seen(d)' = s + Len(raw[d])
  BY <1>1, <1>2, <1>4, <1>7 DEF Seen
<1>9. FreshChunk(d, raw[d], s)
  BY <1>1, <1>3, <1>7 DEF ListenerInv, Fresh, FreshChunk
<1>10. ListenerInv(d)'
  <2>0. called[d] \in Seq(CallRecords) /\ raw[d] \in Seq(Cells)
    BY DEF TypeInv, TypeOK, CallRecords
  <2>1. \A x \in 1 .. Len(called[d]) : called[d][x].start \in Nat
    <3>1. \A x \in 1 .. Len(called[d]) : called[d][x] \in CallRecords
      BY <2>0, ElementOfSeq
    <3> QED
      BY <3>1 DEF CallRecords
  <2>2. \A x \in 1 .. Len(called[d]) : called[d][x].start <= s
    BY <1>3, <1>7 DEF ListenerInv
  <2>3. s <= Seen(d)' /\ Seen(d)' \in Nat
    BY <1>7, <1>8
  <2>4. \A x \in 1 .. Len(called'[d]) : called'[d][x].start <= Seen(d)'
    BY <1>1, <2>1, <2>2, <2>3
  <2>5. Fresh(d)'
    BY <1>1, <1>3, <1>4, <1>7, <1>8 DEF Fresh, ListenerInv
  <2>6. PICK c \in Seq(Cells), cs \in Seq(CallRecords), m \in {mishaps} :
          c = raw[d] /\ cs = called[d] /\ m = mishaps
    BY <2>0
  <2>7. Line(d, c, 0, m, cs, s + Len(c))
    BY <1>9, <2>2, <2>6, FreshLine
  <2>8. Line(d, copy[d], cursor[d], mishaps, called[d], arrived[d])'
    BY <1>1, <1>4, <1>7, <2>6, <2>7
  <2>9. CallsInOrder(called[d], mishaps)'
    BY <1>1, <1>3 DEF ListenerInv
  <2> QED
    BY <2>4, <2>5, <2>8, <2>9 DEF ListenerInv
<1>11. FragmentsInv'
  <2>0. "server" \in Sides
    BY DEF Sides
  <2>1. Seen("server") \in Nat /\ Seen("server")' \in Nat /\ Seen("server") <= Seen("server")'
    <3>1. CASE d = "server"
      BY <1>7, <1>8, <3>1
    <3>2. CASE d # "server"
      BY <1>3, <1>5, <2>0, <3>2, SeenRange DEF Same, Seen
    <3> QED
      BY <3>1, <3>2
  <2>2. Kept(packetQueue, mishaps, called["server"], Seen("server"))'
    BY <1>1, <1>3, <2>1, QueueStays
  <2>3. ASSUME pc'["server"] = "loop"
        PROVE  Meet(packetQueue, mishaps, copy["server"], cursor["server"])'
    <3>1. CASE d = "server"
      <4>1. packetQueue' = << >> /\ Len(<< >>) = 0
        BY <1>1, <1>2, <1>4, <2>3, <3>1
      <4> QED
        BY <4>1 DEF Meet
    <3>2. CASE d # "server"
      BY <1>1, <1>3, <1>5, <2>0, <2>3, <3>2 DEF Same, FragmentsInv
    <3> QED
      BY <3>1, <3>2
  <2> QED
    BY <2>2, <2>3 DEF FragmentsInv
<1> QED
  BY <1>6, <1>10, <1>11

\* As long as nothing went wrong there is one fragment at most.
LEMMA KeepFew ==
  ASSUME NEW q, Len(q) \in Nat, Keep(q)
  PROVE  packetQueue' = q /\ (mishaps' = {} => Len(q) <= 1)
<1>1. CASE Len(q) > 1
  BY <1>1 DEF Keep
<1>2. CASE ~(Len(q) > 1)
  BY <1>2 DEF Keep
<1> QED
  BY <1>1, <1>2

LEMMA PopFragmentOnce ==
  ASSUME TypeInv, TypeInv', OnceInv, NEW d \in Sides, PopFragment(d)
  PROVE  OnceInv'
<1> SUFFICES ASSUME "repeated" \notin mishaps'
             PROVE  (\A x \in Sides : ListenerInv(x)') /\ FragmentsInv'
  BY DEF OnceInv
<1>1. /\ pc[d] = "pop" /\ pc' = [pc EXCEPT ![d] = "loop"]
      /\ packetQueue # << >> /\ packetQueue' = Tail(packetQueue)
      /\ UNCHANGED <<arrived, raw, cursor, called, sent>>
  BY DEF PopFragment, Goto
<1>2. PICK q \in Seq(NonEmpty) : q = packetQueue
  BY DEF TypeInv
<1>3. PICK p \in Seq(NonEmpty) : p = packetQueue'
  BY DEF TypeInv
<1>4. /\ 1 \in 1 .. Len(q) /\ q[1] = Head(packetQueue) /\ Len(p) = Len(q) - 1
      /\ Len(q) \in Nat /\ Len(p) \in Nat
      /\ \A f \in 1 .. Len(p) : f + 1 \in 1 .. Len(q) /\ p[f] = q[f + 1]
  <2>1. p = QueueWithoutFirst
    BY <1>1, <1>3 DEF QueueWithoutFirst
  <2>2. /\ 1 \in 1 .. Len(q) /\ q[1] = Head(packetQueue) /\ Len(p) = Len(q) - 1
        /\ \A f \in 1 .. Len(p) : p[f] = q[f + 1]
    BY <1>1, <1>2, <2>1, QueueTypes
  <2>3. Len(q) \in Nat /\ Len(p) \in Nat
    BY LenProperties
  <2> QED
    BY <2>2, <2>3
<1>5. /\ mishaps' = mishaps
      /\ copy' = copy \/ copy' = [copy EXCEPT ![d] = q[1] \o copy[d]]
  <2>0. \/ UNCHANGED <<copy, mishaps>>
        \/ \E chunk \in MovedUp(copy[d], Len(q[1])) :
             /\ copy' = [copy EXCEPT ![d] = q[1] \o chunk]
             /\ mishaps' = mishaps \cup (IF chunk = copy[d] THEN {} ELSE {"repeated"})
    BY <1>4, PopFragmentMoves
  <2>1. CASE UNCHANGED <<copy, mishaps>>
    BY <2>1
  <2>2. ASSUME NEW chunk \in MovedUp(copy[d], Len(q[1])),
               copy' = [copy EXCEPT ![d] = q[1] \o chunk],
               mishaps' = mishaps \cup (IF chunk = copy[d] THEN {} ELSE {"repeated"})
        PROVE  mishaps' = mishaps /\ copy' = [copy EXCEPT ![d] = q[1] \o copy[d]]
    BY <2>2
  <2> QED
    BY <2>0, <2>1, <2>2, Zenon
<1>6. (\A x \in Sides : ListenerInv(x)) /\ FragmentsInv
  BY <1>5 DEF OnceInv
<1>7. PICK c \in Seq(Cells), s \in Nat, cs \in Seq(CallRecords) :
        c = copy[d] /\ s = Seen(d) /\ cs = called[d]
  BY <1>6, SeenRange DEF TypeInv, TypeOK, CallRecords
<1>8. /\ FreshChunk(d, c, s) /\ arrived[d] = s + Len(c) /\ Len(c) \in Nat
      /\ cursor[d] = 0
  BY <1>1, <1>6, <1>7, SeenRange DEF ListenerInv, Fresh, FreshChunk
<1>9. /\ pc'[d] = "loop" /\ cursor'[d] = 0 /\ arrived'[d] = s + Len(c) /\ called'[d] = cs
      /\ copy'[d] = c \/ copy'[d] = q[1] \o c
  BY <1>1, <1>5, <1>7, <1>8 DEF TypeInv, TypeOK
<1>10. \A x \in Sides \ {d} : Same(x)
  BY <1>1, <1>5 DEF Same, TypeInv, TypeOK
<1>11. \A x \in Sides \ {d} : ListenerInv(x)'
  BY <1>5, <1>6, <1>10, ListenerStays
<1>12. Seen(d)' = s + Len(c)
  BY <1>9 DEF Seen
<1>13. PICK m, calls : m = mishaps /\ calls = called["server"]
  OBVIOUS
<1>14. "server" \in Sides
  BY DEF Sides
<1>15. PICK top \in Nat : top = Seen("server")
  BY <1>6, <1>14, SeenRange
<1>16. Kept(q, m, calls, top)
  BY <1>2, <1>6, <1>13, <1>15 DEF FragmentsInv
<1>17. \A x \in 1 .. Len(cs) : cs[x].start <= s /\ cs[x].start \in Nat
  <2>1. \A x \in 1 .. Len(cs) : cs[x] \in CallRecords
    BY ElementOfSeq
  <2> QED
    BY <1>6, <1>7, <2>1 DEF ListenerInv, CallRecords
<1>18. ListenerInv(d)'
  <2>1. Fresh(d)'
    BY <1>9 DEF Fresh
  <2>2. \A x \in 1 .. Len(cs) : cs[x].start <= s + Len(c)
    BY <1>8, <1>17
  <2>3. CallsInOrder(cs, m)
    BY <1>6, <1>7, <1>13 DEF ListenerInv
  <2>4. Line(d, c, 0, m, cs, s + Len(c))
    BY <1>8, <1>17, FreshLine
  <2>5. d = "server" => top = s /\ calls = cs
    BY <1>7, <1>13, <1>15
  <2>6. Line(d, q[1] \o c, 0, m, cs, s + Len(c))
    BY <1>4, <1>8, <1>16, <1>17, <2>5, LineWithFragment
  <2>7. Line(d, copy[d], cursor[d], mishaps, called[d], arrived[d])'
    BY <1>5, <1>9, <1>13, <2>4, <2>6
  <2>8. CallsInOrder(called[d], mishaps)'
    BY <1>5, <1>9, <1>13, <2>3
  <2>9. \A x \in 1 .. Len(called'[d]) : called'[d][x].start <= Seen(d)'
    BY <1>9, <1>12, <2>2
  <2> QED
    BY <2>1, <2>7, <2>8, <2>9 DEF ListenerInv
<1>19. FragmentsInv'
  <2>1. From(p, q)
    BY <1>4 DEF From
  <2>2. PICK t \in Nat : t = Seen("server")' /\ top <= t
    <3>1. CASE d = "server"
      <4>1. Seen("server")' = s + Len(c) /\ top = s
        BY <1>7, <1>12, <1>15, <3>1
      <4>2. s + Len(c) \in Nat /\ s <= s + Len(c)
        BY <1>8
      <4> QED
        BY <4>1, <4>2
    <3>2. CASE d # "server"
      <4>1. Seen("server")' = top
        BY <1>10, <1>14, <1>15, <3>2 DEF Same, Seen
      <4> QED
        BY <4>1
    <3> QED
      BY <3>1, <3>2
  <2>3. \A f \in 1 .. Len(q) : \A i \in 1 .. Len(q[f]) : q[f][i].pos \in Nat
    BY <1>2, CellsOfQueue
  <2>4. Kept(q, m, calls, t)
    BY <1>16, <2>2, <2>3, KeptStays
  <2>5. m = {} => Len(p) <= 1
    BY <1>4, <1>16 DEF Kept
  <2>6. Kept(p, m, calls, t)
    BY <2>1, <2>4, <2>5, KeptFrom
  <2>7. Kept(packetQueue, mishaps, called["server"], Seen("server"))'
    BY <1>1, <1>3, <1>5, <1>13, <2>2, <2>6
  <2>8. ASSUME pc'["server"] = "loop"
        PROVE  Meet(packetQueue, mishaps, copy["server"], cursor["server"])'
    <3>1. CASE d = "server"
      <4>1. Meet(p, m, c, 0) /\ Meet(p, m, q[1] \o c, 0)
        <5>1. FreshChunk("server", c, s) /\ Kept(q, m, calls, s)
          BY <1>7, <1>8, <1>15, <1>16, <3>1
        <5> QED
          BY <1>4, <5>1, MeetAfterFragment
      <4> QED
        BY <1>3, <1>5, <1>9, <1>13, <3>1, <4>1
    <3>2. CASE d # "server"
      <4>1. Same("server")
        BY <1>10, <1>14, <3>2
      <4>2. PICK w : w = copy["server"] /\ Len(w) \in Nat
        BY <1>14, LenProperties DEF TypeInv, TypeOK
      <4>5. PICK k \in Nat : k = cursor["server"]
        BY <1>14 DEF TypeInv, TypeOK
      <4>3. Meet(q, m, w, k)
        BY <1>2, <1>6, <1>13, <2>8, <4>1, <4>2, <4>5 DEF Same, FragmentsInv
      <4>4. Meet(p, m, w, k)
        BY <2>1, <4>2, <4>3, <4>5, MeetFrom
      <4> QED
        BY <1>3, <1>5, <1>13, <4>1, <4>2, <4>4, <4>5 DEF Same
    <3> QED
      BY <3>1, <3>2
  <2> QED
    BY <2>7, <2>8 DEF FragmentsInv
<1> QED
  BY <1>11, <1>18, <1>19

LEMMA PassingOnce ==
  ASSUME TypeInv, TypeInv', OnceInv, NEW d \in Sides, Passing(d)
  PROVE  OnceInv'
<1> SUFFICES ASSUME "repeated" \notin mishaps'
             PROVE  (\A x \in Sides : ListenerInv(x)') /\ FragmentsInv'
  BY DEF OnceInv
<1>1. PICK ns \in Seq(CallRecords), n \in Nat, l \in Leaving : Passes(d, ns, n, l)
  BY DEF Passing
<1>2. InLoop(d) /\ UNCHANGED <<arrived, copy, sent>> /\ RawStep(d)
  BY DEF Passing
<1>3. PICK m, m2 : m = mishaps /\ m2 = mishaps' /\ m \subseteq m2
  BY <1>1 DEF Passes, QueueStep, Keep
<1>4. (\A x \in Sides : ListenerInv(x)) /\ FragmentsInv
  BY <1>3 DEF OnceInv
<1>5. PICK c \in Seq(Cells), k \in Nat, cs \in Seq(CallRecords), top \in Nat :
        /\ c = copy[d] /\ k = cursor[d] /\ cs = called[d] /\ top = arrived[d]
        /\ k < Len(c) /\ Len(c) \in Nat
  BY <1>2, LenProperties DEF InLoop, TypeInv, TypeOK, CallRecords
<1>6. /\ pc[d] = "loop" /\ pc'[d] = l /\ cursor'[d] = k + n /\ called'[d] = cs \o ns
      /\ copy'[d] = c /\ arrived'[d] = top /\ l \notin {"start", "pop"}
  BY <1>1, <1>2, <1>5 DEF Passes, Calling, Advance, Goto, InLoop, Leaving, TypeInv, TypeOK
<1>7. \A x \in Sides \ {d} : Same(x)
  BY <1>1, <1>2
  DEF Passes, Calling, Advance, Goto, RawStep, Same, TypeInv, TypeOK
<1>8. \A x \in Sides \ {d} : ListenerInv(x)'
  BY <1>3, <1>4, <1>7, ListenerStays
<1>9. /\ Line(d, c, k, m, cs, top) /\ CallsInOrder(cs, m)
      /\ \A x \in 1 .. Len(cs) : cs[x].start <= top
  BY <1>3, <1>4, <1>5, <1>6 DEF ListenerInv, Seen
<1>10. Seen(d) = top /\ Seen(d)' = top
  BY <1>5, <1>6 DEF Seen
<1>11. NewCalls(d, c, k, ns)
  <2>1. Head(Rest(d)) = c[k + 1]
    BY <1>2, <1>5, RestOfChunk DEF TypeInv
  <2>2. AtStart(d) => c[k + 1].side = d /\ Start(d) = c[k + 1].pos /\ Start(d) \in Starts(d)
    BY <2>1 DEF AtStart, Start
  <2>3. AtStart(d) => c[k + 1].side = d /\ Start(d) = c[k + 1].pos /\ c[k + 1].pos >= 1
    BY <2>2, PacketTypes
  <2> QED
    BY <1>1, <2>3 DEF Passes, OwnCalls, NewCalls
<1>12. ListenerInv(d)'
  <2>1. Fresh(d)'
    BY <1>6 DEF Fresh
  <2>2. ASSUME NEW x \in 1 .. Len(cs \o ns)
        PROVE  (cs \o ns)[x].start <= top
    <3>1. CASE x \in 1 .. Len(cs) /\ (cs \o ns)[x] = cs[x]
      BY <1>9, <3>1
    <3>2. ASSUME NEW y \in 1 .. Len(ns), (cs \o ns)[x] = ns[y]
          PROVE  (cs \o ns)[x].start <= top
      <4>1. CASE ns[y] = Garbage
        BY <3>2, <4>1 DEF Garbage, Call
      <4>2. CASE c[k + 1].side = d /\ ns[y] = Call(c[k + 1].pos, y)
        <5>1. k + 1 \in 1 .. Len(c)
          BY <1>5
        <5>2. c[k + 1].pos <= top
          BY <1>9, <4>2, <5>1 DEF Line
        <5> QED
          BY <3>2, <4>2, <5>2 DEF Call
      <4> QED
        BY <1>11, <4>1, <4>2 DEF NewCalls
    <3> QED
      BY <3>1, <3>2, ElementsOfConcat
  <2>3. CallsInOrder(cs \o ns, m)
    BY <1>5, <1>9, <1>11, MoreCallsInOrder
  <2>4. CallsInOrder(cs \o ns, m2)
    BY <1>3, <2>3, CallsStay
  <2>5. ASSUME l = "loop"
        PROVE  Line(d, c, k + n, m2, cs \o ns, top)
    <3>1. k + n \in Nat /\ k < k + n
      BY <1>1, <2>5 DEF Passes
    <3>2. Line(d, c, k + n, m, cs \o ns, top)
      BY <1>5, <1>9, <1>11, <3>1, LineBehindCalls
    <3> QED
      BY <1>3, <1>5, <3>1, <3>2, LineStays
  <2>6. \A x \in 1 .. Len(called'[d]) : called'[d][x].start <= Seen(d)'
    BY <1>6, <1>10, <2>2
  <2>7. CallsInOrder(called[d], mishaps)'
    BY <1>3, <1>6, <2>4
  <2>8. pc'[d] = "loop" => Line(d, copy[d], cursor[d], mishaps, called[d], arrived[d])'
    BY <1>3, <1>6, <2>5
  <2> QED
    BY <2>1, <2>6, <2>7, <2>8 DEF ListenerInv
<1>13. FragmentsInv'
  <2>0. "server" \in Sides
    BY DEF Sides
  <2>1. CASE d # "server"
    <3>1. UNCHANGED <<packetQueue, mishaps>> /\ Same("server")
      BY <1>1, <1>7, <2>0, <2>1 DEF Passes, QueueStep
    <3>2. Seen("server")' = Seen("server")
      BY <3>1 DEF Same, Seen
    <3> QED
      BY <1>4, <3>1, <3>2 DEF Same, FragmentsInv
  <2>2. CASE d = "server"
    <3>1. PICK q \in Seq(NonEmpty) : q = packetQueue
      BY DEF TypeInv
    <3>2. Kept(q, m, cs, top) /\ Meet(q, m, c, k)
      BY <1>3, <1>4, <1>5, <1>6, <1>10, <2>2, <3>1 DEF FragmentsInv
    <3>3. Kept(q, m, cs \o ns, top)
      BY <1>5, <1>11, <2>2, <3>2, KeptBehindCalls
    <3>4. k + n \in Nat /\ k <= k + n
      OBVIOUS
    <3>5. PICK p : p = packetQueue'
      OBVIOUS
    <3>6. Kept(p, m2, cs \o ns, top) /\ Meet(p, m2, c, k + n)
      <4>1. CASE UNCHANGED <<packetQueue, mishaps>>
        BY <1>3, <1>5, <3>1, <3>2, <3>3, <3>4, <3>5, <4>1, MeetStays
      <4>2. CASE ns = << >> /\ n > Left(d) /\ Keep(Append(packetQueue, Rest(d)))
        <5>1. PICK r \in NonEmpty : r = Rest(d)
          BY <1>2, RestOfChunk DEF TypeInv, NonEmpty
        <5>2. Len(r) = Len(c) - k /\ \A i \in 1 .. Len(c) - k : r[i] = c[k + i]
          BY <1>2, <1>5, <5>1, RestOfChunk DEF TypeInv
        <5>4. Len(Append(q, r)) = Len(q) + 1 /\ Len(q) \in Nat
          BY AppendProperties, LenProperties
        <5>3. p = Append(q, r) /\ (m2 = {} => Len(p) <= 1)
          <6>1. Keep(Append(q, r)) /\ Len(Append(q, r)) \in Nat
            BY <3>1, <4>2, <5>1, <5>4
          <6> QED
            BY <1>3, <3>5, <6>1, KeepFew
        <5>5. m2 = {} => q = << >>
          <6>1. m2 = {} => Len(q) = 0
            BY <5>3, <5>4
          <6> QED
            BY <6>1, EmptySeq
        <5>6. cs \o ns = cs
          BY <4>2, ConcatEmptySeq
        <5>7. Line("server", c, k, m, cs, top)
          BY <1>9, <2>2
        <5>8. Kept(Append(q, r), m2, cs, top)
          BY <1>3, <1>5, <3>2, <5>2, <5>5, <5>7, KeptWithRest
        <5>9. k + n > Len(c)
          BY <1>2, <1>5, <4>2, RestOfChunk DEF TypeInv
        <5>10. Meet(p, m2, c, k + n)
          BY <1>5, <5>9 DEF Meet
        <5> QED
          BY <5>3, <5>6, <5>8, <5>10
      <4>3. CASE Keep(QueueWithoutFirst) \/ Keep(QueueWithoutFirst \o << <<Stray>> >>)
        <5>1. m2 = {} => Len(p) <= 1
          <6>1. QueueWithoutFirst \in Seq(NonEmpty) /\ << <<Stray>> >> \in Seq(NonEmpty)
            BY QueueTypes DEF Stray, Cells, NonEmpty, Sides
          <6>2. /\ Len(QueueWithoutFirst) \in Nat
                /\ Len(QueueWithoutFirst \o << <<Stray>> >>) \in Nat
            BY <6>1, LenProperties, ConcatProperties
          <6> QED
            BY <1>3, <3>5, <4>3, <6>2, KeepFew
        <5>2. From(p, q)
          <6>1. PICK w \in Seq(NonEmpty) : w = QueueWithoutFirst
            BY QueueTypes
          <6>2. Len(q) \in Nat /\ Len(w) \in Nat
            BY LenProperties
          <6>3. \A f \in 1 .. Len(w) : f + 1 \in 1 .. Len(q) /\ w[f] = q[f + 1]
            BY <3>1, <6>1, <6>2, QueueTypes, EmptySeq
          <6>4. CASE p = w
            BY <6>2, <6>3, <6>4 DEF From
          <6>5. CASE p = w \o << <<Stray>> >>
            <7>1. <<Stray>> \in NonEmpty /\ << <<Stray>> >> \in Seq(NonEmpty)
              BY DEF Stray, Cells, NonEmpty, Sides
            <7>2. /\ Len(p) \in Nat
                  /\ \A f \in 1 .. Len(p) :
                       \/ f \in 1 .. Len(w) /\ p[f] = w[f]
                       \/ p[f] = <<Stray>>
              <8>1. PICK t \in Seq(NonEmpty) : t = << <<Stray>> >>
                BY <7>1
              <8>2. Len(t) = 1 /\ t[1] = <<Stray>>
                BY <8>1
              <8>3. p = w \o t /\ p \in Seq(NonEmpty)
                BY <6>5, <8>1, ConcatProperties
              <8>4. \A f \in 1 .. Len(p) :
                      \/ f \in 1 .. Len(w) /\ p[f] = w[f]
                      \/ f - Len(w) \in 1 .. Len(t) /\ p[f] = t[f - Len(w)]
                BY <8>3, ElementsOfConcat
              <8>5. \A x \in 1 .. Len(t) : x = 1
                BY <8>2
              <8> QED
                BY <8>2, <8>3, <8>4, <8>5, LenProperties
            <7> QED
              BY <6>3, <7>2 DEF From
          <6> QED
            BY <3>5, <4>3, <6>1, <6>4, <6>5 DEF Keep
        <5>3. Kept(p, m2, cs \o ns, top)
          BY <1>3, <3>3, <5>1, <5>2, KeptFrom
        <5>4. Meet(p, m2, c, k + n)
          BY <1>3, <1>5, <3>2, <3>4, <5>2, MeetFrom
        <5> QED
          BY <5>3, <5>4
      <4> QED
        BY <1>1, <4>1, <4>2, <4>3 DEF Passes, QueueStep
    <3> QED
      BY <1>3, <1>6, <1>10, <2>2, <3>5, <3>6 DEF FragmentsInv
  <2> QED
    BY <2>1, <2>2
<1> QED
  BY <1>8, <1>12, <1>13

\* A step after which the listener is neither in the loop nor before it, and which
\* changes neither the queue nor what was called.
LEMMA RestingOnce ==
  ASSUME TypeInv, OnceInv, NEW d \in Sides, "repeated" \notin mishaps',
         pc'[d] \in {"recv", "forward", "crashed"},
         \A x \in Sides \ {d} : Same(x) \/ pc'[x] = "crashed",
         UNCHANGED <<arrived, packetQueue, called, mishaps>>
  PROVE  (\A x \in Sides : ListenerInv(x)') /\ FragmentsInv'
<1>1. (\A x \in Sides : ListenerInv(x)) /\ FragmentsInv
  BY DEF OnceInv
<1>2. ASSUME NEW x \in Sides, pc'[x] \in {"recv", "forward", "crashed"}
      PROVE  /\ ListenerInv(x)'
             /\ Seen(x) \in Nat /\ Seen(x)' \in Nat /\ Seen(x) <= Seen(x)'
  <2>1. PICK a \in Nat, s \in Nat : a = arrived[x] /\ s = Seen(x) /\ s <= a
    BY <1>1, SeenRange
  <2>2. Seen(x)' = a
    BY <1>2, <2>1 DEF Seen
  <2>3. PICK cs \in Seq(CallRecords) : cs = called[x]
    BY DEF TypeInv, TypeOK, CallRecords
  <2>4. \A y \in 1 .. Len(cs) : cs[y].start <= a
    <3>1. \A y \in 1 .. Len(cs) : cs[y] \in CallRecords
      BY ElementOfSeq
    <3>2. \A y \in 1 .. Len(cs) : cs[y].start \in Nat /\ cs[y].start <= s
      BY <1>1, <2>1, <2>3, <3>1 DEF ListenerInv, CallRecords
    <3> QED
      BY <2>1, <3>2
  <2>5. Fresh(x)'
    BY <1>2 DEF Fresh
  <2>6. CallsInOrder(called[x], mishaps)'
    BY <1>1 DEF ListenerInv
  <2>7. \A y \in 1 .. Len(called'[x]) : called'[x][y].start <= Seen(x)'
    BY <2>2, <2>3, <2>4
  <2>8. pc'[x] # "loop"
    BY <1>2
  <2>9. ListenerInv(x)'
    BY <2>5, <2>6, <2>7, <2>8 DEF ListenerInv
  <2> QED
    BY <2>1, <2>2, <2>9
<1>3. ASSUME NEW x \in Sides, Same(x)
      PROVE  /\ ListenerInv(x)'
             /\ Seen(x) \in Nat /\ Seen(x)' \in Nat /\ Seen(x) <= Seen(x)'
  <2>1. Seen(x)' = Seen(x) /\ Seen(x) \in Nat
    BY <1>1, <1>3, SeenRange DEF Same, Seen
  <2> QED
    BY <1>1, <1>3, <2>1, ListenerStays
<1>4. \A x \in Sides : /\ ListenerInv(x)'
                       /\ Seen(x) \in Nat /\ Seen(x)' \in Nat /\ Seen(x) <= Seen(x)'
  BY <1>2, <1>3
<1>5. "server" \in Sides
  BY DEF Sides
<1>6. Kept(packetQueue, mishaps, called["server"], Seen("server"))'
  BY <1>1, <1>4, <1>5, QueueStays
<1>7. pc'["server"] = "loop" => Same("server")
  BY <1>5
<1>8. pc'["server"] = "loop" =>
        Meet(packetQueue, mishaps, copy["server"], cursor["server"])'
  BY <1>1, <1>7 DEF Same, FragmentsInv
<1> QED
  BY <1>4, <1>6, <1>8 DEF FragmentsInv

LEMMA NextOnce ==
  TypeInv /\ TypeInv' /\ OnceInv /\ [Next]_processorVars => OnceInv'
<1> SUFFICES ASSUME TypeInv, TypeInv', OnceInv, [Next]_processorVars PROVE OnceInv'
  OBVIOUS
<1>1. CASE UNCHANGED processorVars
  <2>1. \A d \in Sides : Same(d)
    BY <1>1 DEF Same, processorVars
  <2>2. Seen("server")' = Seen("server") /\ "server" \in Sides
    BY <1>1 DEF Seen, processorVars, Sides
  <2>3. "repeated" \notin mishaps => \A d \in Sides : ListenerInv(d)'
    BY <1>1, <2>1, ListenerStays DEF OnceInv, processorVars
  <2>4. "repeated" \notin mishaps => FragmentsInv'
    BY <1>1, <2>2 DEF OnceInv, FragmentsInv, processorVars
  <2> QED
    BY <1>1, <2>3, <2>4 DEF OnceInv, processorVars
<1>2. ASSUME NEW d \in Sides, Recv(d) PROVE OnceInv'
  BY <1>2, RecvOnce
<1>3. ASSUME NEW d \in Sides, Process(d) PROVE OnceInv'
  <2>1. CASE CopyPacket(d)
    BY <2>1, CopyOnce
  <2>2. CASE PopFragment(d)
    BY <2>2, PopFragmentOnce
  <2>3. CASE PopNothing(d)
    BY <2>3, RestingOnce DEF PopNothing, OnceInv
  <2>4. CASE ProcessPacket(d)
    BY <2>4, ProcessPacketPasses, PassingOnce
  <2>5. CASE EndOfChunk(d)
    <3>1. pc'[d] = "forward" /\ \A x \in Sides \ {d} : Same(x)
      BY <2>5 DEF EndOfChunk, Goto, Same, TypeInv, TypeOK
    <3> QED
      BY <2>5, <3>1, RestingOnce DEF EndOfChunk, OnceInv
  <2>6. CASE Forward(d)
    <3>1. pc'[d] = "recv" /\ \A x \in Sides \ {d} : Same(x)
      BY <2>6 DEF Forward, Goto, Same, TypeInv, TypeOK
    <3> QED
      BY <2>6, <3>1, RestingOnce DEF Forward, OnceInv
  <2> QED
    BY <1>3, <2>1, <2>2, <2>3, <2>4, <2>5, <2>6 DEF Process
<1> QED
  BY <1>1, <1>2, <1>3 DEF Next

\* Whatever is misread, and whichever listener takes the other one's fragment: no
\* packet is passed to the plugin as such a second time, unless memcpy has repeated
\* a chunk (PacketProcessor.c:31-33), and none after a later one as long as no two
\* fragments are kept at the same time (PacketProcessor.c:114-121, 141-163).
THEOREM PacketsComeOnceAlways == Spec => []PacketsComeOnce
<1>1. Init => TypeInv /\ OnceInv
  BY InitTypes, InitOnce
<1>2. TypeInv /\ OnceInv /\ [Next]_processorVars => (TypeInv /\ OnceInv)'
  BY NextTypes, NextOnce
<1>3. TypeInv /\ OnceInv => PacketsComeOnce
  BY OnceInvSuffices
<1> QED
  BY <1>1, <1>2, <1>3, PTL DEF Spec

-----------------------------------------------------------------------------
(* Chunks the processor can handle: every packet comes, once and whole.     *)

\* The plugin was called with every packet that ends with cell b or before, and
\* with nothing else.
CalledUpTo(d, cs, b) ==
  /\ \A i \in 1 .. Len(cs) : cs[i] \in Calls(d) /\ LastCell(d, cs[i].start) <= b
  /\ \A c \in Calls(d) : LastCell(d, c.start) <= b => \E i \in 1 .. Len(cs) : cs[i] = c
  /\ \A i, j \in 1 .. Len(cs) : i < j => Before(cs[i], cs[j])

\* Between two chunks, the first of which ends with cell a: no packet is cut, and
\* the queue is empty, or it holds the cells from b + 1 of the packet that is.
UpTo(d, b, a, q, cs) ==
  /\ CalledUpTo(d, cs, b)
  /\ \/ b = a /\ Cuts(d, a) = {} /\ (d = "server" => q = << >>)
     \/ /\ d = "server" /\ b < a /\ b + 1 \in Cuts(d, a)
        /\ Len(q) = 1 /\ Len(q[1]) = a - b /\ FreshChunk(d, q[1], b)

\* In the loop over the copy c of a chunk of the cells a + 1 .. e, which begins with
\* cell b + 1: the cursor is between two packets, or behind a packet that is cut.
Looping(d, b, c, k, q, cs, a, e) ==
  /\ FreshChunk(d, c, b) /\ b + Len(c) = e
  /\ b <= a /\ (b = a \/ b + 1 \in Cuts(d, a))
  /\ \/ /\ k <= Len(c) /\ (d = "server" => q = << >>)
        /\ Cuts(d, b + k) = {} /\ CalledUpTo(d, cs, b + k)
     \/ k >= Len(c) /\ \E u \in Nat : UpTo(d, u, e, q, cs)

\* The number of cells before those of the chunk a listener holds.
First(d) == arrived[d] - Len(raw[d])

ChunkInv(d) ==
  /\ First(d) \in Ends[d] \cup {0}
  /\ IF pc[d] = "recv"
       THEN raw[d] = << >>
       ELSE /\ arrived[d] \in Ends[d]
            /\ First(d) < arrived[d] /\ arrived[d] < First(d) + BufferSize

PlaceInv(d) ==
  /\ pc[d] \in {"recv", "start", "pop", "loop", "forward"}
  /\ pc[d] \in {"recv", "start", "pop"} =>
       \E b \in Nat : UpTo(d, b, First(d), packetQueue, called[d])
  /\ pc[d] \in {"start", "pop"} => FreshChunk(d, raw[d], First(d))
  /\ pc[d] = "pop" =>
       /\ d = "server" /\ packetQueue # << >>
       /\ copy[d] = raw[d] /\ cursor[d] = 0
  /\ pc[d] = "loop" =>
       \E b \in Nat : Looping(d, b, copy[d], cursor[d], packetQueue, called[d],
                              First(d), arrived[d])
  /\ pc[d] = "forward" =>
       \E b \in Nat : UpTo(d, b, arrived[d], packetQueue, called[d])

CleanInv ==
  /\ \A d \in Sides : ChunkInv(d) /\ PlaceInv(d)
  /\ packetQueue # << >> => Ends["client"] = {}

-----------------------------------------------------------------------------
(* How the packets lie in a stream.                                        *)

LEMMA PacketsApart ==
  ASSUME NEW d \in Sides, NEW s \in Starts(d), NEW t \in Starts(d)
  PROVE  s < t => LastCell(d, s) < t
BY ProcessorAssumption

LEMMA CellsAreCovered ==
  ASSUME NEW d \in Sides, NEW c \in 1 .. Length[d]
  PROVE  \E s \in Starts(d) : c \in s .. LastCell(d, s)
BY ProcessorAssumption

\* Behind the end of a packet the next one starts.
LEMMA NextPacket ==
  ASSUME NEW d \in Sides, NEW b \in Nat, b < Length[d], Cuts(d, b) = {}
  PROVE  b + 1 \in Starts(d)
<1>1. Length[d] \in Nat
  BY ProcessorAssumption
<1>2. PICK s \in Starts(d) : b + 1 \in s .. LastCell(d, s)
  BY <1>1, CellsAreCovered
<1>3. s \in Nat /\ LastCell(d, s) \in Nat
  BY PacketTypes
<1>4. ~(s <= b /\ b < LastCell(d, s))
  BY DEF Cuts
<1> QED
  BY <1>2, <1>3, <1>4

\* No packet is cut before or behind a packet.
LEMMA PacketEnds ==
  ASSUME NEW d \in Sides, NEW s \in Starts(d)
  PROVE  /\ Cuts(d, s - 1) = {} /\ Cuts(d, LastCell(d, s)) = {}
         /\ LastCell(d, s) = s - 1 + SizeOf(d, s) /\ s <= LastCell(d, s)
<1>1. s \in Nat /\ LastCell(d, s) \in Nat /\ SizeOf(d, s) \in Nat \ {0}
  BY PacketTypes
<1>2. LastCell(d, s) = s - 1 + SizeOf(d, s) /\ s <= LastCell(d, s)
  BY <1>1 DEF LastCell
<1>3. ASSUME NEW t \in Starts(d)
      PROVE  /\ ~(t <= s - 1 /\ s - 1 < LastCell(d, t))
             /\ ~(t <= LastCell(d, s) /\ LastCell(d, s) < LastCell(d, t))
  <2>1. t \in Nat /\ LastCell(d, t) \in Nat
    BY PacketTypes
  <2>2. (s < t => LastCell(d, s) < t) /\ (t < s => LastCell(d, t) < s)
    BY PacketsApart
  <2> QED
    BY <1>1, <1>2, <2>1, <2>2
<1> QED
  BY <1>2, <1>3 DEF Cuts

\* A packet that is not the one that starts behind cell b ends before it, or starts
\* behind that one.
LEMMA BeforeOrBehind ==
  ASSUME NEW d \in Sides, NEW s \in Starts(d), NEW t \in Starts(d), s # t
  PROVE  LastCell(d, t) <= s - 1 \/ LastCell(d, t) > LastCell(d, s)
<1>1. /\ s \in Nat /\ t \in Nat /\ LastCell(d, s) \in Nat /\ LastCell(d, t) \in Nat
      /\ t <= LastCell(d, t)
  BY PacketTypes, PacketEnds
<1>2. (s < t => LastCell(d, s) < t) /\ (t < s => LastCell(d, t) < s)
  BY PacketsApart
<1> QED
  BY <1>1, <1>2

LEMMA CallsOfPackets ==
  ASSUME NEW d \in Sides
  PROVE  /\ \A c \in Calls(d) : /\ c.start \in Starts(d) /\ c # Garbage
                                /\ c.nth \in 1 .. Packets[d][c.start].calls
                                /\ c = Call(c.start, c.nth)
         /\ \A s \in Starts(d) : \A n \in 1 .. Packets[d][s].calls : Call(s, n) \in Calls(d)
<1>1. ASSUME NEW c \in Calls(d)
      PROVE  /\ c.start \in Starts(d) /\ c # Garbage
             /\ c.nth \in 1 .. Packets[d][c.start].calls
             /\ c = Call(c.start, c.nth)
  <2>0. PICK s \in Starts(d) : \E n \in 1 .. Packets[d][s].calls : c = Call(s, n)
    BY DEF Calls
  <2>1. PICK n \in 1 .. Packets[d][s].calls : c = Call(s, n)
    BY <2>0
  <2>2. c.start = s /\ c.nth = n
    BY <2>1 DEF Call
  <2>3. s \in Nat /\ s >= 1
    BY PacketTypes
  <2>4. c # Garbage
    BY <2>2, <2>3 DEF Garbage, Call
  <2> QED
    BY <2>1, <2>2, <2>4
<1>2. ASSUME NEW s \in Starts(d), NEW n \in 1 .. Packets[d][s].calls
      PROVE  Call(s, n) \in Calls(d)
  BY DEF Calls
<1> QED
  BY <1>1, <1>2

\* The calls with a whole packet continue the calls with those before it.
LEMMA CalledOn ==
  ASSUME NEW d \in Sides, NEW cs \in Seq(CallRecords), NEW b \in Nat,
         CalledUpTo(d, cs, b), b + 1 \in Starts(d), NEW ns \in Seq(CallRecords),
         Len(ns) = Packets[d][b + 1].calls,
         \A i \in 1 .. Len(ns) : ns[i] = Call(b + 1, i)
  PROVE  CalledUpTo(d, cs \o ns, LastCell(d, b + 1))
<1> DEFINE all == cs \o ns
<1>0. PICK s \in Starts(d) : s = b + 1
  OBVIOUS
<1>1. \A x \in 1 .. Len(all) :
        \/ x \in 1 .. Len(cs) /\ all[x] = cs[x]
        \/ x > Len(cs) /\ x - Len(cs) \in 1 .. Len(ns) /\ all[x] = ns[x - Len(cs)]
  BY ElementsOfConcat
<1>2. /\ Len(cs) \in Nat /\ Len(ns) \in Nat /\ Len(all) = Len(cs) + Len(ns)
      /\ \A x \in 1 .. Len(cs) : all[x] = cs[x]
      /\ \A x \in 1 .. Len(ns) : Len(cs) + x \in 1 .. Len(all) /\ all[Len(cs) + x] = ns[x]
  <2>1. Len(cs) \in Nat /\ Len(ns) \in Nat /\ Len(all) = Len(cs) + Len(ns)
    BY LenProperties, ConcatProperties
  <2>2. \A x \in 1 .. Len(cs) : all[x] = cs[x]
    BY <2>1, ConcatProperties
  <2>3. ASSUME NEW x \in 1 .. Len(ns)
        PROVE  Len(cs) + x \in 1 .. Len(all) /\ all[Len(cs) + x] = ns[x]
    <3>1. Len(cs) + x \in 1 .. Len(all) /\ ~(Len(cs) + x <= Len(cs))
          /\ Len(cs) + x - Len(cs) = x
      BY <2>1
    <3> QED
      BY <2>1, <3>1, ConcatProperties
  <2> QED
    BY <2>1, <2>2, <2>3
<1> HIDE DEF all
<1>3. s \in Nat /\ LastCell(d, s) \in Nat /\ s <= LastCell(d, s) /\ b < LastCell(d, s)
  BY <1>0, PacketTypes, PacketEnds
<1>4. \A x \in 1 .. Len(ns) :
        ns[x] \in Calls(d) /\ ns[x].start = s /\ ns[x].nth = x
  <2>1. \A x \in 1 .. Len(ns) : ns[x] = Call(s, x) /\ x \in 1 .. Packets[d][s].calls
    BY <1>0
  <2>2. \A p, n : Call(p, n).start = p /\ Call(p, n).nth = n
    BY DEF Call
  <2>3. \A x \in 1 .. Packets[d][s].calls : Call(s, x) \in Calls(d)
    BY CallsOfPackets
  <2> QED
    BY <2>1, <2>2, <2>3
<1>5. \A x \in 1 .. Len(cs) :
        /\ cs[x] \in Calls(d) /\ cs[x].start \in Nat /\ cs[x].start <= b
        /\ LastCell(d, cs[x].start) <= b
  <2> SUFFICES ASSUME NEW x \in 1 .. Len(cs)
               PROVE  /\ cs[x] \in Calls(d) /\ cs[x].start \in Nat /\ cs[x].start <= b
                      /\ LastCell(d, cs[x].start) <= b
    OBVIOUS
  <2>1. cs[x] \in Calls(d) /\ LastCell(d, cs[x].start) <= b
    BY DEF CalledUpTo
  <2>2. cs[x].start \in Starts(d)
    BY <2>1, CallsOfPackets
  <2>3. /\ cs[x].start \in Nat /\ LastCell(d, cs[x].start) \in Nat
        /\ cs[x].start <= LastCell(d, cs[x].start)
    BY <2>2, PacketTypes, PacketEnds
  <2> QED
    BY <2>1, <2>3
<1>6. ASSUME NEW x \in 1 .. Len(all)
      PROVE  all[x] \in Calls(d) /\ LastCell(d, all[x].start) <= LastCell(d, s)
  <2>1. CASE x \in 1 .. Len(cs) /\ all[x] = cs[x]
    <3>1. cs[x].start \in Starts(d)
      BY <1>5, <2>1, CallsOfPackets
    <3>2. LastCell(d, cs[x].start) \in Nat
      BY <3>1, PacketTypes
    <3> QED
      BY <1>3, <1>5, <2>1, <3>2
  <2>2. ASSUME NEW y \in 1 .. Len(ns), all[x] = ns[y]
        PROVE  all[x] \in Calls(d) /\ LastCell(d, all[x].start) <= LastCell(d, s)
    BY <1>3, <1>4, <2>2
  <2> QED
    BY <1>1, <2>1, <2>2
<1>7. ASSUME NEW c \in Calls(d), LastCell(d, c.start) <= LastCell(d, s)
      PROVE  \E i \in 1 .. Len(all) : all[i] = c
  <2>1. c.start \in Starts(d) /\ c.nth \in 1 .. Packets[d][c.start].calls
        /\ c = Call(c.start, c.nth)
    BY CallsOfPackets
  <2>2. CASE c.start = s
    <3>1. c.nth \in 1 .. Len(ns) /\ ns[c.nth] = c
      BY <1>0, <2>1, <2>2
    <3> QED
      BY <1>2, <3>1
  <2>3. CASE c.start # s
    <3>0. PICK t \in Starts(d) : t = c.start /\ t # s
      BY <2>1, <2>3
    <3>1. LastCell(d, t) \in Nat
      BY PacketTypes
    <3>4. LastCell(d, t) <= s - 1 \/ LastCell(d, t) > LastCell(d, s)
      BY <3>0, BeforeOrBehind
    <3>2. LastCell(d, c.start) <= b
      BY <1>0, <1>3, <1>7, <3>0, <3>1, <3>4
    <3>3. PICK i \in 1 .. Len(cs) : cs[i] = c
      BY <3>2 DEF CalledUpTo
    <3>5. i \in 1 .. Len(all)
      <4>1. i \in Nat /\ 1 <= i /\ i <= Len(cs)
        BY <1>2, <3>3
      <4> QED
        BY <1>2, <4>1
    <3>6. all[i] = c
      BY <1>2, <3>3
    <3> QED
      BY <3>5, <3>6, Zenon
  <2> QED
    BY <2>2, <2>3
<1>8. ASSUME NEW x \in 1 .. Len(all), NEW y \in 1 .. Len(all), x < y
      PROVE  Before(all[x], all[y])
  <2>1. CASE y \in 1 .. Len(cs) /\ all[y] = cs[y]
    <3>1. x \in 1 .. Len(cs) /\ all[x] = cs[x]
      BY <1>2, <1>8, <2>1
    <3> QED
      BY <1>8, <2>1, <3>1 DEF CalledUpTo
  <2>2. ASSUME NEW v \in 1 .. Len(ns), v = y - Len(cs), all[y] = ns[v]
        PROVE  Before(all[x], all[y])
    <3>1. CASE x \in 1 .. Len(cs) /\ all[x] = cs[x]
      BY <1>0, <1>4, <1>5, <2>2, <3>1 DEF Before
    <3>2. ASSUME NEW u \in 1 .. Len(ns), u = x - Len(cs), all[x] = ns[u]
          PROVE  Before(all[x], all[y])
      <4>1. u < v
        BY <1>2, <1>8, <2>2, <3>2
      <4> QED
        BY <1>4, <2>2, <3>2, <4>1 DEF Before
    <3> QED
      BY <1>1, <3>1, <3>2
  <2> QED
    BY <1>1, <2>1, <2>2
<1>9. CalledUpTo(d, all, LastCell(d, s))
  BY <1>6, <1>7, <1>8 DEF CalledUpTo
<1> QED
  BY <1>0, <1>9 DEF all

\* What the queue holds does not matter to the client, and the server's listener
\* alone changes it.
LEMMA OthersClean ==
  ASSUME TypeInv, CleanInv, NEW d \in Sides, ChunkInv(d)', PlaceInv(d)',
         \A x \in Sides \ {d} : Same(x),
         \/ packetQueue' = packetQueue
         \/ d = "server" /\ (packetQueue' # << >> => Ends["client"] = {})
  PROVE  CleanInv'
<1>1. ASSUME NEW x \in Sides \ {d} PROVE ChunkInv(x)' /\ PlaceInv(x)'
  <2>1. ChunkInv(x) /\ PlaceInv(x) /\ Same(x)
    BY <1>1 DEF CleanInv
  <2>2. First(x)' = First(x)
    BY <2>1 DEF Same, First
  <2>3. ChunkInv(x)'
    BY <2>1, <2>2 DEF Same, ChunkInv
  <2>4. PICK q, p : q = packetQueue /\ p = packetQueue'
    OBVIOUS
  <2>5. p = q \/ x = "client"
    BY <1>1, <2>4 DEF Sides
  <2>6. \A b, a, cs : UpTo(x, b, a, q, cs) => UpTo(x, b, a, p, cs)
    <3>1. CASE p = q
      BY <3>1
    <3>2. CASE x = "client"
      BY <3>2 DEF UpTo
    <3> QED
      BY <2>5, <3>1, <3>2
  <2>7. \A b, c, k, cs, a, e : Looping(x, b, c, k, q, cs, a, e) => Looping(x, b, c, k, p, cs, a, e)
    <3>1. CASE p = q
      BY <3>1
    <3>2. CASE x = "client"
      BY <2>6, <3>2 DEF Looping
    <3> QED
      BY <2>5, <3>1, <3>2
  <2>8. pc[x] = "pop" => packetQueue' = packetQueue
    BY <1>1, <2>1, <2>5, <2>4 DEF PlaceInv
  <2>9. PlaceInv(x)'
    <3>1. pc'[x] \in {"recv", "start", "pop"} =>
            \E b \in Nat : UpTo(x, b, First(x)', p, called'[x])
      BY <2>1, <2>2, <2>4, <2>6 DEF Same, PlaceInv
    <3>2. pc'[x] = "loop" =>
            \E b \in Nat : Looping(x, b, copy'[x], cursor'[x], p, called'[x],
                                   First(x)', arrived'[x])
      BY <2>1, <2>2, <2>4, <2>7 DEF Same, PlaceInv
    <3>3. pc'[x] = "forward" =>
            \E b \in Nat : UpTo(x, b, arrived'[x], p, called'[x])
      BY <2>1, <2>2, <2>4, <2>6 DEF Same, PlaceInv
    <3>4. pc'[x] \in {"start", "pop"} => FreshChunk(x, raw'[x], First(x)')
      BY <2>1, <2>2 DEF Same, PlaceInv
    <3>5. pc'[x] = "pop" =>
            x = "server" /\ packetQueue' # << >> /\ copy'[x] = raw'[x] /\ cursor'[x] = 0
      BY <2>1, <2>8 DEF Same, PlaceInv
    <3>6. pc'[x] \in {"recv", "start", "pop", "loop", "forward"}
      BY <2>1 DEF Same, PlaceInv
    <3> QED
      BY <2>4, <3>1, <3>2, <3>3, <3>4, <3>5, <3>6 DEF PlaceInv
  <2> QED
    BY <2>3, <2>9
<1>2. \A x \in Sides : ChunkInv(x)' /\ PlaceInv(x)'
  BY <1>1
<1>3. packetQueue' # << >> => Ends["client"] = {}
  BY DEF CleanInv
<1> QED
  BY <1>2, <1>3 DEF CleanInv

LEMMA InitClean == Init => CleanInv
<1> SUFFICES ASSUME Init PROVE CleanInv
  OBVIOUS
<1>1. Len(<< >>) = 0
  OBVIOUS
<1>2. packetQueue = << >>
  BY DEF Init
<1> SUFFICES ASSUME NEW d \in Sides PROVE ChunkInv(d) /\ PlaceInv(d)
  BY <1>2 DEF CleanInv
<1>3. /\ arrived[d] = 0 /\ raw[d] = << >> /\ pc[d] = "recv" /\ called[d] = << >>
  BY DEF Init
<1>4. First(d) = 0
  <2>1. Len(raw[d]) = 0
    BY <1>1, <1>3, Zenon
  <2>2. 0 - 0 = 0
    OBVIOUS
  <2>3. arrived[d] - Len(raw[d]) = 0 - 0
    BY <1>3, <2>1, Zenon
  <2> QED
    BY <2>2, <2>3, Zenon DEF First
<1>5. \A s \in Starts(d) : s >= 1 /\ s \in Nat /\ LastCell(d, s) >= 1 /\ LastCell(d, s) \in Nat
  <2> SUFFICES ASSUME NEW s \in Starts(d)
               PROVE  s >= 1 /\ s \in Nat /\ LastCell(d, s) >= 1 /\ LastCell(d, s) \in Nat
    OBVIOUS
  <2> QED
    BY PacketTypes, PacketEnds
<1>6. Cuts(d, 0) = {}
  BY <1>5 DEF Cuts
<1>7. \A c \in Calls(d) : ~(LastCell(d, c.start) <= 0)
  <2> SUFFICES ASSUME NEW c \in Calls(d) PROVE ~(LastCell(d, c.start) <= 0)
    OBVIOUS
  <2>1. c.start \in Starts(d)
    BY CallsOfPackets
  <2> QED
    BY <1>5, <2>1
<1>8. CalledUpTo(d, << >>, 0)
  BY <1>1, <1>7 DEF CalledUpTo
<1>9. UpTo(d, 0, 0, << >>, << >>)
  BY <1>6, <1>8 DEF UpTo
<1>10. ChunkInv(d)
  BY <1>3, <1>4 DEF ChunkInv
<1>11. PlaceInv(d)
  BY <1>2, <1>3, <1>4, <1>9 DEF PlaceInv
<1> QED
  BY <1>10, <1>11

LEMMA RecvClean ==
  ASSUME TypeInv, CleanInv, NEW d \in Sides, Recv(d)
  PROVE  CleanInv'
<1>1. PICK e \in Ends[d] :
        /\ arrived[d] < e /\ e < arrived[d] + BufferSize
        /\ raw' = [raw EXCEPT ![d] =
                     [i \in 1 .. e - arrived[d] |-> Cell(d, arrived[d] + i)]]
        /\ arrived' = [arrived EXCEPT ![d] = e]
  BY DEF Recv
<1>2. /\ pc[d] = "recv" /\ pc' = [pc EXCEPT ![d] = "start"]
      /\ UNCHANGED <<copy, cursor, packetQueue, called, sent, mishaps>>
  BY DEF Recv, Goto
<1>4. PICK a \in Nat : a = arrived[d]
  BY DEF TypeInv, TypeOK
<1>5. e \in Nat /\ e - a \in Nat /\ e - (e - a) = a /\ e - a <= e
  BY <1>1, <1>4, ProcessorAssumption
<1>6. /\ raw'[d] = [i \in 1 .. e - a |-> Cell(d, a + i)] /\ arrived'[d] = e
      /\ pc'[d] = "start" /\ Len(raw'[d]) = e - a
  <2>1. raw'[d] = [i \in 1 .. e - a |-> Cell(d, a + i)]
    BY <1>1, <1>4 DEF TypeInv, TypeOK
  <2>2. \A i \in 1 .. e - a : Cell(d, a + i) \in Cells
    BY <1>4 DEF Cell, Cells
  <2>3. Len(raw'[d]) = e - a
    BY <1>5, <2>1, <2>2
  <2>4. arrived'[d] = e /\ pc'[d] = "start"
    BY <1>1, <1>2 DEF TypeInv, TypeOK
  <2> QED
    BY <2>1, <2>3, <2>4
<1>7. First(d)' = a
  BY <1>5, <1>6 DEF First
<1>8. First(d) = a
  <2>1. raw[d] = << >> /\ Len(<< >>) = 0
    BY <1>2 DEF CleanInv, ChunkInv
  <2> QED
    BY <1>4, <2>1 DEF First
<1>9. ChunkInv(d)'
  <2>1. a \in Ends[d] \cup {0}
    BY <1>8 DEF CleanInv, ChunkInv
  <2> QED
    BY <1>1, <1>4, <1>6, <1>7, <2>1 DEF ChunkInv
<1>10. PlaceInv(d)'
  <2>1. PICK b \in Nat : UpTo(d, b, a, packetQueue, called[d])
    BY <1>2, <1>8 DEF CleanInv, PlaceInv
  <2>2. UpTo(d, b, First(d)', packetQueue', called'[d])
    BY <1>2, <1>7, <2>1
  <2>3. FreshChunk(d, raw'[d], First(d)')
    BY <1>6, <1>7 DEF FreshChunk
  <2> QED
    BY <1>6, <2>2, <2>3 DEF PlaceInv
<1>11. \A x \in Sides \ {d} : Same(x)
  BY <1>1, <1>2 DEF Same, TypeInv, TypeOK
<1> QED
  BY <1>2, <1>9, <1>10, <1>11, OthersClean

\* The types of what a listener holds, by rigid names.
LEMMA HeldTypes ==
  ASSUME TypeInv, NEW d \in Sides
  PROVE  /\ arrived[d] \in Nat /\ raw[d] \in Seq(Cells) /\ Len(raw[d]) \in Nat
         /\ copy[d] \in Seq(Cells) /\ Len(copy[d]) \in Nat /\ cursor[d] \in Nat
         /\ called[d] \in Seq(CallRecords)
         /\ packetQueue \in Seq(NonEmpty) /\ First(d) \in Int
         /\ First(d) + Len(raw[d]) = arrived[d]
<1>1. /\ arrived[d] \in Nat /\ raw[d] \in Seq(Cells) /\ copy[d] \in Seq(Cells)
      /\ cursor[d] \in Nat /\ called[d] \in Seq(CallRecords)
      /\ packetQueue \in Seq(NonEmpty)
  BY DEF TypeInv, TypeOK, CallRecords
<1>2. Len(raw[d]) \in Nat /\ Len(copy[d]) \in Nat
  BY <1>1, LenProperties
<1>3. PICK a \in Nat, l \in Nat : a = arrived[d] /\ l = Len(raw[d])
  BY <1>1, <1>2
<1>4. First(d) = a - l
  BY <1>3 DEF First
<1>5. a - l \in Int /\ a - l + l = a
  OBVIOUS
<1>6. First(d) \in Int /\ First(d) + Len(raw[d]) = arrived[d]
  BY <1>3, <1>4, <1>5
<1> QED
  BY <1>1, <1>2, <1>6

LEMMA FirstIsNat ==
  ASSUME TypeInv, CleanInv, NEW d \in Sides
  PROVE  First(d) \in Nat
<1>1. First(d) \in Ends[d] \cup {0}
  BY DEF CleanInv, ChunkInv
<1>2. Ends[d] \subseteq 1 .. Length[d] /\ Length[d] \in Nat
  BY ProcessorAssumption
<1> QED
  BY <1>1, <1>2

\* Only the server's listener works while a fragment is kept.
LEMMA FragmentsAreTheServers ==
  ASSUME CleanInv, packetQueue # << >>, NEW d \in Sides, pc[d] # "recv"
  PROVE  d = "server" /\ Ends["client"] = {}
<1>1. Ends["client"] = {} /\ arrived[d] \in Ends[d]
  BY DEF CleanInv, ChunkInv
<1> QED
  BY <1>1 DEF Sides

LEMMA CopyClean ==
  ASSUME TypeInv, CleanInv, NEW d \in Sides, CopyPacket(d)
  PROVE  CleanInv'
<1>1. /\ copy' = [copy EXCEPT ![d] = raw[d]] /\ cursor' = [cursor EXCEPT ![d] = 0]
      /\ pc[d] = "start"
      /\ UNCHANGED <<arrived, raw, packetQueue, called, sent, mishaps>>
  BY DEF CopyPacket
<1>2. PICK l \in {"loop", "pop"} : /\ pc' = [pc EXCEPT ![d] = l]
                                   /\ l = "loop" <=> packetQueue = << >>
  BY DEF CopyPacket, Goto
<1>4. copy'[d] = raw[d] /\ cursor'[d] = 0 /\ pc'[d] = l
  BY <1>1, <1>2 DEF TypeInv, TypeOK
<1>5. \A x \in Sides \ {d} : Same(x)
  BY <1>1, <1>2 DEF Same, TypeInv, TypeOK
<1>6. First(d)' = First(d)
  BY <1>1 DEF First
<1>7. ChunkInv(d)'
  BY <1>1, <1>4, <1>6 DEF CleanInv, ChunkInv
<1>8. PICK b \in Nat : UpTo(d, b, First(d), packetQueue, called[d])
  BY <1>1 DEF CleanInv, PlaceInv
<1>9. FreshChunk(d, raw[d], First(d))
  BY <1>1 DEF CleanInv, PlaceInv
<1>10. PlaceInv(d)'
  <2>1. CASE l = "pop"
    <3>1. packetQueue # << >> /\ d = "server"
      BY <1>1, <1>2, <2>1, FragmentsAreTheServers
    <3> QED
      BY <1>1, <1>4, <1>6, <1>8, <1>9, <2>1, <3>1 DEF PlaceInv
  <2>2. CASE l = "loop"
    <3>1. packetQueue = << >> /\ Len(<< >>) = 0
      BY <1>2, <2>2
    <3>2. First(d) = b /\ Cuts(d, b) = {} /\ CalledUpTo(d, called[d], b)
      BY <1>8, <3>1 DEF UpTo
    <3>3. b + Len(raw[d]) = arrived[d] /\ 0 <= Len(raw[d]) /\ b + 0 = b /\ b <= b
      BY <3>2, HeldTypes
    <3>4. Looping(d, b, raw[d], 0, << >>, called[d], b, arrived[d])
      BY <1>9, <3>2, <3>3 DEF Looping
    <3>5. Looping(d, b, copy'[d], cursor'[d], packetQueue', called'[d], First(d)', arrived'[d])
      BY <1>1, <1>4, <1>6, <3>1, <3>2, <3>4
    <3> QED
      BY <1>4, <2>2, <3>5 DEF PlaceInv
  <2> QED
    BY <2>1, <2>2
<1> QED
  BY <1>1, <1>5, <1>7, <1>10, OthersClean

\* A fragment and the chunk behind it.
LEMMA FreshTogether ==
  ASSUME NEW d \in Sides, NEW f \in Seq(Cells), NEW c \in Seq(Cells),
         NEW b \in Nat, NEW a \in Nat, b + Len(f) = a,
         FreshChunk(d, f, b), FreshChunk(d, c, a)
  PROVE  FreshChunk(d, f \o c, b) /\ Len(f \o c) = Len(f) + Len(c)
<1>1. Len(f) \in Nat /\ Len(c) \in Nat /\ Len(f \o c) = Len(f) + Len(c)
  BY LenProperties, ConcatProperties
<1>2. ASSUME NEW x \in 1 .. Len(f \o c) PROVE (f \o c)[x] = Cell(d, b + x)
  <2>1. CASE x \in 1 .. Len(f) /\ (f \o c)[x] = f[x]
    BY <2>1 DEF FreshChunk
  <2>2. CASE /\ x > Len(f) /\ x - Len(f) \in 1 .. Len(c)
             /\ (f \o c)[x] = c[x - Len(f)]
    <3>1. c[x - Len(f)] = Cell(d, a + (x - Len(f)))
      BY <2>2 DEF FreshChunk
    <3>2. a + (x - Len(f)) = b + x
      BY <1>1, <2>2
    <3> QED
      BY <2>2, <3>1, <3>2
  <2> QED
    BY <2>1, <2>2, ElementsOfConcat
<1> QED
  BY <1>1, <1>2 DEF FreshChunk

LEMMA PopClean ==
  ASSUME CleanChunks, TypeInv, CleanInv, NEW d \in Sides, PopFragment(d)
  PROVE  CleanInv'
<1>1. /\ pc[d] = "pop" /\ pc' = [pc EXCEPT ![d] = "loop"]
      /\ packetQueue # << >> /\ packetQueue' = Tail(packetQueue)
      /\ UNCHANGED <<arrived, raw, cursor, called, sent>>
  BY DEF PopFragment, Goto
<1>2. d = "server" /\ copy[d] = raw[d] /\ cursor[d] = 0
      /\ FreshChunk(d, raw[d], First(d))
  BY <1>1 DEF CleanInv, PlaceInv
<1>3. PICK q \in Seq(NonEmpty), r \in Seq(Cells), a \in Nat, e \in Nat, cs \in Seq(CallRecords) :
        /\ q = packetQueue /\ r = raw[d] /\ a = First(d) /\ e = arrived[d] /\ cs = called[d]
        /\ a + Len(r) = e
  BY HeldTypes, FirstIsNat
<1>4. PICK b \in Nat : UpTo(d, b, a, q, cs)
  BY <1>1, <1>3 DEF CleanInv, PlaceInv
<1>5. /\ CalledUpTo(d, cs, b) /\ b < a /\ b + 1 \in Cuts(d, a)
      /\ Len(q) = 1 /\ Len(q[1]) = a - b /\ FreshChunk(d, q[1], b)
  BY <1>1, <1>2, <1>3, <1>4 DEF UpTo
<1>6. q[1] = Head(packetQueue) /\ q[1] \in Seq(Cells) /\ packetQueue' = << >>
  <2>1. q[1] = Head(packetQueue) /\ q[1] \in Seq(Cells)
    BY <1>1, <1>3, QueueTypes
  <2>2. QueueWithoutFirst \in Seq(NonEmpty) /\ Len(QueueWithoutFirst) = 0
    BY <1>1, <1>3, <1>5, QueueTypes
  <2>3. QueueWithoutFirst = packetQueue'
    BY <1>1 DEF QueueWithoutFirst
  <2> QED
    BY <2>1, <2>2, <2>3, EmptySeq
<1>7. PICK f \in Seq(Cells) : f = q[1] /\ Len(f) = a - b /\ b + Len(f) = a
  <2>1. b + (a - b) = a
    OBVIOUS
  <2> QED
    BY <1>5, <1>6, <2>1
<1>8. FreshChunk(d, f \o r, b) /\ Len(f \o r) = Len(f) + Len(r)
  <2>1. FreshChunk(d, r, a)
    BY <1>2, <1>3, Zenon
  <2>2. FreshChunk(d, f, b)
    BY <1>5, <1>7, Zenon
  <2> QED
    BY <1>7, <2>1, <2>2, FreshTogether
<1>9. ~(Len(copy[d]) + Len(f) > BufferSize)
  <2>1. /\ a \in Ends["server"] \cup {0} /\ e \in Ends["server"]
        /\ a < e /\ e < a + BufferSize
    BY <1>1, <1>2, <1>3 DEF CleanInv, ChunkInv
  <2>2. a \in Ends["server"] /\ b + 1 \in Cuts("server", a)
    BY <1>2, <1>5, <2>1
  <2>3. e - (b + 1) < BufferSize
    BY <2>1, <2>2 DEF CleanChunks
  <2>4. BufferSize \in Nat
    BY ProcessorAssumption
  <2>5. Len(r) \in Nat
    BY LenProperties
  <2> QED
    BY <1>2, <1>3, <1>7, <2>3, <2>4, <2>5
<1>10. copy' = [copy EXCEPT ![d] = f \o r]
  <2>1. \A chunk \in MovedUp(copy[d], Len(f)) : chunk = copy[d]
    BY DEF MovedUp, CleanChunks
  <2> QED
    BY <1>2, <1>3, <1>6, <1>7, <1>9, <2>1 DEF PopFragment
<1>11. /\ pc'[d] = "loop" /\ copy'[d] = f \o r /\ cursor'[d] = 0
       /\ called'[d] = cs /\ arrived'[d] = e
  BY <1>1, <1>2, <1>3, <1>10 DEF TypeInv, TypeOK
<1>12. First(d)' = a
  BY <1>1, <1>3 DEF First
<1>13. ChunkInv(d)'
  BY <1>1, <1>3, <1>11, <1>12 DEF CleanInv, ChunkInv
<1>14. Looping(d, b, f \o r, 0, << >>, cs, a, e)
  <2>1. b + 1 \in Starts(d) /\ b + 1 - 1 = b
    BY <1>5 DEF Cuts
  <2>2. Cuts(d, b) = {}
    BY <2>1, PacketEnds
  <2>3. Len(f) \in Nat /\ Len(r) \in Nat
    BY LenProperties
  <2>4. b + Len(f \o r) = e /\ 0 <= Len(f \o r) /\ b + 0 = b /\ b <= a
    BY <1>3, <1>5, <1>7, <1>8, <2>3
  <2> QED
    BY <1>5, <1>8, <2>2, <2>4 DEF Looping
<1>15. PlaceInv(d)'
  <2>1. Looping(d, b, copy'[d], cursor'[d], packetQueue', called'[d], First(d)', arrived'[d])
    BY <1>6, <1>11, <1>12, <1>14
  <2> QED
    BY <1>11, <2>1 DEF PlaceInv
<1>16. \A x \in Sides \ {d} : Same(x)
  BY <1>1, <1>10 DEF Same, TypeInv, TypeOK
<1> QED
  BY <1>2, <1>6, <1>13, <1>15, <1>16, OthersClean

-----------------------------------------------------------------------------
(* The processing of the packet at the cursor.                             *)

\* In the loop, at cell s, where a packet starts; the copy begins with cell b + 1.
AtPacket(d, b, s) ==
  /\ s = b + cursor[d] + 1
  /\ AtStart(d) /\ Start(d) = s
  /\ s + Left(d) = arrived[d] + 1
  /\ \A i \in 1 .. Left(d) : Rest(d)[i] = Cell(d, s + i - 1)
  /\ d = "server" => packetQueue = << >>
  /\ CalledUpTo(d, called[d], s - 1)
  /\ FreshChunk(d, copy[d], b) /\ b + Len(copy[d]) = arrived[d]
  /\ b <= First(d) /\ (b = First(d) \/ b + 1 \in Cuts(d, First(d)))

LEMMA LoopIsAtPacket ==
  ASSUME TypeInv, CleanInv, NEW d \in Sides, InLoop(d)
  PROVE  \E b \in Nat, s \in Starts(d) : AtPacket(d, b, s)
<1>1. PICK k \in Nat, e \in Nat, a \in Nat, l \in Nat :
        k = cursor[d] /\ e = arrived[d] /\ a = First(d) /\ l = Len(copy[d])
  BY HeldTypes, FirstIsNat
<1>2. pc[d] = "loop" /\ k < l
  BY <1>1 DEF InLoop
<1>3. PICK b \in Nat : Looping(d, b, copy[d], k, packetQueue, called[d], a, e)
  BY <1>1, <1>2 DEF CleanInv, PlaceInv
<1>4. /\ FreshChunk(d, copy[d], b) /\ b + l = e
      /\ b <= a /\ (b = a \/ b + 1 \in Cuts(d, a))
      /\ d = "server" => packetQueue = << >>
      /\ Cuts(d, b + k) = {} /\ CalledUpTo(d, called[d], b + k)
  BY <1>1, <1>2, <1>3 DEF Looping
<1>5. b + k < Length[d]
  <2>1. e \in Ends[d]
    BY <1>1, <1>2 DEF CleanInv, ChunkInv
  <2>2. e <= Length[d] /\ Length[d] \in Nat
    BY <2>1, ProcessorAssumption
  <2> QED
    BY <1>2, <1>4, <2>2
<1>6. PICK s \in Starts(d) : s = b + k + 1
  <2>1. b + k \in Nat
    OBVIOUS
  <2> QED
    BY <1>4, <1>5, <2>1, NextPacket
<1>7. PICK r \in Seq(Cells) : r = Rest(d)
  BY RestOfChunk DEF TypeInv
<1>8. /\ Left(d) = l - k /\ Head(r) = copy[d][k + 1]
      /\ \A i \in 1 .. l - k : r[i] = copy[d][k + i] /\ k + i \in 1 .. l
  BY <1>1, <1>7, RestOfChunk DEF TypeInv
<1>9. \A i \in 1 .. l - k : r[i] = Cell(d, s + i - 1)
  <2> SUFFICES ASSUME NEW i \in 1 .. l - k PROVE r[i] = Cell(d, s + i - 1)
    OBVIOUS
  <2>1. b + (k + i) = s + i - 1
    BY <1>6
  <2>2. copy[d][k + i] = Cell(d, b + (k + i))
    BY <1>1, <1>4, <1>8 DEF FreshChunk
  <2> QED
    BY <1>8, <2>1, <2>2
<1>10. Head(r) = Cell(d, s)
  <2>1. 1 \in 1 .. l /\ k + 1 \in 1 .. l /\ b + (k + 1) = s
    BY <1>2, <1>6
  <2>2. copy[d][k + 1] = Cell(d, b + (k + 1))
    BY <1>1, <1>4, <2>1 DEF FreshChunk
  <2> QED
    BY <1>8, <2>1, <2>2
<1>11. AtStart(d) /\ Start(d) = s
  BY <1>6, <1>7, <1>10, CellFields DEF AtStart, Start
<1>12. s + Left(d) = e + 1 /\ s - 1 = b + k
  BY <1>4, <1>6, <1>8
<1>13. AtPacket(d, b, s)
  <2>1. s = b + cursor[d] + 1 /\ s + Left(d) = arrived[d] + 1
    BY <1>1, <1>6, <1>12
  <2>2. \A i \in 1 .. Left(d) : Rest(d)[i] = Cell(d, s + i - 1)
    BY <1>7, <1>8, <1>9
  <2>3. CalledUpTo(d, called[d], s - 1)
    BY <1>4, <1>12
  <2>4. /\ b + Len(copy[d]) = arrived[d]
        /\ b <= First(d) /\ (b = First(d) \/ b + 1 \in Cuts(d, First(d)))
    BY <1>1, <1>4
  <2> QED
    BY <1>4, <1>11, <2>1, <2>2, <2>3, <2>4 DEF AtPacket
<1> QED
  BY <1>6, <1>13

\* A packet that the chunk does not hold completely is cut by it.
LEMMA CutAtPacket ==
  ASSUME CleanChunks, TypeInv, CleanInv, NEW d \in Sides, InLoop(d),
         NEW b \in Nat, NEW s \in Starts(d), AtPacket(d, b, s)
  PROVE  /\ Left(d) < SizeOf(d, s) =>
              /\ s \in Cuts(d, arrived[d]) /\ d = "server" /\ Ends["client"] = {}
              /\ Packets[d][s].kind # "compressed"
         /\ Packets[d][s].kind = "variable" => Left(d) # 1
         /\ Left(d) \in Nat \ {0} /\ SizeOf(d, s) \in Nat \ {0}
         /\ LastCell(d, s) = s - 1 + SizeOf(d, s)
<1>1. PICK e \in Nat, n \in Nat : e = arrived[d] /\ n = Left(d) /\ n >= 1
  <2>1. Left(d) \in Nat \ {0}
    BY RestOfChunk DEF TypeInv
  <2>2. arrived[d] \in Nat
    BY HeldTypes
  <2> QED
    BY <2>1, <2>2
<1>2. PICK z \in Nat : z = SizeOf(d, s) /\ z >= 1
  BY PacketTypes
<1>3. LastCell(d, s) = s - 1 + z /\ s \in Nat
  BY <1>2, PacketEnds, PacketTypes
<1>4. s + n = e + 1 /\ e \in Ends[d]
  <2>1. s + Left(d) = arrived[d] + 1
    BY DEF AtPacket
  <2>2. arrived[d] \in Ends[d]
    BY DEF CleanInv, ChunkInv, InLoop
  <2> QED
    BY <1>1, <2>1, <2>2
<1>5. n < z => s \in Cuts(d, e)
  BY <1>1, <1>3, <1>4 DEF Cuts
<1>6. Cuts(d, e) # {} => d = "server"
  BY <1>4 DEF CleanChunks, Sides
<1>7. s \in Cuts(d, e) =>
        /\ Packets[d][s].kind # "compressed" /\ Ends["client"] = {}
        /\ Packets[d][s].kind = "variable" => s < e
  BY <1>4, <1>6 DEF CleanChunks
<1>8. Packets[d][s].kind = "variable" => n # 1
  <2> SUFFICES ASSUME Packets[d][s].kind = "variable", n = 1 PROVE FALSE
    OBVIOUS
  <2>1. z >= 2
    BY <1>2, PacketTypes
  <2> QED
    BY <1>3, <1>4, <1>5, <1>7, <2>1
<1> QED
  BY <1>1, <1>2, <1>3, <1>5, <1>6, <1>7, <1>8

\* The header is the one of the packet.
LEMMA RightHeader ==
  ASSUME CleanChunks, TypeInv, CleanInv, NEW d \in Sides, InLoop(d),
         NEW b \in Nat, NEW s \in Starts(d), AtPacket(d, b, s),
         NEW h \in Headers(d)
  PROVE  h.kind = Packets[d][s].kind /\ h.size = SizeOf(d, s)
<1>1. AtStart(d) /\ Start(d) = s
  BY DEF AtPacket
<1>2. ~(Packets[d][s].kind = "variable" /\ Left(d) = 1)
  BY CutAtPacket
<1> QED
  BY <1>1, <1>2 DEF Headers

\* It is whole if the chunk holds it.
LEMMA WholeAtPacket ==
  ASSUME TypeInv, NEW d \in Sides, InLoop(d),
         NEW b \in Nat, NEW s \in Starts(d), AtPacket(d, b, s),
         SizeOf(d, s) <= Left(d)
  PROVE  IsWhole(d, SizeOf(d, s))
<1>1. AtStart(d) /\ Start(d) = s
  BY DEF AtPacket
<1>2. SizeOf(d, s) \in Nat /\ Left(d) \in Nat
  BY PacketTypes, RestOfChunk DEF TypeInv
<1>3. \A i \in 1 .. SizeOf(d, s) : Rest(d)[i] = Cell(d, s + i - 1)
  BY <1>2 DEF AtPacket
<1> QED
  BY <1>1, <1>3, CellFields DEF IsWhole

\* The plugin is called with the packet that starts with cell s, whole.
PassesWhole(d, s) ==
  /\ SizeOf(d, s) <= Left(d)
  /\ \E ns \in Seq(CallRecords) :
       /\ Len(ns) = Packets[d][s].calls
       /\ \A i \in 1 .. Len(ns) : ns[i] = Call(s, i)
       /\ Calling(d, ns)
  /\ packetQueue' = packetQueue
  /\ \/ raw' = raw /\ (Changes(d) => Packets[d][s].kind = "compressed")
     \/ d = "client" /\ Changes(d)
     \/ /\ d = "server" /\ Changes(d)
        /\ raw' = [raw EXCEPT ![d] =
                     Overwrite(raw[d], cursor[d], Changed(FrontOfRest(d, SizeOf(d, s))))]

\* The packet is cut, and what there is of it is kept.
KeepsRest(d, s) ==
  /\ d = "server" /\ Left(d) < SizeOf(d, s) /\ s \in Cuts(d, arrived[d])
  /\ Ends["client"] = {}
  /\ packetQueue' = <<Rest(d)>>
  /\ UNCHANGED <<raw, called>>

PacketStep(d, s) ==
  /\ Advance(d, SizeOf(d, s))
  /\ UNCHANGED <<arrived, copy, pc, sent>>
  /\ PassesWhole(d, s) \/ KeepsRest(d, s)

LEMMA OneCall ==
  ASSUME TypeInv, NEW d \in Sides, InLoop(d), NEW b \in Nat, NEW s \in Starts(d),
         AtPacket(d, b, s), SizeOf(d, s) <= Left(d), Packets[d][s].kind # "compressed",
         Calling(d, <<CallWith(d, SizeOf(d, s))>>)
  PROVE  \E ns \in Seq(CallRecords) :
           /\ Len(ns) = Packets[d][s].calls
           /\ \A i \in 1 .. Len(ns) : ns[i] = Call(s, i)
           /\ Calling(d, ns)
<1>1. Packets[d][s].calls = 1
  BY ProcessorAssumption
<1>2. CallWith(d, SizeOf(d, s)) = Call(s, 1)
  BY WholeAtPacket DEF CallWith, AtPacket
<1>3. Call(s, 1) \in CallRecords
  BY PacketTypes DEF Call, CallRecords
<1>4. PICK c \in CallRecords : c = Call(s, 1)
  BY <1>3
<1>5. <<c>> \in Seq(CallRecords) /\ Len(<<c>>) = 1 /\ <<c>>[1] = Call(s, 1)
  BY <1>4
<1>6. Calling(d, <<c>>)
  BY <1>2, <1>4
<1>7. \A i \in 1 .. Len(<<c>>) : <<c>>[i] = Call(s, i)
  <2>1. \A i \in 1 .. 1 : i = 1
    OBVIOUS
  <2> QED
    BY <1>5, <2>1
<1> QED
  BY <1>1, <1>5, <1>6, <1>7

LEMMA CleanPacketStep ==
  ASSUME CleanChunks, TypeInv, CleanInv, NEW d \in Sides, ProcessPacket(d)
  PROVE  \E b \in Nat, s \in Starts(d) : AtPacket(d, b, s) /\ PacketStep(d, s)
<1>0. InLoop(d)
  BY DEF ProcessPacket, ServerPacket
<1>1. PICK b \in Nat, s \in Starts(d) : AtPacket(d, b, s)
  BY <1>0, LoopIsAtPacket
<1>2. /\ Left(d) \in Nat \ {0} /\ SizeOf(d, s) \in Nat \ {0}
      /\ Left(d) < SizeOf(d, s) =>
           /\ s \in Cuts(d, arrived[d]) /\ d = "server" /\ Ends["client"] = {}
           /\ Packets[d][s].kind # "compressed"
  BY <1>0, <1>1, CutAtPacket
<1>3. \A h \in Headers(d) : h.kind = Packets[d][s].kind /\ h.size = SizeOf(d, s)
  BY <1>0, <1>1, RightHeader
<1>4. AtStart(d) /\ Start(d) = s /\ (d = "server" => packetQueue = << >>)
  BY <1>1 DEF AtPacket
<1>5. Packets[d][s].kind \in Kinds
  BY PacketTypes
<1> SUFFICES PacketStep(d, s)
  BY <1>1
<1>6. CASE d = "server" /\ CutPacket(d)
  <2>1. /\ Left(d) < SizeOf(d, s) /\ Keep(Append(packetQueue, Rest(d)))
        /\ Advance(d, SizeOf(d, s))
        /\ UNCHANGED <<arrived, raw, copy, pc, called, sent>>
    BY <1>3, <1>6 DEF CutPacket
  <2>2. packetQueue' = Append(<< >>, Rest(d))
    BY <1>4, <1>6, <2>1 DEF Keep
  <2>3. Append(<< >>, Rest(d)) = <<Rest(d)>>
    OBVIOUS
  <2>4. KeepsRest(d, s)
    BY <1>2, <1>6, <2>1, <2>2, <2>3 DEF KeepsRest
  <2> QED
    BY <2>1, <2>4 DEF PacketStep
<1>7. CASE d = "server" /\ WholePacket(d)
  <2>1. /\ Packets[d][s].kind \in {"fixed", "variable"}
        /\ SizeOf(d, s) <= Left(d)
        /\ Calling(d, <<CallWith(d, SizeOf(d, s))>>)
        /\ raw' = IF Changes(d)
                    THEN [raw EXCEPT ![d] =
                            Overwrite(@, cursor[d], Changed(FrontOfRest(d, SizeOf(d, s))))]
                    ELSE raw
        /\ Advance(d, SizeOf(d, s))
        /\ UNCHANGED <<arrived, copy, pc, packetQueue, sent, mishaps>>
    <3>1. PICK h \in Headers(d) :
            /\ h.kind \in {"fixed", "variable"}
            /\ h.size \in 1 .. Left(d)
            /\ Calling(d, <<CallWith(d, h.size)>>)
            /\ raw' = IF Changes(d)
                        THEN [raw EXCEPT ![d] =
                                Overwrite(@, cursor[d], Changed(FrontOfRest(d, h.size)))]
                        ELSE raw
            /\ Advance(d, h.size)
            /\ UNCHANGED <<arrived, copy, pc, packetQueue, sent, mishaps>>
      BY <1>7 DEF WholePacket
    <3>2. h.kind = Packets[d][s].kind /\ h.size = SizeOf(d, s)
      BY <1>3
    <3>3. SizeOf(d, s) <= Left(d)
      BY <1>2, <3>1, <3>2
    <3> QED
      BY <3>1, <3>2, <3>3, Zenon
  <2>2. \E ns \in Seq(CallRecords) :
           /\ Len(ns) = Packets[d][s].calls
           /\ \A i \in 1 .. Len(ns) : ns[i] = Call(s, i)
           /\ Calling(d, ns)
    <3>1. Packets[d][s].kind # "compressed"
      BY <2>1
    <3> QED
      BY <1>0, <1>1, <2>1, <3>1, OneCall
  <2>3. PassesWhole(d, s)
    BY <1>7, <2>1, <2>2 DEF PassesWhole
  <2> QED
    BY <2>1, <2>3 DEF PacketStep
<1>8. CASE d = "server" /\ EmptyPacket(d)
  BY <1>2, <1>3, <1>8 DEF EmptyPacket
<1>9. CASE d = "server" /\ CompressedPacket(d)
  <2>1. /\ Packets[d][s].kind = "compressed" /\ Calling(d, InnerCalls(d))
        /\ Advance(d, SizeOf(d, s)) /\ SizeOf(d, s) <= Left(d)
        /\ UNCHANGED <<arrived, raw, copy, pc, packetQueue, sent, mishaps>>
    BY <1>3, <1>9 DEF CompressedPacket, IsWhole
  <2>2. /\ InnerCalls(d) \in Seq(CallRecords) /\ Len(InnerCalls(d)) = Packets[d][s].calls
        /\ Packets[d][s].calls \in Nat
    BY <1>4, InnerCallTypes
  <2>3. \A i \in 1 .. Len(InnerCalls(d)) : InnerCalls(d)[i] = Call(s, i)
    BY <1>4, <2>2 DEF InnerCalls
  <2>4. PassesWhole(d, s)
    BY <2>1, <2>2, <2>3 DEF PassesWhole
  <2> QED
    BY <2>1, <2>4 DEF PacketStep
<1>10. CASE d = "server" /\ GarbledPacket(d)
  <2>1. PICK h \in Headers(d) : /\ h.kind = "compressed"
                                /\ ~IsWhole(d, h.size) \/ packetQueue # << >>
    BY <1>10 DEF GarbledPacket
  <2>2. Packets[d][s].kind = "compressed" /\ ~IsWhole(d, SizeOf(d, s))
    BY <1>3, <1>4, <1>10, <2>1
  <2>3. SizeOf(d, s) <= Left(d)
    BY <1>2, <2>2
  <2> QED
    BY <1>0, <1>1, <2>2, <2>3, WholeAtPacket
<1>11. CASE d = "server" /\ UnknownPacket(d)
  BY <1>3, <1>5, <1>11 DEF UnknownPacket, Kinds
<1>12. CASE d = "client" /\ ClientPacket(d)
  <2>1. SizeOf(d, s) <= Left(d) /\ Packets[d][s].kind # "compressed"
    <3>1. Packets[d][s].kind = "crypted"
      BY <1>12, PacketTypes
    <3> QED
      BY <1>2, <1>12, <3>1
  <2>2. \A n \in PlainSizes(d) : n = SizeOf(d, s) - 1 /\ n + 1 = SizeOf(d, s)
    BY <1>2, <1>4 DEF PlainSizes
  <2>3. /\ Calling(d, <<CallWith(d, SizeOf(d, s))>>) /\ Advance(d, SizeOf(d, s))
        /\ Changes(d) \/ raw' = raw
        /\ UNCHANGED <<arrived, copy, pc, packetQueue, sent, mishaps>>
    BY <1>12, <2>2 DEF ClientPacket
  <2>4. \E ns \in Seq(CallRecords) :
           /\ Len(ns) = Packets[d][s].calls
           /\ \A i \in 1 .. Len(ns) : ns[i] = Call(s, i)
           /\ Calling(d, ns)
    BY <1>0, <1>1, <2>1, <2>3, OneCall
  <2>5. PassesWhole(d, s)
    BY <1>12, <2>1, <2>3, <2>4 DEF PassesWhole
  <2> QED
    BY <2>3, <2>5 DEF PacketStep
<1>13. CASE CallbackFails(d)
  BY <1>13 DEF CallbackFails, CleanChunks
<1> QED
  BY <1>6, <1>7, <1>8, <1>9, <1>10, <1>11, <1>12, <1>13 DEF ProcessPacket, ServerPacket

LEMMA ProcessClean ==
  ASSUME CleanChunks, TypeInv, CleanInv, NEW d \in Sides, ProcessPacket(d)
  PROVE  CleanInv'
<1>0. InLoop(d) /\ pc[d] = "loop"
  BY DEF ProcessPacket, ServerPacket, InLoop
<1>1. PICK b \in Nat, s \in Starts(d) : AtPacket(d, b, s) /\ PacketStep(d, s)
  BY CleanPacketStep
<1>2. PICK k \in Nat, e \in Nat, a \in Nat, c \in Seq(Cells), cs \in Seq(CallRecords),
           z \in Nat, n \in Nat :
        /\ k = cursor[d] /\ e = arrived[d] /\ a = First(d) /\ c = copy[d]
        /\ cs = called[d] /\ z = SizeOf(d, s) /\ n = Left(d)
  <2>1. SizeOf(d, s) \in Nat /\ Left(d) \in Nat
    BY <1>0, <1>1, CutAtPacket
  <2> QED
    BY <2>1, HeldTypes, FirstIsNat
<1>3. /\ s = b + k + 1 /\ s + n = e + 1 /\ b + Len(c) = e /\ FreshChunk(d, c, b)
      /\ b <= a /\ (b = a \/ b + 1 \in Cuts(d, a))
      /\ CalledUpTo(d, cs, s - 1) /\ (d = "server" => packetQueue = << >>)
  BY <1>1, <1>2 DEF AtPacket
<1>4. Len(c) \in Nat /\ k < Len(c) /\ z >= 1 /\ LastCell(d, s) = s - 1 + z /\ s \in Nat
  <2>1. Len(c) \in Nat /\ k < Len(c)
    BY <1>0, <1>2, LenProperties DEF InLoop
  <2>2. z >= 1 /\ LastCell(d, s) = s - 1 + z /\ s \in Nat
    BY <1>2, PacketTypes, PacketEnds
  <2> QED
    BY <2>1, <2>2
<1>5. /\ cursor' = [cursor EXCEPT ![d] = k + z]
      /\ UNCHANGED <<arrived, copy, pc, sent>>
      /\ PassesWhole(d, s) \/ KeepsRest(d, s)
  BY <1>1, <1>2 DEF PacketStep, Advance
<1>6. /\ cursor'[d] = k + z /\ copy'[d] = c /\ arrived'[d] = e /\ pc'[d] = "loop"
      /\ \A x \in Sides \ {d} : cursor'[x] = cursor[x]
  BY <1>0, <1>2, <1>5 DEF TypeInv, TypeOK
<1>7. RawStep(d)
  BY ProcessPacketPasses DEF Passing
<1>8. First(d)' = a
  BY <1>2, <1>5, <1>7 DEF First, RawStep
<1>9. ChunkInv(d)'
  BY <1>0, <1>2, <1>6, <1>8 DEF CleanInv, ChunkInv
<1>10. ASSUME \E v \in Nat : Looping(d, v, c, k + z, packetQueue', called'[d], a, e)
       PROVE  PlaceInv(d)'
  BY <1>6, <1>8, <1>10 DEF PlaceInv
<1>11. CASE PassesWhole(d, s)
  <2>1. PICK ns \in Seq(CallRecords) :
          /\ Len(ns) = Packets[d][s].calls
          /\ \A i \in 1 .. Len(ns) : ns[i] = Call(s, i)
          /\ called' = [called EXCEPT ![d] = cs \o ns]
    BY <1>2, <1>11 DEF PassesWhole, Calling
  <2>2. z <= n /\ packetQueue' = packetQueue
    BY <1>2, <1>11 DEF PassesWhole
  <2>3. called'[d] = cs \o ns /\ \A x \in Sides \ {d} : called'[x] = called[x]
    BY <2>1 DEF TypeInv, TypeOK
  <2>4. PICK v \in Nat : v = s - 1 /\ v + 1 = s
    BY <1>4, <1>3
  <2>5. CalledUpTo(d, cs \o ns, LastCell(d, s))
    <3>1. CalledUpTo(d, cs, v) /\ v + 1 \in Starts(d)
      BY <1>3, <2>4
    <3>2. /\ Len(ns) = Packets[d][v + 1].calls
          /\ \A i \in 1 .. Len(ns) : ns[i] = Call(v + 1, i)
      BY <2>1, <2>4
    <3> QED
      BY <2>4, <3>1, <3>2, CalledOn
  <2>6. b + (k + z) = LastCell(d, s) /\ k + z <= Len(c) /\ k + z \in Nat
    BY <1>3, <1>4, <2>2
  <2>7. Cuts(d, b + (k + z)) = {}
    BY <2>6, PacketEnds
  <2>8. Looping(d, b, c, k + z, packetQueue', called'[d], a, e)
    BY <1>3, <2>2, <2>3, <2>5, <2>6, <2>7 DEF Looping
  <2>9. \A x \in Sides \ {d} : Same(x)
    BY <1>5, <1>6, <1>7, <2>3 DEF Same, RawStep
  <2> QED
    BY <1>9, <1>10, <2>2, <2>8, <2>9, OthersClean
<1>12. CASE KeepsRest(d, s)
  <2>1. /\ d = "server" /\ n < z /\ s \in Cuts(d, e) /\ Ends["client"] = {}
        /\ packetQueue' = <<Rest(d)>> /\ UNCHANGED <<raw, called>>
    BY <1>2, <1>12 DEF KeepsRest
  <2>2. PICK r \in Seq(Cells) : r = Rest(d) /\ Len(r) = n
    BY <1>0, <1>2, RestOfChunk DEF TypeInv
  <2>3. PICK v \in Nat : v = s - 1 /\ v + 1 = s
    BY <1>4, <1>3
  <2>4. FreshChunk(d, r, v)
    <3>1. \A i \in 1 .. n : r[i] = Cell(d, s + i - 1)
      BY <1>1, <1>2, <2>2 DEF AtPacket
    <3>2. \A i \in 1 .. n : s + i - 1 = v + i
      BY <2>3
    <3> QED
      BY <2>2, <3>1, <3>2 DEF FreshChunk
  <2>5. v < e /\ n = e - v
    <3>1. n >= 1
      BY <1>0, <1>1, <1>2, CutAtPacket
    <3> QED
      BY <1>3, <2>3, <3>1
  <2>6. UpTo(d, v, e, <<r>>, cs)
    <3>1. Len(<<r>>) = 1 /\ <<r>>[1] = r
      OBVIOUS
    <3>2. CalledUpTo(d, cs, v) /\ v + 1 \in Cuts(d, e)
      BY <1>3, <2>1, <2>3
    <3> QED
      BY <2>1, <2>2, <2>4, <2>5, <3>1, <3>2 DEF UpTo
  <2>7. k + z >= Len(c)
    BY <1>3, <1>4, <2>1
  <2>8. Looping(d, b, c, k + z, <<r>>, cs, a, e)
    BY <1>3, <2>6, <2>7 DEF Looping
  <2>9. Looping(d, b, c, k + z, packetQueue', called'[d], a, e)
    BY <1>2, <2>1, <2>2, <2>8
  <2>10. \A x \in Sides \ {d} : Same(x)
    BY <1>5, <1>6, <2>1 DEF Same
  <2> QED
    BY <1>9, <1>10, <2>1, <2>9, <2>10, OthersClean
<1> QED
  BY <1>5, <1>11, <1>12

LEMMA EndClean ==
  ASSUME TypeInv, CleanInv, NEW d \in Sides, EndOfChunk(d)
  PROVE  CleanInv'
<1>1. /\ pc[d] = "loop" /\ cursor[d] >= Len(copy[d])
      /\ pc' = [pc EXCEPT ![d] = "forward"]
      /\ UNCHANGED <<arrived, raw, copy, cursor, packetQueue, called, sent, mishaps>>
  BY DEF EndOfChunk, Goto
<1>2. PICK k \in Nat, e \in Nat, a \in Nat, l \in Nat :
        k = cursor[d] /\ e = arrived[d] /\ a = First(d) /\ l = Len(copy[d])
  BY HeldTypes, FirstIsNat
<1>3. PICK b \in Nat : Looping(d, b, copy[d], k, packetQueue, called[d], a, e)
  BY <1>1, <1>2 DEF CleanInv, PlaceInv
<1>4. \E u \in Nat : UpTo(d, u, e, packetQueue, called[d])
  <2>1. CASE /\ k <= l /\ (d = "server" => packetQueue = << >>)
             /\ Cuts(d, b + k) = {} /\ CalledUpTo(d, called[d], b + k)
    <3>1. b + k = e
      <4>1. b + l = e
        BY <1>2, <1>3 DEF Looping
      <4> QED
        BY <1>1, <1>2, <2>1, <4>1
    <3> QED
      BY <2>1, <3>1 DEF UpTo
  <2> QED
    BY <1>2, <1>3, <2>1 DEF Looping
<1>5. pc'[d] = "forward" /\ First(d)' = a
  BY <1>1, <1>2 DEF First, TypeInv, TypeOK
<1>6. ChunkInv(d)'
  BY <1>1, <1>2, <1>5 DEF CleanInv, ChunkInv
<1>7. PlaceInv(d)'
  BY <1>1, <1>2, <1>4, <1>5 DEF PlaceInv
<1>8. \A x \in Sides \ {d} : Same(x)
  BY <1>1 DEF Same, TypeInv, TypeOK
<1> QED
  BY <1>1, <1>6, <1>7, <1>8, OthersClean

LEMMA ForwardClean ==
  ASSUME TypeInv, CleanInv, NEW d \in Sides, Forward(d)
  PROVE  CleanInv'
<1>1. /\ pc[d] = "forward" /\ raw' = [raw EXCEPT ![d] = << >>]
      /\ copy' = [copy EXCEPT ![d] = << >>] /\ cursor' = [cursor EXCEPT ![d] = 0]
      /\ pc' = [pc EXCEPT ![d] = "recv"]
      /\ UNCHANGED <<arrived, packetQueue, called, mishaps>>
  BY DEF Forward, Goto
<1>2. pc'[d] = "recv" /\ raw'[d] = << >> /\ Len(<< >>) = 0
  BY <1>1 DEF TypeInv, TypeOK
<1>3. PICK e \in Nat : e = arrived[d] /\ e = arrived'[d] /\ e \in Ends[d]
  BY <1>1, HeldTypes DEF CleanInv, ChunkInv
<1>4. First(d)' = e
  <2>1. Len(raw'[d]) = 0
    BY <1>2, Zenon
  <2> QED
    BY <1>3, <2>1 DEF First
<1>5. ChunkInv(d)'
  BY <1>2, <1>3, <1>4 DEF ChunkInv
<1>6. PICK b \in Nat : UpTo(d, b, e, packetQueue, called[d])
  BY <1>1, <1>3 DEF CleanInv, PlaceInv
<1>7. UpTo(d, b, First(d)', packetQueue', called'[d])
  BY <1>1, <1>4, <1>6
<1>8. PlaceInv(d)'
  BY <1>2, <1>7 DEF PlaceInv
<1>9. \A x \in Sides \ {d} : Same(x)
  BY <1>1 DEF Same, TypeInv, TypeOK
<1> QED
  BY <1>1, <1>5, <1>8, <1>9, OthersClean

LEMMA NextClean ==
  ASSUME CleanChunks, TypeInv, CleanInv, [Next]_processorVars
  PROVE  CleanInv'
<1>1. CASE UNCHANGED processorVars
  <2>1. \A d \in Sides : First(d)' = First(d)
    BY <1>1 DEF First, processorVars
  <2>2. \A d \in Sides : ChunkInv(d)' /\ PlaceInv(d)'
    BY <1>1, <2>1 DEF CleanInv, ChunkInv, PlaceInv, processorVars
  <2> QED
    BY <1>1, <2>2 DEF CleanInv, processorVars
<1>2. ASSUME NEW d \in Sides, Recv(d) PROVE CleanInv'
  BY <1>2, RecvClean
<1>3. ASSUME NEW d \in Sides, Process(d) PROVE CleanInv'
  <2>1. CASE CopyPacket(d)
    BY <2>1, CopyClean
  <2>2. CASE PopFragment(d)
    BY <2>2, PopClean
  <2>3. CASE PopNothing(d)
    BY <2>3 DEF PopNothing, CleanInv, PlaceInv
  <2>4. CASE ProcessPacket(d)
    BY <2>4, ProcessClean
  <2>5. CASE EndOfChunk(d)
    BY <2>5, EndClean
  <2>6. CASE Forward(d)
    BY <2>6, ForwardClean
  <2> QED
    BY <1>3, <2>1, <2>2, <2>3, <2>4, <2>5, <2>6 DEF Process
<1> QED
  BY <1>1, <1>2, <1>3 DEF Next

-----------------------------------------------------------------------------
(* What follows.                                                           *)

\* Wherever the listener is, the plugin was called with whole packets.
LEMMA CalledSoFar ==
  ASSUME TypeInv, CleanInv, NEW d \in Sides
  PROVE  \E b \in Nat : b <= arrived[d] /\ CalledUpTo(d, called[d], b)
<1>1. PICK k \in Nat, e \in Nat, a \in Nat, l \in Nat :
        k = cursor[d] /\ e = arrived[d] /\ a = First(d) /\ l = Len(copy[d]) /\ a <= e
  <2>1. First(d) <= arrived[d]
    BY HeldTypes
  <2> QED
    BY <2>1, HeldTypes, FirstIsNat
<1>2. CASE pc[d] \in {"recv", "start", "pop", "forward"}
  <2>1. PICK v \in {a, e}, b \in Nat : UpTo(d, b, v, packetQueue, called[d])
    BY <1>1, <1>2 DEF CleanInv, PlaceInv
  <2> QED
    BY <1>1, <2>1 DEF UpTo
<1>3. CASE pc[d] = "loop"
  <2>1. PICK b \in Nat : Looping(d, b, copy[d], k, packetQueue, called[d], a, e)
    BY <1>1, <1>3 DEF CleanInv, PlaceInv
  <2>2. b + l = e
    BY <1>1, <2>1 DEF Looping
  <2>3. CASE k <= l /\ CalledUpTo(d, called[d], b + k)
    BY <1>1, <2>2, <2>3
  <2>4. CASE \E u \in Nat : UpTo(d, u, e, packetQueue, called[d])
    BY <1>1, <2>4 DEF UpTo
  <2> QED
    BY <1>1, <2>1, <2>3, <2>4 DEF Looping
<1> QED
  BY <1>2, <1>3 DEF CleanInv, PlaceInv

LEMMA CleanComesOutWhole == TypeInv /\ CleanInv => PacketsComeOutWhole
<1> SUFFICES ASSUME TypeInv, CleanInv, NEW d \in Sides
             PROVE  /\ Garbage \notin {called[d][i] : i \in DOMAIN called[d]}
                    /\ \A i, j \in DOMAIN called[d] :
                         i < j => Before(called[d][i], called[d][j])
  BY DEF PacketsComeOutWhole
<1>1. DOMAIN called[d] = 1 .. Len(called[d])
  BY HeldTypes
<1>2. PICK b \in Nat : CalledUpTo(d, called[d], b)
  BY CalledSoFar
<1>3. \A i \in 1 .. Len(called[d]) : called[d][i] # Garbage
  BY <1>2, CallsOfPackets DEF CalledUpTo
<1> QED
  BY <1>1, <1>2, <1>3 DEF CalledUpTo

LEMMA CleanHoldsNothingBack == TypeInv /\ CleanInv => NothingIsHeldBack
<1> SUFFICES ASSUME TypeInv, CleanInv, NEW d \in Sides, pc[d] = "recv",
                    NEW c \in Calls(d), LastCell(d, c.start) <= arrived[d]
             PROVE  c \in {called[d][i] : i \in DOMAIN called[d]}
  BY DEF NothingIsHeldBack
<1>1. DOMAIN called[d] = 1 .. Len(called[d])
  BY HeldTypes
<1>2. PICK a \in Nat : a = First(d) /\ a = arrived[d]
  <2>1. raw[d] = << >> /\ Len(<< >>) = 0
    BY DEF CleanInv, ChunkInv
  <2>2. Len(raw[d]) = 0
    BY <2>1, Zenon
  <2> QED
    BY <2>2, HeldTypes, FirstIsNat
<1>3. PICK b \in Nat : UpTo(d, b, a, packetQueue, called[d])
  <2>1. PICK b \in Nat : UpTo(d, b, First(d), packetQueue, called[d])
    BY DEF CleanInv, PlaceInv
  <2> QED
    BY <1>2, <2>1
<1>4. PICK t \in Starts(d) : t = c.start /\ LastCell(d, t) \in Nat /\ LastCell(d, t) <= a
  <2>1. c.start \in Starts(d)
    BY CallsOfPackets
  <2>2. LastCell(d, c.start) \in Nat
    BY <2>1, PacketTypes
  <2> QED
    BY <1>2, <2>1, <2>2
<1>5. LastCell(d, t) <= b
  <2>1. CASE b = a
    BY <1>4, <2>1
  <2>2. CASE b + 1 \in Cuts(d, a)
    <3>1. PICK s \in Starts(d) : s = b + 1 /\ a < LastCell(d, s) /\ LastCell(d, s) \in Nat
      <4>1. b + 1 \in Starts(d) /\ a < LastCell(d, b + 1)
        BY <2>2 DEF Cuts
      <4>2. LastCell(d, b + 1) \in Nat
        BY <4>1, PacketTypes
      <4> QED
        BY <4>1, <4>2
    <3>2. s # t
      BY <1>4, <3>1
    <3>3. LastCell(d, t) <= s - 1 \/ LastCell(d, t) > LastCell(d, s)
      BY <3>2, BeforeOrBehind
    <3> QED
      BY <1>4, <3>1, <3>3
  <2> QED
    BY <1>3, <2>1, <2>2 DEF UpTo
<1>6. \E i \in 1 .. Len(called[d]) : called[d][i] = c
  BY <1>3, <1>4, <1>5 DEF UpTo, CalledUpTo
<1> QED
  BY <1>1, <1>6

LEMMA CleanAlways == CleanChunks => (Spec => [](TypeInv /\ CleanInv))
<1> SUFFICES ASSUME CleanChunks PROVE Spec => [](TypeInv /\ CleanInv)
  OBVIOUS
<1>1. Init => TypeInv /\ CleanInv
  BY InitTypes, InitClean
<1>2. TypeInv /\ CleanInv /\ [Next]_processorVars => (TypeInv /\ CleanInv)'
  BY NextTypes, NextClean
<1> QED
  BY <1>1, <1>2, PTL DEF Spec

\* If the callback never fails and no chunk cuts what the processor cannot put
\* together, the plugin is called with whole packets only, each once and in the
\* order of the stream (PacketProcessor.c:145-180).
THEOREM PacketsComeOutWholeAlways == CleanChunks => (Spec => []PacketsComeOutWhole)
<1>1. TypeInv /\ CleanInv => PacketsComeOutWhole
  BY CleanComesOutWhole
<1> QED
  BY <1>1, CleanAlways, PTL

\* Then every packet whose last cell has arrived has been passed to the plugin when
\* the listener waits for its next chunk (PacketProcessor.c:145-206).
THEOREM NothingIsHeldBackAlways == CleanChunks => (Spec => []NothingIsHeldBack)
<1>1. TypeInv /\ CleanInv => NothingIsHeldBack
  BY CleanHoldsNothingBack
<1> QED
  BY <1>1, CleanAlways, PTL

-----------------------------------------------------------------------------
(* Changes the processor can handle: they go out, and nothing else does.    *)

\* Cell i belongs to a packet the plugin changes, which ends with cell top or before.
IsChanged(d, i, top) ==
  \E s \in Starts(d) : /\ i \in s .. LastCell(d, s) /\ LastCell(d, s) <= top
                       /\ Call(s, 1) \in Modified[d]

OutCell(d, i, top) == [side |-> d, pos |-> i, changed |-> IsChanged(d, i, top)]

\* The cell up to which the listener has looked.
Top(d) ==
  IF pc[d] \in {"recv", "start", "pop"} THEN First(d)
  ELSE IF pc[d] = "loop" /\ cursor[d] <= Len(copy[d])
         THEN arrived[d] - Len(copy[d]) + cursor[d]
         ELSE arrived[d]

OutInv(d) ==
  /\ Len(sent[d]) = First(d)
  /\ \A i \in 1 .. Len(sent[d]) : sent[d][i] = OutCell(d, i, First(d))
  /\ \A i \in 1 .. Len(raw[d]) : raw[d][i] = OutCell(d, First(d) + i, Top(d))

ChangesInv == \A d \in Sides : OutInv(d)

LEMMA NotChangedYet ==
  ASSUME NEW d \in Sides, NEW top \in Nat, NEW i \in Nat, top < i
  PROVE  ~IsChanged(d, i, top) /\ OutCell(d, i, top) = Cell(d, i)
<1>1. ASSUME NEW s \in Starts(d), i \in s .. LastCell(d, s), LastCell(d, s) <= top
      PROVE  FALSE
  BY <1>1, PacketTypes
<1>2. ~IsChanged(d, i, top)
  BY <1>1 DEF IsChanged
<1>3. IsChanged(d, i, top) = FALSE
  BY <1>2 DEF IsChanged
<1>4. OutCell(d, i, top) = Cell(d, i)
  BY <1>3, Zenon DEF OutCell, Cell
<1> QED
  BY <1>2, <1>4

\* Nothing ends between the start of a packet and its end.
LEMMA NothingEndsWithin ==
  ASSUME NEW d \in Sides, NEW s \in Starts(d), NEW u \in Nat, s - 1 <= u,
         NEW i \in Nat,
         \/ u < LastCell(d, s)
         \/ u = LastCell(d, s) /\ (Call(s, 1) \notin Modified[d] \/ i \notin s .. u)
  PROVE  IsChanged(d, i, s - 1) <=> IsChanged(d, i, u)
<1>1. s \in Nat /\ s >= 1 /\ LastCell(d, s) \in Nat
  BY PacketTypes
<1>2. ASSUME NEW t \in Starts(d), i \in t .. LastCell(d, t), Call(t, 1) \in Modified[d],
             LastCell(d, t) <= u
      PROVE  LastCell(d, t) <= s - 1
  <2>1. LastCell(d, t) \in Nat
    BY PacketTypes
  <2>2. t # s
    BY <1>1, <1>2
  <2>3. LastCell(d, t) <= s - 1 \/ LastCell(d, t) > LastCell(d, s)
    BY <2>2, BeforeOrBehind
  <2> QED
    BY <1>1, <1>2, <2>1, <2>3
<1>3. ASSUME NEW t \in Starts(d), LastCell(d, t) <= s - 1
      PROVE  LastCell(d, t) <= u
  <2>1. LastCell(d, t) \in Nat
    BY PacketTypes
  <2> QED
    BY <1>1, <1>3, <2>1
<1> QED
  BY <1>2, <1>3 DEF IsChanged

\* What is sent is final: no later chunk ends a changed packet that began before it.
LEMMA SentIsFinal ==
  ASSUME CleanChanges, NEW d \in Sides, NEW a \in Nat, NEW e \in Ends[d],
         a \in Ends[d] \cup {0}, a < e, e < a + BufferSize,
         NEW s \in Starts(d), Call(s, 1) \in Modified[d], LastCell(d, s) <= e, s <= a
  PROVE  LastCell(d, s) <= a
<1>1. s \in Nat /\ s >= 1 /\ LastCell(d, s) \in Nat
  BY PacketTypes
<1>2. d = "server" /\ a \in Ends["server"]
  BY <1>1 DEF CleanChanges, Sides
<1> SUFFICES ASSUME a < LastCell(d, s) PROVE FALSE
  BY <1>1
<1>3. e \in Nat
  BY ProcessorAssumption
<1>4. Call(s, 1).start = s
  BY DEF Call
<1>5. LastCell("server", Call(s, 1).start) \in a + 1 .. e
  BY <1>1, <1>2, <1>3, <1>4
<1>6. Cuts("server", a) = {}
  BY <1>2, <1>5 DEF CleanChanges
<1>7. s \in Cuts(d, a)
  BY DEF Cuts
<1> QED
  BY <1>2, <1>6, <1>7

LEMMA InitChanges == Init => ChangesInv
<1> SUFFICES ASSUME Init, NEW d \in Sides PROVE OutInv(d)
  BY DEF ChangesInv
<1>1. sent[d] = << >> /\ raw[d] = << >> /\ arrived[d] = 0
  BY DEF Init
<1>2. Len(<< >>) = 0
  OBVIOUS
<1>3. Len(sent[d]) = 0 /\ Len(raw[d]) = 0
  BY <1>1, <1>2, Zenon
<1>4. 0 - 0 = 0
  OBVIOUS
<1>5. First(d) = 0
  BY <1>1, <1>3, <1>4, Zenon DEF First
<1> QED
  BY <1>3, <1>5 DEF OutInv

\* The other listener's chunk stays as it is.
LEMMA OthersOut ==
  ASSUME ChangesInv, NEW d \in Sides, OutInv(d)',
         \A x \in Sides \ {d} : Same(x) /\ sent'[x] = sent[x]
  PROVE  ChangesInv'
<1>1. ASSUME NEW x \in Sides \ {d} PROVE OutInv(x)'
  <2>1. Same(x) /\ sent'[x] = sent[x] /\ OutInv(x)
    BY <1>1 DEF ChangesInv
  <2>2. First(x)' = First(x) /\ Top(x)' = Top(x)
    BY <2>1 DEF Same, First, Top
  <2> QED
    BY <2>1, <2>2 DEF Same, OutInv
<1> QED
  BY <1>1 DEF ChangesInv

\* A chunk in which nothing is changed yet.
LEMMA FreshOut ==
  ASSUME NEW d \in Sides, NEW r \in Seq(Cells), NEW a \in Nat, NEW t \in Nat, t <= a,
         FreshChunk(d, r, a)
  PROVE  \A i \in 1 .. Len(r) : r[i] = OutCell(d, a + i, t)
<1> SUFFICES ASSUME NEW i \in 1 .. Len(r) PROVE r[i] = OutCell(d, a + i, t)
  OBVIOUS
<1>1. i \in Nat /\ i >= 1 /\ a + i \in Nat /\ t < a + i
  BY LenProperties
<1>2. OutCell(d, a + i, t) = Cell(d, a + i)
  BY <1>1, NotChangedYet
<1> QED
  BY <1>2 DEF FreshChunk

LEMMA RecvChanges ==
  ASSUME TypeInv, TypeInv', CleanInv, CleanInv', ChangesInv, NEW d \in Sides, Recv(d)
  PROVE  ChangesInv'
<1>1. /\ pc[d] = "recv" /\ pc' = [pc EXCEPT ![d] = "start"]
      /\ UNCHANGED <<copy, cursor, packetQueue, called, sent, mishaps>>
      /\ \E e \in Ends[d] :
           /\ arrived[d] < e
           /\ raw' = [raw EXCEPT ![d] =
                        [i \in 1 .. e - arrived[d] |-> Cell(d, arrived[d] + i)]]
           /\ arrived' = [arrived EXCEPT ![d] = e]
  BY DEF Recv, Goto
<1>2. \A x \in Sides \ {d} : Same(x) /\ sent'[x] = sent[x]
  BY <1>1 DEF Same, TypeInv, TypeOK
<1>3. pc'[d] = "start"
  BY <1>1 DEF TypeInv, TypeOK
<1>4. PICK a \in Nat : a = First(d) /\ a = arrived[d]
  <2>1. raw[d] = << >> /\ Len(<< >>) = 0
    BY <1>1 DEF CleanInv, ChunkInv
  <2>2. Len(raw[d]) = 0
    BY <2>1, Zenon
  <2> QED
    BY <2>2, HeldTypes, FirstIsNat
<1>5. First(d)' = a
  <2>1. PICK e \in Ends[d] :
          /\ arrived[d] < e
          /\ raw' = [raw EXCEPT ![d] =
                       [i \in 1 .. e - arrived[d] |-> Cell(d, arrived[d] + i)]]
          /\ arrived' = [arrived EXCEPT ![d] = e]
    BY <1>1
  <2>2. e \in Nat /\ e - a \in Nat /\ e - (e - a) = a
    BY <1>4, <2>1, ProcessorAssumption
  <2>3. raw'[d] = [i \in 1 .. e - a |-> Cell(d, a + i)] /\ arrived'[d] = e
    BY <1>4, <2>1 DEF TypeInv, TypeOK
  <2>4. \A i \in 1 .. e - a : Cell(d, a + i) \in Cells
    BY DEF Cell, Cells
  <2>5. Len(raw'[d]) = e - a
    BY <2>2, <2>3, <2>4
  <2> QED
    BY <2>2, <2>3, <2>5 DEF First
<1>6. Top(d)' = a
  BY <1>3, <1>5 DEF Top
<1>7. PICK r \in Seq(Cells) : r = raw'[d]
  BY DEF TypeInv, TypeOK
<1>8. FreshChunk(d, r, a)
  <2>1. FreshChunk(d, raw[d], First(d))'
    BY <1>3 DEF CleanInv, PlaceInv
  <2> QED
    BY <1>5, <1>7, <2>1, Zenon
<1>9. \A i \in 1 .. Len(r) : r[i] = OutCell(d, a + i, a)
  BY <1>8, FreshOut
<1>10. OutInv(d)'
  BY <1>1, <1>4, <1>5, <1>6, <1>7, <1>9 DEF ChangesInv, OutInv
<1> QED
  BY <1>2, <1>10, OthersOut

\* The copy is made, and a fragment is put before it; the chunk stays as it was.
LEMMA FreshChanges ==
  ASSUME TypeInv, TypeInv', CleanInv, CleanInv', ChangesInv, NEW d \in Sides,
         pc[d] \in {"start", "pop"}, UNCHANGED <<arrived, raw, sent>>,
         pc'[d] \in {"pop", "loop"}, cursor'[d] = 0,
         \A x \in Sides \ {d} : Same(x)
  PROVE  ChangesInv'
<1>1. PICK a \in Nat : a = First(d) /\ a = First(d)'
  BY FirstIsNat DEF First
<1>2. PICK r \in Seq(Cells) : r = raw[d] /\ r = raw'[d]
  BY DEF TypeInv, TypeOK
<1>3. FreshChunk(d, r, a)
  <2>1. FreshChunk(d, raw[d], First(d))
    BY DEF CleanInv, PlaceInv
  <2> QED
    BY <1>1, <1>2, <2>1, Zenon
<1>4. PICK t \in Nat : t = Top(d)' /\ t <= a
  <2>1. CASE pc'[d] = "pop"
    BY <1>1, <2>1 DEF Top
  <2>2. CASE pc'[d] = "loop"
    <3>1. PICK b \in Nat, e \in Nat, l \in Nat :
            e = arrived'[d] /\ l = Len(copy'[d]) /\ b + l = e /\ b <= a
      <4>1. PICK b \in Nat :
              Looping(d, b, copy'[d], cursor'[d], packetQueue', called'[d], First(d)', arrived'[d])
        BY <2>2 DEF CleanInv, PlaceInv
      <4>2. b + Len(copy'[d]) = arrived'[d] /\ b <= a
        BY <1>1, <4>1 DEF Looping
      <4>3. arrived'[d] \in Nat /\ copy'[d] \in Seq(Cells)
        BY DEF TypeInv, TypeOK
      <4> QED
        BY <4>2, <4>3, LenProperties
    <3>2. Top(d)' = e - l + 0
      BY <2>2, <3>1 DEF Top
    <3> QED
      BY <3>1, <3>2
  <2> QED
    BY <2>1, <2>2
<1>5. \A i \in 1 .. Len(r) : r[i] = OutCell(d, a + i, t)
  BY <1>3, <1>4, FreshOut
<1>6. OutInv(d)'
  BY <1>1, <1>2, <1>4, <1>5 DEF ChangesInv, OutInv
<1> QED
  BY <1>6, OthersOut

LEMMA EndChanges ==
  ASSUME TypeInv, CleanInv, ChangesInv, NEW d \in Sides, EndOfChunk(d)
  PROVE  ChangesInv'
<1>1. /\ pc[d] = "loop" /\ cursor[d] >= Len(copy[d])
      /\ pc' = [pc EXCEPT ![d] = "forward"]
      /\ UNCHANGED <<arrived, raw, copy, cursor, packetQueue, called, sent, mishaps>>
  BY DEF EndOfChunk, Goto
<1>2. \A x \in Sides \ {d} : Same(x) /\ sent'[x] = sent[x]
  BY <1>1 DEF Same, TypeInv, TypeOK
<1>3. PICK k \in Nat, e \in Nat, l \in Nat :
        k = cursor[d] /\ e = arrived[d] /\ l = Len(copy[d])
  BY HeldTypes
<1>4. Top(d) = e
  <2>1. k = l => e - l + k = e
    OBVIOUS
  <2> QED
    BY <1>1, <1>3, <2>1 DEF Top
<1>5. pc'[d] = "forward"
  BY <1>1 DEF TypeInv, TypeOK
<1>6. Top(d)' = Top(d) /\ First(d)' = First(d)
  BY <1>1, <1>3, <1>4, <1>5 DEF Top, First
<1>7. OutInv(d)'
  BY <1>1, <1>6 DEF ChangesInv, OutInv
<1> QED
  BY <1>2, <1>7, OthersOut

LEMMA ForwardChanges ==
  ASSUME CleanChanges, TypeInv, CleanInv, ChangesInv, NEW d \in Sides, Forward(d)
  PROVE  ChangesInv'
<1>1. /\ pc[d] = "forward" /\ sent' = [sent EXCEPT ![d] = sent[d] \o raw[d]]
      /\ raw' = [raw EXCEPT ![d] = << >>]
      /\ copy' = [copy EXCEPT ![d] = << >>] /\ cursor' = [cursor EXCEPT ![d] = 0]
      /\ pc' = [pc EXCEPT ![d] = "recv"]
      /\ UNCHANGED <<arrived, packetQueue, called, mishaps>>
  BY DEF Forward, Goto
<1>2. \A x \in Sides \ {d} : Same(x) /\ sent'[x] = sent[x]
  BY <1>1 DEF Same, TypeInv, TypeOK
<1>3. PICK a \in Nat, e \in Nat, r \in Seq(Cells), s \in Seq(Cells) :
        a = First(d) /\ e = arrived[d] /\ r = raw[d] /\ s = sent[d] /\ a + Len(r) = e
  <2>1. sent[d] \in Seq(Cells)
    BY DEF TypeInv, TypeOK
  <2> QED
    BY <2>1, HeldTypes, FirstIsNat
<1>4. /\ Len(s) = a /\ \A i \in 1 .. Len(s) : s[i] = OutCell(d, i, a)
      /\ \A i \in 1 .. Len(r) : r[i] = OutCell(d, a + i, e)
  <2>1. Top(d) = e
    BY <1>1, <1>3 DEF Top
  <2> QED
    BY <1>3, <2>1 DEF ChangesInv, OutInv
<1>5. /\ e \in Ends[d] /\ a \in Ends[d] \cup {0} /\ a < e /\ e < a + BufferSize
  BY <1>1, <1>3 DEF CleanInv, ChunkInv
<1>6. /\ sent'[d] = s \o r /\ raw'[d] = << >> /\ arrived'[d] = e
      /\ pc'[d] = "recv" /\ Len(<< >>) = 0
  BY <1>1, <1>3 DEF TypeInv, TypeOK
<1>7. Len(raw'[d]) = 0
  BY <1>6, Zenon
<1>8. First(d)' = e
  BY <1>6, <1>7 DEF First
<1>9. Len(s \o r) = e /\ Len(r) \in Nat
  <2>1. Len(s \o r) = Len(s) + Len(r) /\ Len(r) \in Nat
    BY ConcatProperties, LenProperties
  <2> QED
    BY <1>3, <1>4, <2>1
<1>10. ASSUME NEW i \in 1 .. Len(s \o r) PROVE (s \o r)[i] = OutCell(d, i, e)
  <2>1. CASE i \in 1 .. Len(s) /\ (s \o r)[i] = s[i]
    <3>1. IsChanged(d, i, a) = IsChanged(d, i, e)
      <4>1. \A t \in Starts(d) :
              (i \in t .. LastCell(d, t) /\ LastCell(d, t) <= e /\ Call(t, 1) \in Modified[d])
                => LastCell(d, t) <= a
        <5> SUFFICES ASSUME NEW t \in Starts(d), i \in t .. LastCell(d, t),
                            LastCell(d, t) <= e, Call(t, 1) \in Modified[d]
                     PROVE  LastCell(d, t) <= a
          OBVIOUS
        <5>1. t \in Nat /\ LastCell(d, t) \in Nat
          BY PacketTypes
        <5>2. t <= a
          BY <1>4, <2>1, <5>1
        <5> QED
          BY <1>5, <5>2, SentIsFinal
      <4>2. \A t \in Starts(d) : LastCell(d, t) <= a => LastCell(d, t) <= e
        <5>1. \A t \in Starts(d) : LastCell(d, t) \in Nat
          BY PacketTypes
        <5> QED
          BY <1>5, <5>1
      <4>3. IsChanged(d, i, a) <=> IsChanged(d, i, e)
        BY <4>1, <4>2 DEF IsChanged
      <4> QED
        BY <4>3 DEF IsChanged
    <3>2. OutCell(d, i, a) = OutCell(d, i, e)
      BY <3>1, Zenon DEF OutCell
    <3> QED
      BY <1>4, <2>1, <3>2
  <2>2. CASE /\ i > Len(s) /\ i - Len(s) \in 1 .. Len(r)
             /\ (s \o r)[i] = r[i - Len(s)]
    <3>1. a + (i - Len(s)) = i
      BY <1>4, <2>2
    <3> QED
      BY <1>4, <2>2, <3>1
  <2> QED
    BY <2>1, <2>2, ElementsOfConcat
<1>11. OutInv(d)'
  <2>1. \A i \in 1 .. Len(raw'[d]) : FALSE
    BY <1>7
  <2> QED
    BY <1>6, <1>8, <1>9, <1>10, <2>1 DEF OutInv
<1> QED
  BY <1>2, <1>11, OthersOut

\* What the plugin changed is written to the place the packet has in the chunk.
LEMMA OverwriteChanges ==
  ASSUME NEW r \in Seq(Cells), NEW w \in Seq(Cells), NEW k \in Nat, NEW i \in 1 .. Len(r)
  PROVE  IF i \in k + 1 .. k + Len(w)
           THEN Overwrite(r, k, Changed(w))[i] = [w[i - k] EXCEPT !.changed = TRUE]
           ELSE Overwrite(r, k, Changed(w))[i] = r[i]
<1> DEFINE ch == [j \in DOMAIN w |-> [w[j] EXCEPT !.changed = TRUE]]
<1>1. DOMAIN r = 1 .. Len(r) /\ DOMAIN w = 1 .. Len(w) /\ Len(w) \in Nat
  BY LenProperties
<1>2. ch = Changed(w)
  BY DEF Changed
<1>3. Len(ch) = Len(w)
  <2>1. \A j \in 1 .. Len(w) : [w[j] EXCEPT !.changed = TRUE] \in Cells
    <3>1. \A c \in Cells : [c EXCEPT !.changed = TRUE] \in Cells
      BY DEF Cells
    <3>2. \A j \in 1 .. Len(w) : w[j] \in Cells
      BY ElementOfSeq
    <3> QED
      BY <3>1, <3>2
  <2>2. ch \in Seq(Cells) /\ DOMAIN ch = 1 .. Len(w)
    BY <1>1, <2>1
  <2> HIDE DEF ch
  <2> QED
    BY <1>1, <2>2, LenProperties
<1>4. \A j \in 1 .. Len(w) : ch[j] = [w[j] EXCEPT !.changed = TRUE]
  BY <1>1
<1> HIDE DEF ch
<1>5. Overwrite(r, k, ch)[i] = IF i \in k + 1 .. k + Len(w) THEN ch[i - k] ELSE r[i]
  BY <1>1, <1>3 DEF Overwrite
<1>6. i \in k + 1 .. k + Len(w) => i - k \in 1 .. Len(w)
  BY <1>1
<1> QED
  BY <1>2, <1>4, <1>5, <1>6

LEMMA OverwriteKeeps ==
  ASSUME NEW r \in Seq(Cells), NEW w \in Seq(Cells), NEW k \in Nat, NEW i \in 1 .. Len(r),
         i \notin k + 1 .. k + Len(w)
  PROVE  Overwrite(r, k, Changed(w))[i] = r[i]
<1>1. \/ i \in k + 1 .. k + Len(w)
      \/ Overwrite(r, k, Changed(w))[i] = r[i]
  BY OverwriteChanges
<1> QED
  BY <1>1

\* The first n cells of what is left of the chunk.
LEMMA FrontOfRestCells ==
  ASSUME TypeOK, NEW d \in Sides, InLoop(d), NEW n \in Nat, n <= Left(d)
  PROVE  /\ FrontOfRest(d, n) \in Seq(Cells) /\ Len(FrontOfRest(d, n)) = n
         /\ \A i \in 1 .. n : FrontOfRest(d, n)[i] = Rest(d)[i]
<1>1. PICK r \in Seq(Cells), l \in Nat : r = Rest(d) /\ l = Left(d) /\ Len(r) = l
  BY RestOfChunk
<1>2. FrontOfRest(d, n) = SubSeq(r, 1, n)
  <2>1. (IF n < l THEN n ELSE l) = n
    BY <1>1
  <2> QED
    BY <1>1, <2>1 DEF FrontOfRest
<1>3. \A i \in 1 .. n : r[i] \in Cells
  <2>1. \A i \in 1 .. n : i \in 1 .. Len(r)
    BY <1>1
  <2> QED
    BY <2>1, ElementOfSeq
<1>4. 1 \in Int /\ n \in Int
  OBVIOUS
<1>5. /\ SubSeq(r, 1, n) \in Seq(Cells)
      /\ Len(SubSeq(r, 1, n)) = IF 1 <= n THEN n - 1 + 1 ELSE 0
      /\ \A i \in 1 .. n - 1 + 1 : SubSeq(r, 1, n)[i] = r[1 + i - 1]
  BY <1>3, <1>4, SubSeqProperties
<1>6. Len(SubSeq(r, 1, n)) = n
  BY <1>5
<1>7. \A i \in 1 .. n : SubSeq(r, 1, n)[i] = r[i]
  BY <1>5
<1> QED
  BY <1>1, <1>2, <1>5, <1>6, <1>7

\* A chunk that holds the end of a changed packet begins with the copy.
LEMMA ChangedPacketInChunk ==
  ASSUME CleanChanges, TypeInv, CleanInv, InLoop("server"),
         NEW b \in Nat, NEW s \in Starts("server"), AtPacket("server", b, s),
         SizeOf("server", s) <= Left("server"), Changes("server")
  PROVE  b = First("server") /\ Packets["server"][s].kind # "compressed"
<1> DEFINE d == "server"
<1>0. d \in Sides
  BY DEF Sides
<1>1. Call(s, 1) \in Modified[d] /\ Call(s, 1).start = s
  BY DEF Changes, AtPacket, Call
<1>2. Packets[d][s].kind # "compressed"
  BY <1>1 DEF CleanChanges
<1>3. PICK a \in Nat, e \in Nat, n \in Nat, k \in Nat :
        a = First(d) /\ e = arrived[d] /\ n = Left(d) /\ k = cursor[d]
  <2>1. Left(d) \in Nat
    BY <1>0, RestOfChunk DEF TypeInv
  <2> QED
    BY <1>0, <2>1, HeldTypes, FirstIsNat
<1>4. /\ b <= a /\ (b = a \/ b + 1 \in Cuts(d, a))
      /\ s = b + k + 1 /\ s + n = e + 1
  BY <1>3 DEF AtPacket
<1>5. s \in Nat /\ LastCell(d, s) \in Nat /\ LastCell(d, s) <= e /\ s <= LastCell(d, s)
  <2>1. /\ s \in Nat /\ SizeOf(d, s) \in Nat
        /\ LastCell(d, s) = s - 1 + SizeOf(d, s) /\ s <= LastCell(d, s)
    BY <1>0, PacketTypes, PacketEnds
  <2>2. SizeOf(d, s) <= n
    BY <1>3
  <2> QED
    BY <1>4, <2>1, <2>2
<1>6. CASE b + 1 \in Cuts(d, a)
  <2>1. b + 1 \in Starts(d) /\ b + 1 <= a /\ a < LastCell(d, b + 1)
    BY <1>6 DEF Cuts
  <2>2. PICK t \in Starts(d) : t = b + 1 /\ LastCell(d, t) \in Nat
    BY <1>0, <2>1, PacketTypes
  <2>3. a < LastCell(d, s)
    <3>1. CASE s = t
      BY <2>1, <2>2, <3>1
    <3>2. CASE s # t
      <4>1. LastCell(d, t) < s
        BY <1>0, <1>4, <1>5, <2>2, <3>2, PacketsApart
      <4> QED
        BY <1>5, <2>1, <2>2, <4>1
    <3> QED
      BY <3>1, <3>2
  <2>4. a \in Ends[d] /\ e \in Ends[d] /\ e < a + BufferSize
    BY <1>0, <1>3, <2>1 DEF CleanInv, ChunkInv, InLoop
  <2>5. LastCell(d, Call(s, 1).start) \in a + 1 .. e
    BY <1>1, <1>5, <2>3
  <2>6. Cuts(d, a) = {}
    BY <1>1, <2>4, <2>5 DEF CleanChanges
  <2> QED
    BY <1>6, <2>6
<1> QED
  BY <1>2, <1>3, <1>4, <1>6

LEMMA ProcessChanges ==
  ASSUME CleanChunks, CleanChanges, TypeInv, CleanInv, ChangesInv,
         NEW d \in Sides, ProcessPacket(d)
  PROVE  ChangesInv'
<1>0. InLoop(d) /\ pc[d] = "loop"
  BY DEF ProcessPacket, ServerPacket, InLoop
<1>1. PICK b \in Nat, s \in Starts(d) : AtPacket(d, b, s) /\ PacketStep(d, s)
  BY CleanPacketStep
<1>2. PICK k \in Nat, e \in Nat, a \in Nat, l \in Nat, r \in Seq(Cells), z \in Nat, n \in Nat :
        /\ k = cursor[d] /\ e = arrived[d] /\ a = First(d) /\ l = Len(copy[d])
        /\ r = raw[d] /\ z = SizeOf(d, s) /\ n = Left(d)
  <2>1. SizeOf(d, s) \in Nat /\ Left(d) \in Nat
    BY <1>0, <1>1, CutAtPacket
  <2> QED
    BY <2>1, HeldTypes, FirstIsNat
<1>3. s = b + k + 1 /\ s + n = e + 1 /\ b + l = e
  BY <1>1, <1>2 DEF AtPacket
<1>4. k < l /\ z >= 1 /\ LastCell(d, s) = s - 1 + z /\ s \in Nat /\ LastCell(d, s) \in Nat
  <2>1. k < l
    BY <1>0, <1>2 DEF InLoop
  <2>2. z >= 1 /\ LastCell(d, s) = s - 1 + z /\ s \in Nat /\ LastCell(d, s) \in Nat
    BY <1>2, PacketTypes, PacketEnds
  <2> QED
    BY <2>1, <2>2
<1>5. /\ cursor' = [cursor EXCEPT ![d] = k + z]
      /\ UNCHANGED <<arrived, copy, pc, sent>>
      /\ PassesWhole(d, s) \/ KeepsRest(d, s)
  BY <1>1, <1>2 DEF PacketStep, Advance
<1>6. /\ cursor'[d] = k + z /\ Len(copy'[d]) = l /\ arrived'[d] = e /\ pc'[d] = "loop"
      /\ \A x \in Sides \ {d} : cursor'[x] = cursor[x]
  BY <1>0, <1>2, <1>5 DEF TypeInv, TypeOK
<1>7. RawStep(d)
  BY ProcessPacketPasses DEF Passing
<1>8. First(d)' = a
  BY <1>2, <1>5, <1>7 DEF First, RawStep
<1>9. \A x \in Sides \ {d} : Same(x) /\ sent'[x] = sent[x]
  <2>1. \A x \in Sides \ {d} : called'[x] = called[x]
    BY <1>5 DEF PassesWhole, KeepsRest, Calling, TypeInv, TypeOK
  <2> QED
    BY <1>5, <1>6, <1>7, <2>1 DEF Same, RawStep
<1>10. Top(d) = s - 1
  <2>1. e - l + k = s - 1
    BY <1>3
  <2> QED
    BY <1>0, <1>2, <1>4, <2>1 DEF Top
<1>11. /\ Len(sent[d]) = a /\ \A i \in 1 .. Len(sent[d]) : sent[d][i] = OutCell(d, i, a)
       /\ \A i \in 1 .. Len(r) : r[i] = OutCell(d, a + i, s - 1)
  BY <1>2, <1>10 DEF ChangesInv, OutInv
<1>12. ASSUME NEW w \in Seq(Cells), NEW t \in Nat, raw'[d] = w, Top(d)' = t,
              \A i \in 1 .. Len(w) : w[i] = OutCell(d, a + i, t)
       PROVE  ChangesInv'
  <2>1. OutInv(d)'
    BY <1>5, <1>8, <1>11, <1>12 DEF OutInv
  <2> QED
    BY <1>9, <2>1, OthersOut
<1>13. ASSUME NEW t \in Nat, s - 1 <= t, raw'[d] = r, Top(d)' = t,
              t < LastCell(d, s) \/ (t = LastCell(d, s) /\ Call(s, 1) \notin Modified[d])
       PROVE  ChangesInv'
  <2>1. ASSUME NEW i \in 1 .. Len(r) PROVE r[i] = OutCell(d, a + i, t)
    <3>1. a + i \in Nat
      BY LenProperties
    <3>2. IsChanged(d, a + i, s - 1) <=> IsChanged(d, a + i, t)
      BY <1>13, <3>1, NothingEndsWithin
    <3>3. IsChanged(d, a + i, s - 1) = IsChanged(d, a + i, t)
      BY <3>2 DEF IsChanged
    <3>4. OutCell(d, a + i, s - 1) = OutCell(d, a + i, t)
      BY <3>3, Zenon DEF OutCell
    <3> QED
      BY <1>11, <3>4
  <2> QED
    BY <1>12, <1>13, <2>1
<1>14. CASE KeepsRest(d, s)
  <2>1. n < z /\ raw'[d] = r
    BY <1>2, <1>14 DEF KeepsRest
  <2>2. Top(d)' = e
    <3>1. ~(k + z <= l)
      BY <1>3, <2>1
    <3> QED
      BY <1>6, <3>1 DEF Top
  <2>3. s - 1 <= e /\ e < LastCell(d, s)
    BY <1>3, <1>4, <2>1
  <2> QED
    BY <1>13, <2>1, <2>2, <2>3
<1>15. CASE PassesWhole(d, s)
  <2>1. z <= n
    BY <1>2, <1>15 DEF PassesWhole
  <2>2. Top(d)' = LastCell(d, s) /\ s - 1 <= LastCell(d, s)
    <3>1. k + z <= l /\ e - l + (k + z) = LastCell(d, s) /\ s - 1 <= LastCell(d, s)
      BY <1>3, <1>4, <2>1
    <3> QED
      BY <1>6, <3>1 DEF Top
  <2>3. Changes(d) <=> Call(s, 1) \in Modified[d]
    BY <1>1 DEF Changes, AtPacket
  <2>4. Changes(d) => d = "server" /\ Packets[d][s].kind # "compressed" /\ b = a
    <3>1. Changes(d) => d = "server"
      BY <2>3 DEF CleanChanges, Sides
    <3>2. SizeOf(d, s) <= Left(d)
      BY <1>2, <2>1
    <3> QED
      BY <1>0, <1>1, <1>2, <3>1, <3>2, ChangedPacketInChunk
  <2>5. CASE ~Changes(d)
    <3>1. raw'[d] = r
      BY <1>2, <1>15, <2>5 DEF PassesWhole
    <3> QED
      BY <1>4, <1>13, <2>2, <2>3, <2>5, <3>1
  <2>6. CASE Changes(d)
    <3>1. PICK w \in Seq(Cells) :
            /\ w = FrontOfRest(d, z) /\ Len(w) = z
            /\ \A i \in 1 .. z : w[i] = Cell(d, s + i - 1)
      <4>1. /\ FrontOfRest(d, z) \in Seq(Cells) /\ Len(FrontOfRest(d, z)) = z
            /\ \A i \in 1 .. z : FrontOfRest(d, z)[i] = Rest(d)[i]
        BY <1>0, <1>2, <2>1, FrontOfRestCells DEF TypeInv
      <4>2. \A i \in 1 .. n : Rest(d)[i] = Cell(d, s + i - 1)
        BY <1>1, <1>2 DEF AtPacket
      <4> QED
        BY <2>1, <4>1, <4>2
    <3>2. PICK o \in Seq(Cells) : o = Overwrite(r, k, Changed(w)) /\ Len(o) = Len(r)
      BY OverwriteTypes
    <3>3. raw'[d] = o
      <4>1. raw' = [raw EXCEPT ![d] = Overwrite(r, k, Changed(w))]
        BY <1>2, <1>15, <2>4, <2>6, <3>1 DEF PassesWhole
      <4> QED
        BY <3>2, <4>1 DEF TypeInv, TypeOK
    <3>4. ASSUME NEW i \in 1 .. Len(o) PROVE o[i] = OutCell(d, a + i, LastCell(d, s))
      <4>0. i \in 1 .. Len(r) /\ i \in Nat /\ a + i \in Nat
        BY <3>2, LenProperties
      <4>1. CASE i \in k + 1 .. k + z
        <5>1. i - k \in 1 .. z /\ s + (i - k) - 1 = a + i /\ a + i \in s .. LastCell(d, s)
          BY <1>3, <1>4, <2>4, <2>6, <4>0, <4>1
        <5>2. o[i] = [Cell(d, a + i) EXCEPT !.changed = TRUE]
          <6>1. i \in k + 1 .. k + Len(w)
            BY <3>1, <4>1
          <6>2. Overwrite(r, k, Changed(w))[i] = [w[i - k] EXCEPT !.changed = TRUE]
            BY <4>0, <6>1, OverwriteChanges
          <6>3. w[i - k] = Cell(d, a + i)
            BY <3>1, <5>1
          <6> QED
            BY <3>2, <6>2, <6>3
        <5>3. IsChanged(d, a + i, LastCell(d, s)) = TRUE
          BY <1>4, <2>3, <2>6, <5>1 DEF IsChanged
        <5> QED
          BY <5>2, <5>3 DEF OutCell, Cell
      <4>2. CASE i \notin k + 1 .. k + z
        <5>1. a + i \notin s .. LastCell(d, s)
          <6>1. s = a + k + 1 /\ LastCell(d, s) = a + k + z
            BY <1>3, <1>4, <2>4, <2>6
          <6>2. ~(k + 1 <= i /\ i <= k + z)
            BY <4>0, <4>2
          <6>3. ~(a + k + 1 <= a + i /\ a + i <= a + k + z)
            BY <4>0, <6>2
          <6> QED
            BY <1>4, <4>0, <6>1, <6>3
        <5>2. o[i] = r[i]
          <6>1. ~(i \in k + 1 .. k + Len(w))
            BY <3>1, <4>2
          <6>2. Overwrite(r, k, Changed(w))[i] = r[i]
            BY <4>0, <6>1, OverwriteKeeps
          <6> QED
            BY <3>2, <6>2
        <5>3. IsChanged(d, a + i, s - 1) <=> IsChanged(d, a + i, LastCell(d, s))
          BY <1>4, <2>2, <4>0, <5>1, NothingEndsWithin
        <5>4. IsChanged(d, a + i, s - 1) = IsChanged(d, a + i, LastCell(d, s))
          BY <5>3 DEF IsChanged
        <5>5. OutCell(d, a + i, s - 1) = OutCell(d, a + i, LastCell(d, s))
          BY <5>4, Zenon DEF OutCell
        <5> QED
          BY <1>11, <4>0, <5>2, <5>5
      <4> QED
        BY <4>1, <4>2
    <3> QED
      BY <1>4, <1>12, <2>2, <3>3, <3>4
  <2> QED
    BY <2>5, <2>6
<1> QED
  BY <1>5, <1>14, <1>15

LEMMA NextChanges ==
  ASSUME CleanChunks, CleanChanges, TypeInv, TypeInv', CleanInv, CleanInv', ChangesInv,
         [Next]_processorVars
  PROVE  ChangesInv'
<1>1. CASE UNCHANGED processorVars
  <2>1. \A d \in Sides : First(d)' = First(d) /\ Top(d)' = Top(d)
    BY <1>1 DEF First, Top, processorVars
  <2> QED
    BY <1>1, <2>1 DEF ChangesInv, OutInv, processorVars
<1>2. ASSUME NEW d \in Sides, Recv(d) PROVE ChangesInv'
  BY <1>2, RecvChanges
<1>3. ASSUME NEW d \in Sides, Process(d) PROVE ChangesInv'
  <2>1. CASE CopyPacket(d)
    <3>1. /\ pc[d] \in {"start", "pop"} /\ UNCHANGED <<arrived, raw, sent>>
          /\ pc'[d] \in {"pop", "loop"} /\ cursor'[d] = 0
          /\ \A x \in Sides \ {d} : Same(x)
      BY <2>1 DEF CopyPacket, Goto, Same, TypeInv, TypeOK
    <3> QED
      BY <3>1, FreshChanges
  <2>2. CASE PopFragment(d)
    <3>1. /\ pc[d] \in {"start", "pop"} /\ UNCHANGED <<arrived, raw, sent, cursor, called>>
          /\ pc'[d] \in {"pop", "loop"}
      BY <2>2 DEF PopFragment, Goto, TypeInv, TypeOK
    <3>2. cursor'[d] = 0
      BY <2>2, <3>1 DEF PopFragment, CleanInv, PlaceInv
    <3>3. \A x \in Sides \ {d} : copy'[x] = copy[x] /\ pc'[x] = pc[x]
      BY <2>2 DEF PopFragment, Goto, TypeInv, TypeOK
    <3>4. \A x \in Sides \ {d} : Same(x)
      BY <3>1, <3>3 DEF Same
    <3> QED
      BY <3>1, <3>2, <3>4, FreshChanges
  <2>3. CASE PopNothing(d)
    BY <2>3 DEF PopNothing, CleanInv, PlaceInv
  <2>4. CASE ProcessPacket(d)
    BY <2>4, ProcessChanges
  <2>5. CASE EndOfChunk(d)
    BY <2>5, EndChanges
  <2>6. CASE Forward(d)
    BY <2>6, ForwardChanges
  <2> QED
    BY <1>3, <2>1, <2>2, <2>3, <2>4, <2>5, <2>6 DEF Process
<1> QED
  BY <1>1, <1>2, <1>3 DEF Next

LEMMA ChangesAlways ==
  CleanChunks /\ CleanChanges => (Spec => [](TypeInv /\ CleanInv /\ ChangesInv))
<1> SUFFICES ASSUME CleanChunks, CleanChanges
             PROVE  Spec => [](TypeInv /\ CleanInv /\ ChangesInv)
  OBVIOUS
<1>1. Init => TypeInv /\ CleanInv /\ ChangesInv
  BY InitTypes, InitClean, InitChanges
<1>2. TypeInv /\ CleanInv /\ ChangesInv /\ [Next]_processorVars
        => (TypeInv /\ CleanInv /\ ChangesInv)'
  BY NextTypes, NextClean, NextChanges
<1> QED
  BY <1>1, <1>2, PTL DEF Spec

LEMMA SentTypes ==
  ASSUME TypeInv, ChangesInv, NEW d \in Sides
  PROVE  /\ DOMAIN sent[d] = 1 .. First(d)
         /\ \A i \in 1 .. First(d) : sent[d][i] = OutCell(d, i, First(d))
<1>1. sent[d] \in Seq(Cells) /\ Len(sent[d]) = First(d)
  BY DEF TypeInv, TypeOK, ChangesInv, OutInv
<1> QED
  BY <1>1, LenProperties DEF ChangesInv, OutInv

LEMMA OnlyChangesDiffer == TypeInv /\ ChangesInv => OnlyChangedPacketsDiffer
<1> SUFFICES ASSUME TypeInv, ChangesInv, NEW d \in Sides, NEW i \in DOMAIN sent[d]
             PROVE  /\ sent[d][i].side = d
                    /\ sent[d][i].pos = i
                    /\ sent[d][i].changed =>
                         \E s \in Starts(d) : /\ i \in s .. LastCell(d, s)
                                              /\ Call(s, 1) \in Modified[d]
  BY DEF OnlyChangedPacketsDiffer
<1>1. sent[d][i] = OutCell(d, i, First(d))
  BY SentTypes
<1> QED
  BY <1>1 DEF OutCell, IsChanged

LEMMA ChangedGoOut ==
  ASSUME CleanChanges, TypeInv, CleanInv, ChangesInv
  PROVE  ChangesGoOut
<1> SUFFICES ASSUME NEW d \in Sides, NEW m \in Modified[d], NEW j \in DOMAIN called[d],
                    m = called[d][j],
                    NEW i \in DOMAIN sent[d], i \in m.start .. LastCell(d, m.start)
             PROVE  sent[d][i].changed
  BY DEF ChangesGoOut
<1>1. PICK a \in Nat, e \in Nat : a = First(d) /\ e = arrived[d] /\ a <= e
  <2>1. First(d) <= arrived[d]
    BY HeldTypes
  <2> QED
    BY <2>1, HeldTypes, FirstIsNat
<1>2. i \in 1 .. a /\ sent[d][i] = OutCell(d, i, a)
  BY <1>1, SentTypes
<1>3. d = "server"
  BY DEF CleanChanges, Sides
<1>4. PICK s \in Starts(d) : s = m.start /\ m = Call(s, 1)
  BY <1>3 DEF CleanChanges
<1>5. s \in Nat /\ LastCell(d, s) \in Nat
  BY PacketTypes
<1>6. LastCell(d, s) <= e
  <2>1. PICK b \in Nat : b <= e /\ CalledUpTo(d, called[d], b)
    BY <1>1, CalledSoFar
  <2>2. j \in 1 .. Len(called[d])
    BY HeldTypes
  <2>3. LastCell(d, s) <= b
    BY <1>4, <2>1, <2>2 DEF CalledUpTo
  <2> QED
    BY <1>1, <1>5, <2>1, <2>3
<1>7. LastCell(d, s) <= a
  <2>1. CASE pc[d] = "recv"
    <3>1. raw[d] = << >> /\ Len(<< >>) = 0
      BY <2>1 DEF CleanInv, ChunkInv
    <3>2. Len(raw[d]) = 0
      BY <3>1, Zenon
    <3>3. a = e
      BY <1>1, <3>2, HeldTypes
    <3> QED
      BY <1>6, <3>3
  <2>2. CASE pc[d] # "recv"
    <3>1. /\ e \in Ends[d] /\ a \in Ends[d] \cup {0} /\ a < e /\ e < a + BufferSize
      BY <1>1, <2>2 DEF CleanInv, ChunkInv
    <3>2. s <= a /\ Call(s, 1) \in Modified[d]
      BY <1>2, <1>4, <1>5
    <3> QED
      BY <1>6, <3>1, <3>2, SentIsFinal
  <2> QED
    BY <2>1, <2>2
<1>8. IsChanged(d, i, a)
  BY <1>4, <1>7 DEF IsChanged
<1> QED
  BY <1>2, <1>8 DEF OutCell

\* If the plugin changes only what the processor can write back, the bytes that go
\* out differ from those that came in in the packets it changed alone
\* (PacketProcessor.c:184-196).
THEOREM OnlyChangedPacketsDifferAlways ==
  CleanChunks /\ CleanChanges => (Spec => []OnlyChangedPacketsDiffer)
<1>1. TypeInv /\ CleanInv /\ ChangesInv => OnlyChangedPacketsDiffer
  BY OnlyChangesDiffer
<1> QED
  BY <1>1, ChangesAlways, PTL

\* And every packet that the plugin changed goes out changed in all of its cells
\* (PacketProcessor.c:184-196).
THEOREM ChangesGoOutAlways == CleanChunks /\ CleanChanges => (Spec => []ChangesGoOut)
<1> SUFFICES ASSUME CleanChunks, CleanChanges PROVE Spec => []ChangesGoOut
  OBVIOUS
<1>1. TypeInv /\ CleanInv /\ ChangesInv => ChangesGoOut
  BY ChangedGoOut
<1> QED
  BY <1>1, ChangesAlways, PTL
=============================================================================
