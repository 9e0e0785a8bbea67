------------------------- MODULE LiveCaptureProofs --------------------------
(***************************************************************************)
(* Proofs about LiveCapture: while the two listeners write, what is on     *)
(* disk is at every moment a capture of the form the reader relies on, and *)
(* a reader that shares nothing with them but these two files processes    *)
(* the records in order, skips none and never loses an id.                 *)
(*                                                                         *)
(* The argument has three parts.  The composition is a proxy of Relay to   *)
(* which files and a reader have been added, so the invariants of          *)
(* RelayProofs hold in it.  With what is known of the record in the making *)
(* they make the capture well formed.  And a capture only grows, by ids    *)
(* that the reader cannot have passed, so the invariant of                 *)
(* CaptureReaderProofs survives the steps of the proxy.                    *)
(***************************************************************************)
EXTENDS LiveCapture, RelayProofs

LR == INSTANCE CaptureReaderProofs WITH
  Folders <- 1, Captures <- {}, LeticiaFaults <- {},
  file <- <<Capture>>,
  folder <- rFolder, pc <- rPc, cur <- rCur, offset <- rOffset,
  lastId <- rLastId, curId <- rCurId, packet <- rPacket,
  eofShown <- rEofShown, report <- rReport, read <- rRead, lost <- rLost

\* What CaptureReader assumes of its constants holds of the ones it has here.
LEMMA LeticiaAssumption ==
  /\ 1 \in Nat \ {0}
  /\ \A c \in {} : LR!WellFormed(c)
  /\ {} \subseteq {"refuse", "crash"}
OBVIOUS

-----------------------------------------------------------------------------
(* The record in the making.                                               *)

Leaving == {"cleanup"} \cup Ended

\* A part of a record of side s, with its id, is on its way to the file or has
\* been left there.
HasPart(s) == flushed[s] \in {"beforeId", "afterId"}

\* What a side may have flushed and where it is then.
FlushedInv ==
  /\ flushed \in [Sides -> {"nothing", "created", "beforeId", "afterId"}]
  /\ \A s \in Sides : flushed[s] # "nothing" => pc[s] \in {"write"} \cup Leaving

\* The id of a part was drawn, follows those of the whole records of its file,
\* and is none that the other side recorded, holds or has left a part of.
PartInv ==
  \A s \in Sides : HasPart(s) =>
    /\ packet[s].id \in Nat /\ packet[s].id < packetId
    /\ \A i \in 1 .. Written(s) : log[s][i].id < packet[s].id
    /\ \A i \in DOMAIN log[Other(s)] : log[Other(s)][i].id # packet[s].id
    /\ Holds(Other(s)) \/ HasPart(Other(s)) => packet[Other(s)].id # packet[s].id

\* A record that is not whole is the one its side still has in hand.
CutInHandInv ==
  \A s \in Sides : \A i \in DOMAIN log[s] :
    ~log[s][i].whole => log[s][i].id = packet[s].id

FileInv == FlushedInv /\ PartInv /\ CutInHandInv

\* Every id that has been drawn is in the capture, or one of the two files ends
\* before it.
EveryIdInv ==
  \A n \in 0 .. packetId - 1 : \E t \in Sides :
    n \in LR!Ids(Capture, t) \/ \A k \in LR!Ids(Capture, t) : k < n

-----------------------------------------------------------------------------
(* The reader.                                                             *)

\* The reader has passed only records that are there, and every id before the
\* one it is at is in a file.
PassedInv ==
  /\ \A s \in Sides : rOffset[s] <= Len(Capture[s].records)
  /\ \A k \in 0 .. LR!Cut - 1 : \E s \in Sides : k \in LR!Ids(Capture, s)

\* In the first folder no end of a file has been shown before.
EndShownInv == rEofShown => rPc \in {"done", "crashed"}

ReaderInv == LR!TypeOK /\ LR!FilesInv /\ LR!Progress /\ PassedInv /\ EndShownInv
-----------------------------------------------------------------------------
(* The composition and its proxy.                                          *)

LEMMA LiveInitIsRelayInit == LiveInit => Init
BY DEF LiveInit

LEMMA LiveStepIsRelayStep == [LiveNext]_liveVars => [Next]_vars
BY DEF LiveNext, liveVars, Floana, Flush, LeticiaSteps, Next

\* The files and the reader do not disturb the proxy: the composition implements
\* it, and what holds of it alone holds here.
THEOREM LiveImplementsRelay == LiveSpec => Spec
BY LiveInitIsRelayInit, LiveStepIsRelayStep, PTL DEF LiveSpec, Spec

\* What RelayProofs establishes of the proxy.
RelayInv == TypeInv /\ ShutdownInv /\ IdInv /\ DataInv /\ CutInv /\ GapInv

LEMMA RelayInvHolds == LiveSpec => []RelayInv
<1>1. Spec => []GapInv
  <2>1. TypeInv /\ ShutdownInv /\ IdInv /\ DataInv /\ GapInv /\ [Next]_vars => GapInv'
    BY GapStep
  <2> QED
    BY <2>1, GapInit, TypeCorrect, ShutdownCorrect, IdsCorrect, DataCorrect, PTL
       DEF Spec
<1> QED
  BY <1>1, LiveImplementsRelay, TypeCorrect, ShutdownCorrect, IdsCorrect,
     DataCorrect, CutsCorrect, PTL DEF RelayInv

-----------------------------------------------------------------------------
(* What a step of the proxy does to a side.                                *)

\* A listener records the packet it has in hand; one that does not record it
\* whole is leaving.
RecordsPacket(s, whole) ==
  /\ pc[s] = "write"
  /\ log'[s] = Append(log[s], Record(s, whole))
  /\ packet'[s] = packet[s]
  /\ pc'[s] \in Labels \ {"unborn", "store", "unlock", "write"}
  /\ whole \/ pc'[s] \in Leaving

\* It does not, and keeps what it has in hand if it is writing or leaving.
LeavesLog(s) ==
  /\ log'[s] = log[s]
  /\ pc[s] \in {"unlock", "write"} \cup Leaving => packet'[s] = packet[s]
  /\ pc[s] = "write" => pc'[s] \in {"write"} \cup Leaving
  /\ pc[s] \in Leaving => pc'[s] \in Leaving
  /\ pc'[s] \in {"unlock", "write"} =>
       /\ packet'[s] = packet[s]
       /\ pc[s] \in {"unlock", "write"} \/ (pc[s] = "store" /\ packet[s].id = packetId)

Effect(s) == LeavesLog(s) \/ \E whole \in BOOLEAN : RecordsPacket(s, whole)

LEMMA EffectOfARecord ==
  ASSUME TypeInv, NEW s \in Sides, NEW t \in Sides, pc[s] = "write",
         NEW whole \in BOOLEAN, AppendRecord(s, whole), UNCHANGED packet,
         NEW label \in Labels \ {"unborn", "store", "unlock", "write"},
         pc' = [pc EXCEPT ![s] = label],
         whole \/ label \in Leaving
  PROVE  Effect(t)
<1>1. /\ pc \in [Sides -> Labels]
      /\ log \in [Sides -> Seq([id : Nat, data : Payload, whole : BOOLEAN])]
  BY DEF TypeInv, TypeOK
<1>2. CASE t = s
  <2>1. RecordsPacket(s, whole)
    BY <1>1 DEF RecordsPacket, AppendRecord
  <2> QED
    BY <1>2, <2>1 DEF Effect
<1>3. CASE t # s
  <2>1. log'[t] = log[t] /\ pc'[t] = pc[t] /\ packet'[t] = packet[t]
    BY <1>1, <1>3 DEF AppendRecord
  <2> QED
    BY <2>1 DEF Effect, LeavesLog
<1> QED
  BY <1>2, <1>3

LEMMA EffectOfAStep ==
  ASSUME RelayInv, "flush" \notin Faults, [Next]_vars, NEW t \in Sides
  PROVE  Effect(t)
<1>a. /\ TypeInv /\ StartupInv /\ IdFresh
      /\ pc \in [Sides -> Labels]
      /\ packet \in [Sides -> [id : Nat \cup {-1}, data : Payload \cup {Empty}]]
  BY DEF RelayInv, TypeInv, TypeOK, ShutdownInv, IdInv
<1> SUFFICES ASSUME ~ \E whole \in BOOLEAN : RecordsPacket(t, whole)
             PROVE  LeavesLog(t)
  BY DEF Effect
<1> USE <1>a DEF LeavesLog, Goto, Labels, Ended, Critical, Leaving, threadVars,
                 streamVars
<1>1. ASSUME NEW s \in Sides, Create(s) PROVE LeavesLog(t)
  <2>1. pc[s] = "unborn"
    BY <1>1 DEF Create, StartupInv, Sides
  <2> QED
    BY <1>1, <2>1 DEF Create
<1>2. ASSUME NEW s \in Sides, Join(s) PROVE LeavesLog(t)
  BY <1>2 DEF Join, IdFresh
<1>3. ASSUME NEW s \in Sides, Receive(s) PROVE LeavesLog(t)
  BY <1>3 DEF Receive
<1>4. ASSUME NEW s \in Sides, ReceiveFails(s) PROVE LeavesLog(t)
  BY <1>4 DEF ReceiveFails
<1>5. ASSUME NEW s \in Sides, EndOfStream(s) PROVE LeavesLog(t)
  BY <1>5 DEF EndOfStream
<1>6. ASSUME NEW s \in Sides, Lock(s) PROVE LeavesLog(t)
  BY <1>6 DEF Lock
<1>7. ASSUME NEW s \in Sides, LoadId(s) PROVE LeavesLog(t)
  BY <1>7 DEF LoadId
<1>8. ASSUME NEW s \in Sides, StoreId(s) PROVE LeavesLog(t)
  BY <1>8 DEF StoreId, IdFresh
<1>9. ASSUME NEW s \in Sides, Unlock(s) PROVE LeavesLog(t)
  BY <1>9 DEF Unlock
<1>10. ASSUME NEW s \in Sides, Write(s) PROVE LeavesLog(t)
  <2>1. AppendRecord(s, TRUE)
    BY <1>10 DEF Write
  <2>2. Effect(t)
    BY <1>10, <2>1, EffectOfARecord DEF Write
  <2> QED
    BY <2>2 DEF Effect
<1>11. ASSUME NEW s \in Sides, WriteFails(s) PROVE LeavesLog(t)
  <2>1. Effect(t)
    BY <1>11, EffectOfARecord DEF WriteFails
  <2> QED
    BY <2>1 DEF Effect
<1>12. ASSUME NEW s \in Sides, CallPlugins(s) PROVE LeavesLog(t)
  BY <1>12 DEF CallPlugins
<1>13. ASSUME NEW s \in Sides, PluginFails(s) PROVE LeavesLog(t)
  BY <1>13 DEF PluginFails
<1>14. ASSUME NEW s \in Sides, Send(s) PROVE LeavesLog(t)
  BY <1>14 DEF Send
<1>15. ASSUME NEW s \in Sides, SendFails(s) PROVE LeavesLog(t)
  BY <1>15 DEF SendFails
<1>16. ASSUME NEW s \in Sides, Hangup(s) PROVE LeavesLog(t)
  BY <1>16 DEF Hangup
<1>17. ASSUME NEW s \in Sides, Cleanup(s) PROVE LeavesLog(t)
  BY <1>17 DEF Cleanup
<1>18. ASSUME NEW s \in Sides, Die(s) PROVE LeavesLog(t)
  <2>1. CASE pc[s] = "write" /\ \E whole \in BOOLEAN : AppendRecord(s, whole)
    <3>1. PICK whole \in BOOLEAN : AppendRecord(s, whole)
      BY <2>1
    <3>2. Effect(t)
      BY <1>18, <2>1, <3>1, EffectOfARecord DEF Die
    <3> QED
      BY <3>2 DEF Effect
  <2>2. CASE UNCHANGED log
    BY <1>18, <2>2 DEF Die
  <2> QED
    BY <1>18, <2>1, <2>2 DEF Die
<1>19. ASSUME NEW s \in Sides, PeerCloses(s) PROVE LeavesLog(t)
  BY <1>19 DEF PeerCloses, IdFresh
<1>20. CASE UNCHANGED vars
  BY <1>20 DEF vars, IdFresh
<1> QED
  BY <1>1, <1>2, <1>3, <1>4, <1>5, <1>6, <1>7, <1>8, <1>9, <1>10, <1>11,
     <1>12, <1>13, <1>14, <1>15, <1>16, <1>17, <1>18, <1>19, <1>20
     DEF Next, Main, Step, Proceed, Handle, Returned

\* The counter only grows.
LEMMA CounterGrows ==
  ASSUME RelayInv, [Next]_vars
  PROVE  packetId \in Nat /\ packetId' \in Nat /\ packetId' >= packetId
<1>1. packetId \in Nat /\ IdFresh
  BY DEF RelayInv, TypeInv, TypeOK, IdInv
<1>2. \/ packetId' = packetId
      \/ \E s \in Sides : StoreId(s)
  BY DEF Next, Main, Step, Proceed, Handle, Returned, vars, threadVars, Create, Join, Receive,
     ReceiveFails, EndOfStream, Lock, LoadId, Unlock, Write, WriteFails,
     CallPlugins, PluginFails, Send, SendFails, Hangup, Cleanup, Die, PeerCloses
<1> QED
  BY <1>1, <1>2 DEF StoreId, IdFresh
-----------------------------------------------------------------------------
(* The whole records of a file.                                            *)

LEMMA SidesAreTwo ==
  ASSUME NEW s \in Sides
  PROVE  /\ Other(s) \in Sides /\ Other(s) # s /\ Other(Other(s)) = s
         /\ \A t \in Sides : t = s \/ t = Other(s)
BY DEF Sides, Other

LEMMA LogTypes ==
  ASSUME TypeInv, NEW s \in Sides
  PROVE  /\ log[s] \in Seq([id : Nat, data : Payload, whole : BOOLEAN])
         /\ Len(log[s]) \in Nat
         /\ DOMAIN log[s] = 1 .. Len(log[s])
         /\ \A i \in DOMAIN log[s] : log[s][i].id \in Nat
         /\ log[s] = << >> <=> Len(log[s]) = 0
<1> DEFINE R == [id : Nat, data : Payload, whole : BOOLEAN]
<1>1. log[s] \in Seq(R)
  BY DEF TypeInv, TypeOK
<1>2. \A i \in DOMAIN log[s] : log[s][i].id \in Nat
  BY RecordsHaveIds
<1> HIDE DEF R
<1>3. /\ Len(log[s]) \in Nat
      /\ DOMAIN log[s] = 1 .. Len(log[s])
      /\ log[s] = << >> <=> Len(log[s]) = 0
  BY <1>1
<1> QED
  BY <1>1, <1>2, <1>3 DEF R

\* The records of a file are whole but for the last one, and that one is cut only
\* if its side is leaving.
LEMMA WrittenFacts ==
  ASSUME RelayInv, NEW s \in Sides
  PROVE  /\ Written(s) \in Nat /\ Written(s) <= Len(log[s])
         /\ \A i \in DOMAIN log[s] :
              i <= Written(s) \/ (i = Len(log[s]) /\ ~log[s][i].whole)
         /\ pc[s] \notin Leaving => Written(s) = Len(log[s])
<1>1. TypeInv /\ Cuts(s)
  BY LiveAssumption DEF RelayInv, CutInv
<1>2. CASE log[s] # << >> /\ ~log[s][Len(log[s])].whole
  <2>1. Len(log[s]) \in DOMAIN log[s] /\ Written(s) = Len(log[s]) - 1
    BY <1>1, <1>2, LogTypes DEF Written
  <2>2. pc[s] \in Leaving
    BY <1>1, <1>2, <2>1 DEF Cuts, Leaving
  <2> QED
    BY <1>1, <1>2, <2>1, <2>2, LogTypes
<1>3. CASE ~(log[s] # << >> /\ ~log[s][Len(log[s])].whole)
  BY <1>1, <1>3, LogTypes DEF Written
<1> QED
  BY <1>2, <1>3

\* A listener that records adds one record to the file, or a cut one that does
\* not count.
LEMMA RecordingFacts ==
  ASSUME RelayInv, NEW s \in Sides, NEW whole \in BOOLEAN, RecordsPacket(s, whole)
  PROVE  /\ log'[s] = Append(log[s], Record(s, whole))
         /\ DOMAIN log'[s] = DOMAIN log[s] \cup {Len(log[s]) + 1}
         /\ Len(log'[s]) = Len(log[s]) + 1
         /\ \A i \in DOMAIN log[s] : log'[s][i] = log[s][i]
         /\ log'[s][Len(log[s]) + 1].id = packet[s].id
         /\ log'[s][Len(log[s]) + 1].whole = whole
         /\ Written(s) = Len(log[s])
         /\ Written(s)' = IF whole THEN Len(log[s]) + 1 ELSE Len(log[s])
<1> DEFINE R == [id : Nat, data : Payload, whole : BOOLEAN]
           r == Record(s, whole)
<1>1. TypeInv /\ pc[s] = "write" /\ log'[s] = Append(log[s], r)
  BY DEF RelayInv, RecordsPacket
<1>2. log[s] \in Seq(R) /\ Len(log[s]) \in Nat /\ DOMAIN log[s] = 1 .. Len(log[s])
  BY <1>1, LogTypes
<1>3. r.id = packet[s].id /\ r.whole = whole
  BY DEF Record
<1>4. r \in R
  <2>1. packet[s].id \in Nat /\ packet[s].data \in Payload
    BY <1>1 DEF TypeInv, PacketInHand, Drawn
  <2> QED
    BY <2>1 DEF Record
<1> HIDE DEF R, r
<1>5. /\ Len(Append(log[s], r)) = Len(log[s]) + 1
      /\ DOMAIN Append(log[s], r) = 1 .. Len(log[s]) + 1
      /\ \A i \in 1 .. Len(log[s]) : Append(log[s], r)[i] = log[s][i]
      /\ Append(log[s], r)[Len(log[s]) + 1] = r
  BY <1>2, <1>4
<1>6. Written(s) = Len(log[s])
  BY <1>1, WrittenFacts DEF Leaving, Ended
<1>7. /\ log'[s] # << >> /\ Len(log'[s]) = Len(log[s]) + 1
      /\ log'[s][Len(log'[s])].whole = whole
  <2>1. Len(log'[s]) = Len(log[s]) + 1
    BY <1>1, <1>5
  <2>2. log'[s] # << >>
    BY <1>2, <2>1
  <2>3. log'[s][Len(log'[s])] = r
    BY <1>1, <1>5, <2>1
  <2> QED
    BY <2>1, <2>2, <2>3, <1>3
<1>8. Written(s)' = IF whole THEN Len(log[s]) + 1 ELSE Len(log[s])
  <2>1. Written(s)' = IF ~whole THEN Len(log'[s]) - 1 ELSE Len(log'[s])
    BY <1>7 DEF Written
  <2>2. Len(log[s]) + 1 - 1 = Len(log[s])
    BY <1>2
  <2> QED
    BY <2>1, <2>2, <1>7
<1>9. DOMAIN log'[s] = DOMAIN log[s] \cup {Len(log[s]) + 1}
  BY <1>1, <1>2, <1>5
<1> QED
  BY <1>1, <1>2, <1>3, <1>5, <1>6, <1>7, <1>8, <1>9 DEF r

LEMMA NotRecordingFacts ==
  ASSUME NEW s \in Sides, LeavesLog(s)
  PROVE  log'[s] = log[s] /\ Written(s)' = Written(s)
BY DEF LeavesLog, Written

-----------------------------------------------------------------------------
(* The record in the making, step by step.                                 *)

LEMMA FileInvHoldsAtFirst == LiveInit => FileInv
BY DEF LiveInit, Init, FileInv, FlushedInv, PartInv, HasPart, CutInHandInv, Sides

\* What a step of the proxy leaves of what has been flushed.
LEMMA SettledFacts ==
  ASSUME RelayInv, FileInv, Settle, NEW s \in Sides, Effect(s)
  PROVE  /\ flushed'[s] \in {flushed[s], "nothing"}
         /\ RecordsPacket(s, TRUE) => flushed'[s] = "nothing"
         /\ RecordsPacket(s, FALSE) => flushed'[s] = flushed[s]
         /\ LeavesLog(s) => flushed'[s] = flushed[s]
<1>1. /\ flushed'[s] = IF Written(s)' > Written(s) THEN "nothing" ELSE flushed[s]
      /\ Written(s) \in Nat
  BY WrittenFacts DEF Settle
<1>2. RecordsPacket(s, TRUE) => Written(s)' = Written(s) + 1
  BY RecordingFacts
<1>3. RecordsPacket(s, FALSE) => Written(s)' = Written(s)
  BY RecordingFacts
<1>4. LeavesLog(s) => Written(s)' = Written(s)
  BY NotRecordingFacts
<1>5. RecordsPacket(s, TRUE) => flushed'[s] = "nothing"
  <2> SUFFICES ASSUME Written(s)' = Written(s) + 1 PROVE flushed'[s] = "nothing"
    BY <1>2
  <2>1. Written(s)' > Written(s)
    BY <1>1
  <2> QED
    BY <1>1, <2>1
<1>6. Written(s)' = Written(s) => flushed'[s] = flushed[s]
  <2> SUFFICES ASSUME Written(s)' = Written(s) PROVE flushed'[s] = flushed[s]
    OBVIOUS
  <2>1. ~(Written(s)' > Written(s))
    BY <1>1
  <2> QED
    BY <1>1, <2>1
<1>7. flushed'[s] \in {flushed[s], "nothing"}
  BY <1>1
<1> QED
  BY <1>3, <1>4, <1>5, <1>6, <1>7

LEMMA FlushedStep ==
  ASSUME RelayInv, FileInv, Settle, \A s \in Sides : Effect(s)
  PROVE  FlushedInv'
<1>1. flushed' \in [Sides -> {"nothing", "created", "beforeId", "afterId"}]
  BY DEF FileInv, FlushedInv, Settle
<1>2. ASSUME NEW s \in Sides, flushed'[s] # "nothing"
      PROVE  pc'[s] \in {"write"} \cup Leaving
  <2>1. flushed[s] # "nothing"
    BY <1>2, SettledFacts
  <2>2. pc[s] \in {"write"} \cup Leaving
    BY <2>1 DEF FileInv, FlushedInv
  <2>3. CASE LeavesLog(s)
    BY <2>2, <2>3 DEF LeavesLog
  <2>4. CASE \E whole \in BOOLEAN : RecordsPacket(s, whole)
    <3>1. RecordsPacket(s, FALSE)
      BY <1>2, <2>4, SettledFacts
    <3> QED
      BY <3>1 DEF RecordsPacket
  <2> QED
    BY <2>3, <2>4 DEF Effect
<1> QED
  BY <1>1, <1>2 DEF FlushedInv

LEMMA CutInHandStep ==
  ASSUME RelayInv, FileInv, \A s \in Sides : Effect(s)
  PROVE  CutInHandInv'
<1> SUFFICES ASSUME NEW s \in Sides, NEW i \in DOMAIN log'[s], ~log'[s][i].whole
             PROVE  log'[s][i].id = packet'[s].id
  BY DEF CutInHandInv
<1>1. CASE LeavesLog(s)
  <2>1. /\ i \in DOMAIN log[s] /\ log'[s][i] = log[s][i]
        /\ pc[s] \in Leaving
    BY <1>1, LiveAssumption DEF LeavesLog, RelayInv, CutInv, Cuts, Leaving
  <2> QED
    BY <1>1, <2>1 DEF LeavesLog, FileInv, CutInHandInv
<1>2. ASSUME NEW whole \in BOOLEAN, RecordsPacket(s, whole)
      PROVE  log'[s][i].id = packet'[s].id
  <2>1. CASE i \in DOMAIN log[s]
    <3>1. ~log[s][i].whole
      BY <1>2, <2>1, RecordingFacts
    <3>2. pc[s] \in Leaving
      BY <3>1, <2>1, LiveAssumption DEF RelayInv, CutInv, Cuts, Leaving
    <3> QED
      BY <1>2, <3>2 DEF RecordsPacket, Leaving, Ended
  <2>2. CASE i = Len(log[s]) + 1
    BY <1>2, <2>2, RecordingFacts DEF RecordsPacket
  <2> QED
    BY <1>2, <2>1, <2>2, RecordingFacts
<1> QED
  BY <1>1, <1>2 DEF Effect

\* A packet that is held is that of before, or has the id the counter has.
LEMMA HeldPackets ==
  ASSUME RelayInv, NEW t \in Sides, Effect(t), Holds(t)'
  PROVE  /\ packet'[t] = packet[t]
         /\ Holds(t) \/ packet[t].id = packetId
<1>1. LeavesLog(t)
  BY DEF Effect, RecordsPacket, Holds
<1> QED
  BY <1>1 DEF LeavesLog, Holds

\* A side that has a part of a record had it before and still has its packet.
LEMMA KeptParts ==
  ASSUME RelayInv, FileInv, Settle, NEW s \in Sides, Effect(s), HasPart(s)'
  PROVE  /\ HasPart(s) /\ packet'[s] = packet[s] /\ Written(s)' = Written(s)
         /\ \A i \in 1 .. Written(s) : log'[s][i] = log[s][i]
<1>1. flushed'[s] # "nothing" /\ HasPart(s)
  BY SettledFacts DEF HasPart
<1>2. pc[s] \in {"write"} \cup Leaving
  BY <1>1 DEF FileInv, FlushedInv, HasPart
<1>3. CASE LeavesLog(s)
  BY <1>1, <1>2, <1>3, NotRecordingFacts DEF LeavesLog
<1>4. CASE RecordsPacket(s, FALSE)
  <2>1. /\ Written(s) = Len(log[s]) /\ Written(s)' = Len(log[s])
        /\ \A i \in DOMAIN log[s] : log'[s][i] = log[s][i]
    BY <1>4, RecordingFacts
  <2>2. DOMAIN log[s] = 1 .. Len(log[s])
    BY LogTypes DEF RelayInv
  <2> QED
    BY <1>1, <1>4, <2>1, <2>2 DEF RecordsPacket
<1> QED
  BY <1>1, <1>3, <1>4, SettledFacts DEF Effect

LEMMA PartStep ==
  ASSUME RelayInv, FileInv, Settle, [Next]_vars, \A s \in Sides : Effect(s)
  PROVE  PartInv'
<1> SUFFICES ASSUME NEW s \in Sides, HasPart(s)'
             PROVE  /\ packet'[s].id \in Nat /\ packet'[s].id < packetId'
                    /\ \A i \in 1 .. Written(s)' : log'[s][i].id < packet'[s].id
                    /\ \A i \in DOMAIN log'[Other(s)] :
                         log'[Other(s)][i].id # packet'[s].id
                    /\ Holds(Other(s))' \/ HasPart(Other(s))'
                         => packet'[Other(s)].id # packet'[s].id
  BY DEF PartInv
<1> DEFINE t == Other(s)
<1>1. t \in Sides /\ t # s /\ Other(t) = s
  BY SidesAreTwo
<1>2. /\ HasPart(s) /\ packet'[s] = packet[s] /\ Written(s)' = Written(s)
      /\ \A i \in 1 .. Written(s) : log'[s][i] = log[s][i]
  BY KeptParts
<1>3. /\ packet[s].id \in Nat /\ packet[s].id < packetId
      /\ \A i \in 1 .. Written(s) : log[s][i].id < packet[s].id
      /\ \A i \in DOMAIN log[t] : log[t][i].id # packet[s].id
      /\ Holds(t) \/ HasPart(t) => packet[t].id # packet[s].id
  BY <1>2 DEF FileInv, PartInv
<1>4. packet[s].id < packetId'
  BY <1>3, CounterGrows
<1>5. ASSUME NEW i \in DOMAIN log'[t] PROVE log'[t][i].id # packet[s].id
  <2>1. CASE LeavesLog(t)
    BY <1>3, <2>1 DEF LeavesLog
  <2>2. ASSUME NEW whole \in BOOLEAN, RecordsPacket(t, whole)
        PROVE  log'[t][i].id # packet[s].id
    <3>1. Holds(t)
      BY <2>2 DEF RecordsPacket, Holds
    <3> QED
      BY <1>1, <1>3, <2>2, <3>1, RecordingFacts
  <2> QED
    BY <1>1, <2>1, <2>2 DEF Effect
<1>6. ASSUME Holds(t)' \/ HasPart(t)' PROVE packet'[t].id # packet[s].id
  <2>1. CASE Holds(t)'
    BY <1>1, <1>3, <2>1, HeldPackets
  <2>2. CASE HasPart(t)'
    BY <1>1, <1>3, <2>2, KeptParts
  <2> QED
    BY <1>6, <2>1, <2>2
<1> QED
  BY <1>2, <1>3, <1>4, <1>5, <1>6

\* A record that begins to reach the file is the one its side holds.
LEMMA FlushStep ==
  ASSUME RelayInv, FileInv, NEW s \in Sides, Flush(s)
  PROVE  FileInv'
<1>1. /\ pc[s] = "write" /\ UNCHANGED vars
      /\ flushed \in [Sides -> {"nothing", "created", "beforeId", "afterId"}]
      /\ \E f \in {"created", "beforeId", "afterId"} :
           flushed' = [flushed EXCEPT ![s] = f]
  <2>1. PICK step \in {<<"nothing", "created">>, <<"created", "beforeId">>,
                       <<"created", "afterId">>, <<"beforeId", "afterId">>} :
          flushed' = [flushed EXCEPT ![s] = step[2]]
    BY DEF Flush
  <2>2. step[2] \in {"created", "beforeId", "afterId"}
    OBVIOUS
  <2>3. pc[s] = "write" /\ UNCHANGED vars
    BY DEF Flush
  <2> QED
    BY <2>1, <2>2, <2>3 DEF FileInv, FlushedInv
<1>2. /\ UNCHANGED <<pc, packet, packetId, log>>
      /\ flushed' \in [Sides -> {"nothing", "created", "beforeId", "afterId"}]
      /\ \A t \in Sides : t # s => flushed'[t] = flushed[t]
  BY <1>1 DEF vars
<1>3. FlushedInv'
  BY <1>1, <1>2 DEF FileInv, FlushedInv
<1>4. CutInHandInv'
  BY <1>2 DEF FileInv, CutInHandInv
<1>5. PartInv'
  <2> SUFFICES ASSUME NEW u \in Sides, HasPart(u)'
               PROVE  /\ packet[u].id \in Nat /\ packet[u].id < packetId
                      /\ \A i \in 1 .. Written(u) : log[u][i].id < packet[u].id
                      /\ \A i \in DOMAIN log[Other(u)] :
                           log[Other(u)][i].id # packet[u].id
                      /\ Holds(Other(u)) \/ HasPart(Other(u))'
                           => packet[Other(u)].id # packet[u].id
    BY <1>2 DEF PartInv, Written, Holds
  <2>1. /\ Other(u) \in Sides /\ Other(u) # u /\ Other(Other(u)) = u
        /\ Other(s) \in Sides /\ Other(s) # s /\ s # Other(s)
    BY SidesAreTwo
  <2>2. CASE u = s
    <3>1. Holds(s)
      BY <1>1 DEF Holds
    <3>2. TypeInv /\ IdsDrawn /\ IdsHeld
      BY DEF RelayInv, IdInv
    <3>3. packet[s].id \in Nat /\ packet[s].id < packetId
      BY <3>1, <3>2 DEF TypeInv, PacketInHand, Drawn, Holds, IdsDrawn
    <3>4. /\ \A i \in DOMAIN log[s] : log[s][i].id < packet[s].id
          /\ \A i \in DOMAIN log[Other(s)] : log[Other(s)][i].id # packet[s].id
          /\ Holds(Other(s)) => packet[Other(s)].id # packet[s].id
      BY <2>1, <3>1, <3>2 DEF IdsHeld
    <3>5. \A i \in 1 .. Written(s) : i \in DOMAIN log[s]
      BY <3>2, WrittenFacts, LogTypes
    <3>6. HasPart(Other(s))' => packet[Other(s)].id # packet[s].id
      <4>1. HasPart(Other(s))' => HasPart(Other(s))
        BY <1>2, <2>1 DEF HasPart
      <4>2. HasPart(Other(s)) => packet[s].id # packet[Other(s)].id
        BY <2>1, <2>2, <3>1 DEF FileInv, PartInv
      <4> QED
        BY <4>1, <4>2
    <3> QED
      BY <2>2, <3>3, <3>4, <3>5, <3>6
  <2>3. CASE u # s
    <3>1. HasPart(u) /\ Other(u) = s
      BY <1>2, <2>3, SidesAreTwo DEF HasPart
    <3>2. Holds(s)
      BY <1>1 DEF Holds
    <3> QED
      BY <3>1, <3>2 DEF FileInv, PartInv
  <2> QED
    BY <2>2, <2>3
<1> QED
  BY <1>3, <1>4, <1>5 DEF FileInv

LEMMA FloanaSteps ==
  ASSUME Floana, RelayInv, FileInv
  PROVE  [Next]_vars /\ Settle /\ \A s \in Sides : Effect(s)
<1>1. [Next]_vars /\ Settle
  BY DEF Floana, Next
<1> QED
  BY <1>1, LiveAssumption, EffectOfAStep

LEMMA FileInvIsPreserved ==
  ASSUME RelayInv, FileInv, [LiveNext]_liveVars
  PROVE  FileInv'
<1>1. CASE Floana
  BY <1>1, FloanaSteps, FlushedStep, PartStep, CutInHandStep DEF FileInv
<1>2. CASE \E s \in Sides : Flush(s)
  BY <1>2, FlushStep
<1>3. CASE UNCHANGED <<vars, flushed>>
  BY <1>3 DEF vars, FileInv, FlushedInv, PartInv, CutInHandInv, HasPart, Holds,
     Written
<1> QED
  BY <1>1, <1>2, <1>3 DEF LiveNext, LeticiaSteps, liveVars

LEMMA FileInvHolds == LiveSpec => []FileInv
BY FileInvHoldsAtFirst, FileInvIsPreserved, RelayInvHolds, PTL DEF LiveSpec
-----------------------------------------------------------------------------
(* The capture on disk.                                                    *)

\* The records of a file are the whole ones, with the ids of the log, and then
\* the part of the one in the making.
CaptureShape(s) ==
  /\ Written(s) \in Nat
  /\ Capture[s].records \in Seq(LR!Records)
  /\ Len(Capture[s].records) = Written(s) + (IF HasPart(s) THEN 1 ELSE 0)
  /\ DOMAIN Capture[s].records = 1 .. Len(Capture[s].records)
  /\ \A i \in 1 .. Written(s) :
       Capture[s].records[i] = [id |-> log[s][i].id, cut |-> "none"]
  /\ HasPart(s) =>
       Capture[s].records[Written(s) + 1] = [id |-> packet[s].id, cut |-> flushed[s]]

LEMMA CaptureShapes == RelayInv /\ FileInv => \A s \in Sides : CaptureShape(s)
<1> SUFFICES ASSUME RelayInv, FileInv, NEW s \in Sides PROVE CaptureShape(s)
  OBVIOUS
<1> DEFINE R == LR!Records
           n == Written(s)
           w == WholeRecords(s)
           p == [id |-> packet[s].id, cut |-> flushed[s]]
<1>1. TypeInv /\ n \in Nat /\ n <= Len(log[s])
  BY WrittenFacts DEF RelayInv
<1>2. \A i \in 1 .. n : [id |-> log[s][i].id, cut |-> "none"] \in R
  <2> SUFFICES ASSUME NEW i \in 1 .. n
               PROVE  [id |-> log[s][i].id, cut |-> "none"] \in R
    OBVIOUS
  <2>1. i \in DOMAIN log[s]
    BY <1>1, LogTypes
  <2>2. log[s][i].id \in Nat
    BY <1>1, <2>1, LogTypes
  <2> QED
    BY <2>2 DEF LR!Records, LR!Cuts
<1>3. HasPart(s) => p \in R
  BY DEF HasPart, FileInv, PartInv, LR!Records, LR!Cuts
<1>4. w = [i \in 1 .. n |-> [id |-> log[s][i].id, cut |-> "none"]]
  BY DEF WholeRecords
<1> HIDE DEF R, n, w, p
<1>5. w \in Seq(R) /\ Len(w) = n
  BY <1>1, <1>2, <1>4
<1>6. \A i \in 1 .. n : w[i] = [id |-> log[s][i].id, cut |-> "none"]
  BY <1>4
<1>7. Capture[s].records = w \o PartOfARecord(s)
  BY DEF Capture, w
<1>8. CASE HasPart(s)
  <2>1. PartOfARecord(s) = <<p>>
    BY <1>8 DEF PartOfARecord, HasPart, p
  <2>2. Capture[s].records = Append(w, p)
    BY <1>3, <1>5, <1>7, <1>8, <2>1
  <2>3. /\ Append(w, p) \in Seq(R) /\ Len(Append(w, p)) = n + 1
        /\ DOMAIN Append(w, p) = 1 .. n + 1
        /\ \A i \in 1 .. n : Append(w, p)[i] = w[i]
        /\ Append(w, p)[n + 1] = p
    BY <1>1, <1>3, <1>5, <1>8
  <2> QED
    BY <1>1, <1>6, <1>8, <2>2, <2>3 DEF CaptureShape, R, n, p
<1>9. CASE ~HasPart(s)
  <2>1. PartOfARecord(s) = << >>
    BY <1>9 DEF PartOfARecord, HasPart
  <2>2. Capture[s].records = w
    BY <1>5, <1>7, <2>1
  <2>3. DOMAIN w = 1 .. Len(w)
    BY <1>5
  <2> QED
    BY <1>1, <1>5, <1>6, <1>9, <2>2, <2>3 DEF CaptureShape, R, n
<1> QED
  BY <1>8, <1>9

\* The fields of the records of a file.
LEMMA CaptureFields ==
  ASSUME NEW s \in Sides, CaptureShape(s)
  PROVE  /\ DOMAIN Capture[s].records =
              (1 .. Written(s)) \cup (IF HasPart(s) THEN {Written(s) + 1} ELSE {})
         /\ \A i \in 1 .. Written(s) : /\ Capture[s].records[i].id = log[s][i].id
                                      /\ Capture[s].records[i].cut = "none"
         /\ HasPart(s) => /\ Capture[s].records[Written(s) + 1].id = packet[s].id
                          /\ Capture[s].records[Written(s) + 1].cut = flushed[s]
<1> DEFINE n == Written(s)
           R == Capture[s].records
<1>1. /\ n \in Nat /\ DOMAIN R = 1 .. Len(R)
      /\ Len(R) = n + (IF HasPart(s) THEN 1 ELSE 0)
      /\ \A i \in 1 .. n : R[i] = [id |-> log[s][i].id, cut |-> "none"]
      /\ HasPart(s) => R[n + 1] = [id |-> packet[s].id, cut |-> flushed[s]]
  BY DEF CaptureShape
<1> HIDE DEF n, R
<1>2. DOMAIN R = (1 .. n) \cup (IF HasPart(s) THEN {n + 1} ELSE {})
  <2>1. CASE HasPart(s)
    <3>1. 1 .. n + 1 = (1 .. n) \cup {n + 1}
      BY <1>1
    <3> QED
      BY <1>1, <2>1, <3>1
  <2>2. CASE ~HasPart(s)
    <3>1. Len(R) = n
      BY <1>1, <2>2
    <3> QED
      BY <1>1, <2>2, <3>1
  <2> QED
    BY <2>1, <2>2
<1>3. ASSUME NEW i \in 1 .. n
      PROVE  R[i].id = log[s][i].id /\ R[i].cut = "none"
  <2>1. PICK a : a = log[s][i].id
    OBVIOUS
  <2>2. R[i] = [id |-> a, cut |-> "none"]
    BY <1>1, <2>1
  <2> QED
    BY <2>1, <2>2
<1>4. HasPart(s) => R[n + 1].id = packet[s].id /\ R[n + 1].cut = flushed[s]
  BY <1>1
<1> QED
  BY <1>2, <1>3, <1>4 DEF n, R

\* The ids of a file are those of its whole records and of the part.
LEMMA CaptureIds ==
  ASSUME NEW s \in Sides, CaptureShape(s)
  PROVE  LR!Ids(Capture, s) = {log[s][i].id : i \in 1 .. Written(s)}
                                \cup (IF HasPart(s) THEN {packet[s].id} ELSE {})
<1> DEFINE n == Written(s)
           R == Capture[s].records
<1>1. /\ DOMAIN R = (1 .. n) \cup (IF HasPart(s) THEN {n + 1} ELSE {})
      /\ \A i \in 1 .. n : R[i].id = log[s][i].id
      /\ HasPart(s) => R[n + 1].id = packet[s].id
  BY CaptureFields
<1> HIDE DEF n, R
<1>2. {R[i].id : i \in DOMAIN R} =
        {log[s][i].id : i \in 1 .. n} \cup (IF HasPart(s) THEN {packet[s].id} ELSE {})
  <2>1. CASE HasPart(s)
    BY <1>1, <2>1
  <2>2. CASE ~HasPart(s)
    BY <1>1, <2>2
  <2> QED
    BY <2>1, <2>2
<1> QED
  BY <1>2 DEF LR!Ids, n, R

\* Where an id that is in the log can be missing in the file.
LEMMA RecordedIds ==
  ASSUME RelayInv, FileInv, NEW t \in Sides, NEW i \in DOMAIN log[t]
  PROVE  \/ log[t][i].id \in LR!Ids(Capture, t)
         \/ \A k \in LR!Ids(Capture, t) : k < log[t][i].id
<1>1. CaptureShape(t) /\ TypeInv
  BY CaptureShapes DEF RelayInv
<1>2. CASE i <= Written(t)
  <2>1. i \in 1 .. Written(t)
    BY <1>1, <1>2, LogTypes DEF CaptureShape
  <2> QED
    BY <1>1, <2>1, CaptureIds
<1>3. CASE ~(i <= Written(t)) /\ HasPart(t)
  <2>1. log[t][i].id = packet[t].id
    BY <1>3, WrittenFacts DEF FileInv, CutInHandInv
  <2> QED
    BY <1>1, <1>3, <2>1, CaptureIds
<1>4. CASE ~(i <= Written(t)) /\ ~HasPart(t)
  <2>1. \A j \in 1 .. Written(t) : log[t][j].id < log[t][i].id
    <3> SUFFICES ASSUME NEW j \in 1 .. Written(t) PROVE log[t][j].id < log[t][i].id
      OBVIOUS
    <3>1. j \in DOMAIN log[t] /\ j < i
      BY <1>1, <1>4, LogTypes, WrittenFacts
    <3> QED
      BY <3>1 DEF RelayInv, IdInv, IdsOrderTheCapture
  <2> QED
    BY <1>1, <1>4, <2>1, CaptureIds
<1> QED
  BY <1>2, <1>3, <1>4

LEMMA UnrecordedIds ==
  ASSUME RelayInv, FileInv, NEW t \in Sides, NEW n, Unrecorded(t, n)
  PROVE  n \in LR!Ids(Capture, t) \/ \A k \in LR!Ids(Capture, t) : k < n
<1>1. CaptureShape(t) /\ TypeInv
  BY CaptureShapes DEF RelayInv
<1>2. packet[t].id = n /\ \A i \in DOMAIN log[t] : log[t][i].id < n
  BY DEF Unrecorded
<1>3. \A i \in 1 .. Written(t) : i \in DOMAIN log[t]
  BY <1>1, LogTypes, WrittenFacts
<1> QED
  BY <1>1, <1>2, <1>3, CaptureIds

LEMMA EveryIdIsAccounted ==
  ASSUME RelayInv, FileInv
  PROVE  EveryIdInv
<1> SUFFICES ASSUME NEW n \in 0 .. packetId - 1
             PROVE  \E t \in Sides : \/ n \in LR!Ids(Capture, t)
                                     \/ \A k \in LR!Ids(Capture, t) : k < n
  BY DEF EveryIdInv
<1>1. Accounted(n)
  BY DEF RelayInv, GapInv
<1>2. CASE \E t \in Sides : \E i \in DOMAIN log[t] : log[t][i].id = n
  BY <1>2, RecordedIds
<1>3. CASE \E t \in Sides : Unrecorded(t, n)
  BY <1>3, UnrecordedIds
<1> QED
  BY <1>1, <1>2, <1>3 DEF Accounted

\* The ids of the capture were drawn.
LEMMA CapturedIdsAreDrawn ==
  ASSUME RelayInv, FileInv, NEW s \in Sides, NEW m \in LR!Ids(Capture, s)
  PROVE  m \in Nat /\ m < packetId
<1>1. CaptureShape(s) /\ TypeInv
  BY CaptureShapes DEF RelayInv
<1>2. \A i \in 1 .. Written(s) : i \in DOMAIN log[s]
  BY <1>1, LogTypes, WrittenFacts
<1>3. \A i \in 1 .. Written(s) : log[s][i].id \in Nat /\ log[s][i].id < packetId
  BY <1>1, <1>2, LogTypes DEF RelayInv, IdInv, IdsDrawn
<1>4. HasPart(s) => packet[s].id \in Nat /\ packet[s].id < packetId
  BY DEF FileInv, PartInv
<1> QED
  BY <1>1, <1>3, <1>4, CaptureIds

\* The ids ascend in each file.
LEMMA CapturedIdsAscend ==
  ASSUME RelayInv, FileInv, NEW s \in Sides,
         NEW i \in DOMAIN Capture[s].records, NEW j \in DOMAIN Capture[s].records,
         i < j
  PROVE  Capture[s].records[i].id < Capture[s].records[j].id
<1>1. CaptureShape(s) /\ TypeInv
  BY CaptureShapes DEF RelayInv
<1>2. /\ Written(s) \in Nat
      /\ DOMAIN Capture[s].records =
           (1 .. Written(s)) \cup (IF HasPart(s) THEN {Written(s) + 1} ELSE {})
      /\ \A k \in 1 .. Written(s) : /\ Capture[s].records[k].id = log[s][k].id
                                   /\ k \in DOMAIN log[s]
      /\ HasPart(s) => Capture[s].records[Written(s) + 1].id = packet[s].id
  <2>1. \A k \in 1 .. Written(s) : k \in DOMAIN log[s]
    BY <1>1, LogTypes, WrittenFacts
  <2> QED
    BY <1>1, <2>1, CaptureFields DEF CaptureShape
<1>3. i \in 1 .. Written(s)
  BY <1>2
<1>4. CASE j \in 1 .. Written(s)
  BY <1>2, <1>3, <1>4 DEF RelayInv, IdInv, IdsOrderTheCapture
<1>5. CASE HasPart(s) /\ j = Written(s) + 1
  BY <1>2, <1>3, <1>5 DEF FileInv, PartInv
<1> QED
  BY <1>2, <1>4, <1>5

\* No id is in both files.
LEMMA CapturedIdsDiffer ==
  ASSUME RelayInv, FileInv
  PROVE  \A n \in LR!Ids(Capture, "client") : n \notin LR!Ids(Capture, "server")
<1>1. "client" \in Sides /\ "server" \in Sides
  BY DEF Sides
<1>2. CaptureShape("client") /\ CaptureShape("server") /\ TypeInv
  BY <1>1, CaptureShapes DEF RelayInv
<1>3. /\ \A i \in 1 .. Written("client") : i \in DOMAIN log["client"]
      /\ \A i \in 1 .. Written("server") : i \in DOMAIN log["server"]
  BY <1>1, <1>2, LogTypes, WrittenFacts
<1>4. \A i \in 1 .. Written("client"), j \in 1 .. Written("server") :
        log["client"][i].id # log["server"][j].id
  BY <1>1, <1>3 DEF RelayInv, IdInv, IdsOrderTheCapture
<1>5. Other("client") = "server" /\ Other("server") = "client"
  BY DEF Other
<1>6. HasPart("client") =>
        /\ \A j \in 1 .. Written("server") : log["server"][j].id # packet["client"].id
        /\ HasPart("server") => packet["server"].id # packet["client"].id
  BY <1>1, <1>3, <1>5 DEF FileInv, PartInv
<1>7. HasPart("server") =>
        \A i \in 1 .. Written("client") : log["client"][i].id # packet["server"].id
  BY <1>1, <1>3, <1>5 DEF FileInv, PartInv
<1>8. /\ LR!Ids(Capture, "client") =
           {log["client"][i].id : i \in 1 .. Written("client")}
             \cup (IF HasPart("client") THEN {packet["client"].id} ELSE {})
      /\ LR!Ids(Capture, "server") =
           {log["server"][i].id : i \in 1 .. Written("server")}
             \cup (IF HasPart("server") THEN {packet["server"].id} ELSE {})
  BY <1>1, <1>2, CaptureIds
<1> QED
  BY <1>4, <1>6, <1>7, <1>8

LEMMA CaptureTypes ==
  ASSUME RelayInv, FileInv
  PROVE  /\ Capture \in [Sides -> LR!Files]
         /\ \A s \in Sides : Capture[s].exists \/ Capture[s].records = << >>
<1>1. ASSUME NEW s \in Sides
      PROVE  /\ Capture[s] \in LR!Files
             /\ Capture[s].exists \/ Capture[s].records = << >>
  <2>1. CaptureShape(s) /\ TypeInv
    BY CaptureShapes DEF RelayInv
  <2>2. Capture[s] = [exists  |-> Capture[s].exists, records |-> Capture[s].records]
    BY DEF Capture
  <2>3. Capture[s].exists \in BOOLEAN
    BY DEF Capture
  <2>4. Capture[s].records \in Seq(LR!Records)
    BY <2>1 DEF CaptureShape
  <2>5. Capture[s] \in LR!Files
    BY <2>2, <2>3, <2>4 DEF LR!Files
  <2>6. ASSUME ~Capture[s].exists PROVE Capture[s].records = << >>
    <3>1. log[s] = << >> /\ flushed[s] = "nothing"
      BY <2>6 DEF Capture
    <3>2. Len(Capture[s].records) = 0
      BY <2>1, <3>1, LogTypes DEF CaptureShape, Written, HasPart
    <3> QED
      BY <2>4, <3>2
  <2> QED
    BY <2>5, <2>6
<1>2. Capture = [s \in Sides |-> Capture[s]]
  BY DEF Capture
<1>3. Capture \in [Sides -> LR!Files]
  BY <1>1, <1>2
<1> QED
  BY <1>1, <1>3

\* The two definitions of the sides.
LEMMA SameSides == LR!Sides = Sides /\ \A s \in Sides : LR!Other(s) = Other(s)
BY DEF LR!Sides, Sides, LR!Other, Other

\* At every moment the capture is of the form the reader relies on.
LEMMA CaptureHasTheForm == RelayInv /\ FileInv => LR!WellFormed(Capture)
<1> SUFFICES ASSUME RelayInv, FileInv PROVE LR!WellFormed(Capture)
  OBVIOUS
<1>1. ASSUME NEW s \in Sides, NEW m \in LR!Ids(Capture, s), NEW n \in 0 .. m
      PROVE  \/ \E t \in Sides : n \in LR!Ids(Capture, t)
             \/ \A k \in LR!Ids(Capture, Other(s)) : k < n
  <2>1. m \in Nat /\ m < packetId /\ packetId \in Nat
    BY CapturedIdsAreDrawn DEF RelayInv, TypeInv, TypeOK
  <2>2. n \in 0 .. packetId - 1
    BY <2>1
  <2>3. PICK t \in Sides : \/ n \in LR!Ids(Capture, t)
                           \/ \A k \in LR!Ids(Capture, t) : k < n
    BY <2>2, EveryIdIsAccounted DEF EveryIdInv
  <2>4. CASE n \in LR!Ids(Capture, t)
    BY <2>4
  <2>5. CASE \A k \in LR!Ids(Capture, t) : k < n
    <3>1. t # s
      BY <2>1, <2>5
    <3> QED
      BY <2>5, <3>1, SidesAreTwo
  <2> QED
    BY <2>3, <2>4, <2>5
<1> QED
  BY <1>1, SameSides, CaptureTypes, CapturedIdsAscend, CapturedIdsDiffer
     DEF LR!WellFormed

\* What the proxy has on disk is a capture of the form CaptureReader assumes, at
\* any moment of any interleaving (Floana.c:190-198 against Leticia.c:137-143).
THEOREM CaptureIsWellFormedAlways == LiveSpec => []CaptureIsWellFormed
<1>1. RelayInv /\ FileInv => CaptureIsWellFormed
  <2> SUFFICES ASSUME LR!WellFormed(Capture) PROVE Leticia!WellFormed(Capture)
    BY CaptureHasTheForm DEF CaptureIsWellFormed
  <2> QED
    BY DEF LR!WellFormed, LR!Sides, LR!Files, LR!Records, LR!Cuts, LR!Ids, LR!Other,
       Leticia!WellFormed, Leticia!Sides, Leticia!Files, Leticia!Records,
       Leticia!Cuts, Leticia!Ids, Leticia!Other
<1> QED
  BY <1>1, RelayInvHolds, FileInvHolds, PTL
-----------------------------------------------------------------------------
(* The capture grows.                                                      *)

FileShows(s) ==
  /\ Written(s) \in Nat
  /\ Len(Capture[s].records) \in Nat
  /\ DOMAIN Capture[s].records = 1 .. Len(Capture[s].records)
  /\ Len(Capture[s].records) = Written(s) + (IF HasPart(s) THEN 1 ELSE 0)
  /\ \A i \in 1 .. Written(s) : Capture[s].records[i].id = log[s][i].id
  /\ HasPart(s) => Capture[s].records[Written(s) + 1].id = packet[s].id

LEMMA FilesShow == RelayInv /\ FileInv => \A s \in Sides : FileShows(s)
<1> SUFFICES ASSUME RelayInv, FileInv, NEW s \in Sides PROVE FileShows(s)
  OBVIOUS
<1>1. CaptureShape(s)
  BY CaptureShapes
<1>2. Len(Capture[s].records) \in Nat
  BY <1>1 DEF CaptureShape
<1> QED
  BY <1>1, <1>2, CaptureFields DEF FileShows, CaptureShape

\* Records are added to a file, and none of those that are there changes its id.
Extends(s) ==
  \A i \in DOMAIN Capture[s].records :
    /\ i \in DOMAIN Capture'[s].records
    /\ Capture'[s].records[i].id = Capture[s].records[i].id

\* The whole records stay, and what a side has a part of stays or is completed.
Continues(s) ==
  /\ Written(s)' >= Written(s)
  /\ \A i \in 1 .. Written(s) : log'[s][i].id = log[s][i].id
  /\ HasPart(s) =>
       \/ Written(s)' = Written(s) /\ HasPart(s)' /\ packet'[s] = packet[s]
       \/ /\ Written(s)' = Written(s) + 1
          /\ log'[s][Written(s) + 1].id = packet[s].id

LEMMA ContinuingExtends ==
  ASSUME NEW s \in Sides, FileShows(s), FileShows(s)', Continues(s)
  PROVE  Extends(s)
<1> DEFINE n == Written(s)
           R == Capture[s].records
<1> SUFFICES ASSUME NEW i \in DOMAIN R
             PROVE  i \in DOMAIN R' /\ R'[i].id = R[i].id
  BY DEF Extends
<1>1. /\ n \in Nat /\ DOMAIN R = 1 .. Len(R)
      /\ Len(R) = n + (IF HasPart(s) THEN 1 ELSE 0)
      /\ \A j \in 1 .. n : R[j].id = log[s][j].id
      /\ HasPart(s) => R[n + 1].id = packet[s].id
  BY DEF FileShows
<1>2. /\ n' \in Nat /\ DOMAIN R' = 1 .. Len(R')
      /\ Len(R') = n' + (IF HasPart(s)' THEN 1 ELSE 0)
      /\ \A j \in 1 .. n' : R'[j].id = log'[s][j].id
      /\ HasPart(s)' => R'[n' + 1].id = packet'[s].id
  BY DEF FileShows
<1>3. /\ n' >= n /\ \A j \in 1 .. n : log'[s][j].id = log[s][j].id
      /\ HasPart(s) => \/ n' = n /\ HasPart(s)' /\ packet'[s] = packet[s]
                       \/ n' = n + 1 /\ log'[s][n + 1].id = packet[s].id
  BY DEF Continues
<1> HIDE DEF n, R
<1>4. Len(R') = n' \/ Len(R') = n' + 1
  <2>1. CASE HasPart(s)'
    BY <1>2, <2>1
  <2>2. CASE ~HasPart(s)'
    <3>1. Len(R') = n' + 0
      BY <1>2, <2>2, Zenon
    <3>2. \A m \in Nat : m + 0 = m
      OBVIOUS
    <3>3. n' + 0 = n'
      BY <1>2, <3>2, Zenon
    <3> QED
      BY <3>1, <3>3
  <2> QED
    BY <2>1, <2>2
<1>5. CASE i \in 1 .. n
  <2>1. i \in 1 .. n' /\ i \in 1 .. Len(R')
    BY <1>1, <1>2, <1>3, <1>4, <1>5
  <2> QED
    BY <1>1, <1>2, <1>3, <1>5, <2>1
<1>6. CASE i \notin 1 .. n
  <2>1. HasPart(s) /\ i = n + 1
    <3>1. HasPart(s)
      BY <1>1, <1>6
    <3> QED
      BY <1>1, <1>6, <3>1
  <2>2. CASE n' = n /\ HasPart(s)' /\ packet'[s] = packet[s]
    <3>1. Len(R') = n + 1
      BY <1>2, <2>2
    <3> QED
      BY <1>1, <1>2, <2>1, <2>2, <3>1
  <2>3. CASE n' = n + 1 /\ log'[s][n + 1].id = packet[s].id
    <3>1. n + 1 \in 1 .. n' /\ n + 1 \in 1 .. Len(R')
      BY <1>1, <1>4, <2>3
    <3> QED
      BY <1>1, <1>2, <2>1, <2>3, <3>1
  <2> QED
    BY <1>3, <2>1, <2>2, <2>3
<1> QED
  BY <1>5, <1>6

LEMMA FloanaContinues ==
  ASSUME RelayInv, FileInv, Floana, NEW s \in Sides
  PROVE  Continues(s)
<1>1. Effect(s) /\ Settle
  BY FloanaSteps
<1>2. Written(s) \in Nat /\ Written(s) <= Len(log[s]) /\ TypeInv
  BY WrittenFacts DEF RelayInv
<1>3. \A i \in 1 .. Written(s) : i \in DOMAIN log[s]
  BY <1>2, LogTypes
<1>4. CASE LeavesLog(s)
  <2>1. log'[s] = log[s] /\ Written(s)' = Written(s)
    BY <1>4, NotRecordingFacts
  <2>2. flushed'[s] = flushed[s]
    BY <1>1, <1>4, SettledFacts
  <2>3. HasPart(s) => packet'[s] = packet[s]
    BY <1>4 DEF LeavesLog, HasPart, FileInv, FlushedInv
  <2> QED
    BY <1>2, <2>1, <2>2, <2>3 DEF Continues, HasPart
<1>5. CASE RecordsPacket(s, FALSE)
  <2>1. /\ \A i \in DOMAIN log[s] : log'[s][i] = log[s][i]
        /\ Written(s)' = Written(s)
    BY <1>5, RecordingFacts
  <2>2. flushed'[s] = flushed[s]
    BY <1>1, <1>5, SettledFacts
  <2>3. packet'[s] = packet[s]
    BY <1>5 DEF RecordsPacket
  <2> QED
    BY <1>2, <1>3, <2>1, <2>2, <2>3 DEF Continues, HasPart
<1>6. CASE RecordsPacket(s, TRUE)
  <2>1. /\ \A i \in DOMAIN log[s] : log'[s][i] = log[s][i]
        /\ Written(s) = Len(log[s]) /\ Written(s)' = Len(log[s]) + 1
        /\ log'[s][Len(log[s]) + 1].id = packet[s].id
    BY <1>6, RecordingFacts
  <2> QED
    BY <1>2, <1>3, <2>1 DEF Continues
<1> QED
  BY <1>1, <1>4, <1>5, <1>6 DEF Effect

LEMMA FlushContinues ==
  ASSUME RelayInv, FileInv, NEW t \in Sides, Flush(t), NEW s \in Sides
  PROVE  Continues(s)
<1>1. /\ UNCHANGED vars
      /\ \E step \in {<<"nothing", "created">>, <<"created", "beforeId">>,
                      <<"created", "afterId">>, <<"beforeId", "afterId">>} :
           flushed[t] = step[1] /\ flushed' = [flushed EXCEPT ![t] = step[2]]
  BY DEF Flush
<1>2. flushed \in [Sides -> {"nothing", "created", "beforeId", "afterId"}]
  BY DEF FileInv, FlushedInv
<1>3. HasPart(s) => HasPart(s)'
  <2> SUFFICES ASSUME flushed[s] \in {"beforeId", "afterId"}
               PROVE  flushed'[s] \in {"beforeId", "afterId"}
    BY DEF HasPart
  <2>1. CASE s = t
    BY <1>1, <1>2, <2>1
  <2>2. CASE s # t
    BY <1>1, <1>2, <2>2
  <2> QED
    BY <2>1, <2>2
<1>4. Written(s)' = Written(s) /\ Written(s) \in Nat /\ log' = log /\ packet' = packet
  BY <1>1, WrittenFacts DEF vars, Written
<1> QED
  BY <1>3, <1>4 DEF Continues

LEMMA CaptureExtends ==
  ASSUME RelayInv, RelayInv', FileInv, FileInv',
         Floana \/ \E s \in Sides : Flush(s)
  PROVE  \A s \in Sides : Extends(s)
<1>1. \A s \in Sides : FileShows(s)
  BY FilesShow
<1>2. (RelayInv /\ FileInv)' => (\A s \in Sides : FileShows(s))'
  BY FilesShow, PTL
<1>3. \A s \in Sides : FileShows(s)'
  BY <1>2
<1>4. \A s \in Sides : Continues(s)
  BY FloanaContinues, FlushContinues
<1> QED
  BY <1>1, <1>3, <1>4, ContinuingExtends

-----------------------------------------------------------------------------
(* A reader of a growing capture.                                          *)

\* The one folder there is.
LEMMA TheFolder ==
  ASSUME LR!TypeOK
  PROVE  rFolder = 1 /\ <<Capture>>[rFolder] = Capture
BY DEF LR!TypeOK

LEMMA ReaderInvHoldsAtFirst ==
  ASSUME LiveInit, LR!WellFormed(Capture)
  PROVE  ReaderInv
<1>1. LR!Start
  BY DEF LiveInit, LR!Start, Leticia!Start, LR!Sides, Leticia!Sides
<1>2. /\ rFolder = 1 /\ rPc = "peek" /\ rCur = "client"
      /\ rOffset = [s \in Sides |-> 0] /\ rLastId = -1 /\ rCurId = 0
      /\ rPacket = 0 /\ rEofShown = FALSE
      /\ rReport = [f \in 1 .. 1 |-> "none"]
      /\ rRead = [f \in 1 .. 1 |-> << >>] /\ rLost = FALSE
  BY <1>1, SameSides DEF LR!Start
<1>3. LR!FilesInv
  <2>1. \A f \in 1 .. 1 : <<Capture>>[f] = Capture
    OBVIOUS
  <2> QED
    BY <2>1 DEF LR!FilesInv
<1>4. LR!TypeOK
  <2>1. Capture \in [LR!Sides -> LR!Files]
    BY DEF LR!WellFormed
  <2>2. <<Capture>> \in [1 .. 1 -> [LR!Sides -> LR!Files]]
    BY <2>1
  <2>3. rRead \in [1 .. 1 -> Seq(Nat)]
    <3>1. << >> \in Seq(Nat)
      OBVIOUS
    <3> QED
      BY <1>2, <3>1
  <2>4. rReport \in [1 .. 1 -> {"none", "everything", "cannot"}]
    BY <1>2
  <2>5. rCur \in LR!Sides /\ rOffset \in [LR!Sides -> Nat]
    BY <1>2 DEF LR!Sides, Sides
  <2>6. /\ rFolder \in 1 .. 1 /\ rLastId \in Nat \cup {-1}
        /\ rEofShown \in BOOLEAN /\ rLost \in BOOLEAN
    <3>1. rEofShown \in BOOLEAN /\ rLost \in BOOLEAN
      BY <1>2, Zenon
    <3>2. rFolder \in 1 .. 1
      BY <1>2
    <3>3. rLastId \in Nat \cup {-1}
      BY <1>2
    <3> QED
      BY <3>1, <3>2, <3>3
  <2>7. /\ rPc \in {"peek", "peekAgain", "read", "decrypt", "done", "crashed",
                   "hung"}
        /\ rCurId \in Nat /\ rPacket \in Nat
    BY <1>2
  <2> QED
    BY <2>2, <2>3, <2>4, <2>5, <2>6, <2>7 DEF LR!TypeOK
<1>5. \A s \in Sides : /\ DOMAIN Capture[s].records = {}
                       /\ Len(Capture[s].records) \in Nat
  <2> SUFFICES ASSUME NEW s \in Sides
               PROVE  /\ DOMAIN Capture[s].records = {}
                      /\ Len(Capture[s].records) \in Nat
    OBVIOUS
  <2>1. log[s] = << >> /\ flushed[s] = "nothing"
    BY DEF LiveInit, Init
  <2>2. ~Capture[s].exists
    BY <2>1 DEF Capture
  <2>3. Capture[s].records = << >>
    BY <2>2, SameSides DEF LR!WellFormed
  <2> QED
    BY <2>3
<1>6. LR!OffsetsInv
  BY <1>4, <1>5, TheFolder, SameSides DEF LR!OffsetsInv, LR!CutAt
<1>7. LR!Progress
  BY <1>2, <1>6
     DEF LR!Progress, LR!PeekInv, LR!ReadInv, LR!DecryptInv, LR!PlaceInv,
         LR!CountInv, LR!ReportInv, LR!ReadsInOrder, LR!NeverLosesAnId
<1>8. PassedInv
  <2>1. LR!Cut = 0
    BY <1>2 DEF LR!Cut
  <2> QED
    BY <1>2, <1>5, <2>1 DEF PassedInv
<1> QED
  BY <1>2, <1>3, <1>4, <1>7, <1>8 DEF ReaderInv, EndShownInv

\* A record that is added has an id that the reader has not passed.
LEMMA NewIdsAreBeyond ==
  ASSUME LR!WellFormed(Capture), LR!WellFormed(Capture)',
         \A t \in Sides : Extends(t), NEW s \in Sides,
         NEW i \in DOMAIN Capture'[s].records, i \notin DOMAIN Capture[s].records,
         NEW n \in Nat,
         \A k \in 0 .. n - 1 : \E t \in Sides : k \in LR!Ids(Capture, t)
  PROVE  ~(Capture'[s].records[i].id < n)
<1> DEFINE k == Capture'[s].records[i].id
<1> SUFFICES ASSUME k < n PROVE FALSE
  OBVIOUS
<1>1. PICK c : c = Capture'
  OBVIOUS
<1>2. LR!WellFormed(c)
  BY <1>1
<1>3. k \in Nat /\ i \in 1 .. Len(c[s].records) /\ Len(c[s].records) \in Nat
  BY <1>1, <1>2, SameSides, LR!FolderTypes
<1>4. PICK t \in Sides : k \in LR!Ids(Capture, t)
  BY <1>3
<1>5. PICK j \in DOMAIN Capture[t].records : Capture[t].records[j].id = k
  BY <1>4 DEF LR!Ids
<1>6. j \in DOMAIN c[t].records /\ c[t].records[j].id = k
  BY <1>1, <1>5 DEF Extends
<1>7. CASE t = s
  <2>1. j # i /\ j \in Nat
    BY <1>2, <1>5, <1>6, <1>7, SameSides, LR!FolderTypes
  <2>2. j < i \/ i < j
    BY <1>3, <2>1
  <2>3. c[s].records[i].id # c[s].records[j].id
    <3>1. CASE j < i
      <4>1. c[s].records[j].id < c[s].records[i].id
        BY <1>1, <1>2, <1>6, <1>7, <3>1, SameSides DEF LR!WellFormed
      <4> QED
        BY <1>1, <1>3, <1>6, <1>7, <4>1
    <3>2. CASE i < j
      <4>1. c[s].records[i].id < c[s].records[j].id
        BY <1>1, <1>2, <1>6, <1>7, <3>2, SameSides DEF LR!WellFormed
      <4> QED
        BY <1>1, <1>3, <1>6, <1>7, <4>1
    <3> QED
      BY <2>2, <3>1, <3>2
  <2> QED
    BY <1>1, <1>6, <1>7, <2>3
<1>8. CASE t # s
  <2>1. k \in LR!Ids(c, s) /\ k \in LR!Ids(c, t)
    BY <1>1, <1>6 DEF LR!Ids
  <2>2. \A m \in LR!Ids(c, "client") : m \notin LR!Ids(c, "server")
    BY <1>2 DEF LR!WellFormed
  <2> QED
    BY <1>8, <2>1, <2>2 DEF Sides
<1> QED
  BY <1>7, <1>8

\* What the reader knows of a file stays true of a longer one.
LEMMA GrowthKeepsReader ==
  ASSUME ReaderInv, LR!WellFormed(Capture), LR!WellFormed(Capture)',
         \A t \in Sides : Extends(t), UNCHANGED rVars
  PROVE  ReaderInv'
<1>1. /\ rFolder = 1 /\ <<Capture>>[rFolder] = Capture
      /\ rFolder' = 1 /\ <<Capture'>>[rFolder'] = Capture'
      /\ UNCHANGED <<rFolder, rPc, rCur, rOffset, rLastId, rCurId, rPacket,
                     rEofShown, rReport, rRead, rLost>>
      /\ LR!Cut' = LR!Cut
  <2>1. UNCHANGED <<rFolder, rPc, rCur, rOffset, rLastId, rCurId, rPacket,
                    rEofShown, rReport, rRead, rLost>>
    BY DEF rVars
  <2>2. rFolder = 1 /\ <<Capture>>[rFolder] = Capture
    BY TheFolder DEF ReaderInv
  <2> QED
    BY <2>1, <2>2 DEF LR!Cut
<1>2. PICK c : c = Capture
  OBVIOUS
<1>3. PICK d : d = Capture'
  OBVIOUS
<1>4. LR!WellFormed(c) /\ LR!WellFormed(d)
  BY <1>2, <1>3
<1>5. \A s \in Sides :
        /\ Len(c[s].records) \in Nat /\ DOMAIN c[s].records = 1 .. Len(c[s].records)
        /\ Len(d[s].records) \in Nat /\ DOMAIN d[s].records = 1 .. Len(d[s].records)
        /\ d[s].exists \/ d[s].records = << >>
  BY <1>4, SameSides, LR!FolderTypes DEF LR!WellFormed
<1>6. \A s \in Sides : \A i \in DOMAIN c[s].records :
        i \in DOMAIN d[s].records /\ d[s].records[i].id = c[s].records[i].id
  BY <1>2, <1>3 DEF Extends
<1>7. \A s \in Sides : Len(c[s].records) <= Len(d[s].records)
  <2> SUFFICES ASSUME NEW s \in Sides PROVE Len(c[s].records) <= Len(d[s].records)
    OBVIOUS
  <2>1. \A i \in 1 .. Len(c[s].records) : i \in 1 .. Len(d[s].records)
    BY <1>5, <1>6
  <2>2. Len(c[s].records) \in Nat /\ Len(d[s].records) \in Nat
    BY <1>5
  <2> QED
    BY <2>1, <2>2
<1>8. /\ LR!TypeOK /\ LR!Progress /\ PassedInv /\ EndShownInv
      /\ rOffset \in [Sides -> Nat] /\ rCur \in Sides
      /\ rLastId \in Nat \cup {-1}
  BY SameSides DEF ReaderInv, LR!TypeOK
<1>9. \A s \in Sides : LR!HasRecord(s) =>
        /\ d[s].exists /\ rOffset[s] < Len(d[s].records)
        /\ d[s].records[rOffset[s] + 1].id = LR!NextRecord(s).id
  <2> SUFFICES ASSUME NEW s \in Sides, LR!HasRecord(s)
               PROVE  /\ d[s].exists /\ rOffset[s] < Len(d[s].records)
                      /\ d[s].records[rOffset[s] + 1].id = LR!NextRecord(s).id
    OBVIOUS
  <2>1. rOffset[s] < Len(c[s].records) /\ rOffset[s] \in Nat
    BY <1>1, <1>2, <1>8 DEF LR!HasRecord, LR!Content
  <2>2. rOffset[s] + 1 \in DOMAIN c[s].records
    BY <1>5, <2>1
  <2>3. d[s].records[rOffset[s] + 1].id = c[s].records[rOffset[s] + 1].id
    BY <1>6, <2>2
  <2>4. rOffset[s] < Len(d[s].records)
    BY <1>5, <1>7, <2>1
  <2>5. d[s].exists
    <3>1. d[s].records # << >>
      BY <1>5, <2>1, <2>4
    <3> QED
      BY <1>5, <3>1
  <2> QED
    BY <1>1, <1>2, <2>3, <2>4, <2>5 DEF LR!NextRecord, LR!Content
<1>10. LR!OffsetsInv'
  <2> SUFFICES ASSUME NEW s \in Sides, NEW i \in DOMAIN d[s].records
               PROVE  i <= rOffset[s] <=> d[s].records[i].id < LR!Cut
    BY <1>1, <1>3, SameSides DEF LR!OffsetsInv, LR!CutAt
  <2>1. CASE i \in DOMAIN c[s].records
    <3>1. i <= rOffset[s] <=> c[s].records[i].id < LR!Cut
      BY <1>1, <1>2, <1>8, <2>1, SameSides DEF LR!Progress, LR!OffsetsInv, LR!CutAt
    <3> QED
      BY <1>6, <2>1, <3>1
  <2>2. CASE i \notin DOMAIN c[s].records
    <3>1. LR!Cut \in Nat
      BY <1>8 DEF LR!Cut, LR!Progress, LR!ReadInv
    <3>2. ~(d[s].records[i].id < LR!Cut)
      BY <1>2, <1>3, <1>8, <2>2, <3>1, NewIdsAreBeyond DEF PassedInv
    <3>3. ~(i <= rOffset[s])
      <4>1. rOffset[s] <= Len(c[s].records) /\ rOffset[s] \in Nat
        BY <1>2, <1>8 DEF PassedInv
      <4> QED
        BY <1>5, <2>2, <4>1
    <3> QED
      BY <3>2, <3>3
  <2> QED
    BY <2>1, <2>2
<1>11. LR!PeekInv'
  <2> SUFFICES ASSUME rPc = "peekAgain"
               PROVE  \/ /\ d[rCur].exists /\ rOffset[rCur] < Len(d[rCur].records)
                         /\ d[rCur].records[rOffset[rCur] + 1].id = LR!Cut
                      \/ /\ d[Other(rCur)].exists
                         /\ rOffset[Other(rCur)] < Len(d[Other(rCur)].records)
                         /\ d[Other(rCur)].records[rOffset[Other(rCur)] + 1].id > LR!Cut
    BY <1>1, <1>3, <1>8, SameSides
       DEF LR!PeekInv, LR!HasRecord, LR!NextRecord, LR!Content, LR!Exists
  <2>1. \/ LR!HasRecord(rCur) /\ LR!NextRecord(rCur).id = LR!Cut
        \/ LR!HasRecord(Other(rCur)) /\ LR!NextRecord(Other(rCur)).id > LR!Cut
    BY <1>8, SameSides DEF LR!Progress, LR!PeekInv
  <2>2. rCur \in Sides /\ Other(rCur) \in Sides
    BY <1>8, SidesAreTwo
  <2> QED
    BY <1>9, <2>1, <2>2
<1>12. LR!ReadInv'
  <2> SUFFICES ASSUME rPc = "read"
               PROVE  /\ rLastId \in Nat
                      /\ d[rCur].exists /\ rOffset[rCur] < Len(d[rCur].records)
                      /\ d[rCur].records[rOffset[rCur] + 1].id = rLastId
    BY <1>1, <1>3
       DEF LR!ReadInv, LR!HasRecord, LR!NextRecord, LR!Content, LR!Exists
  <2> QED
    BY <1>8, <1>9 DEF LR!Progress, LR!ReadInv
<1>13. LR!DecryptInv' /\ LR!CountInv' /\ LR!ReportInv' /\ LR!ReadsInOrder'
       /\ LR!NeverLosesAnId'
  BY <1>1, <1>8 DEF LR!Progress, LR!DecryptInv, LR!CountInv, LR!ReportInv,
     LR!ReadsInOrder, LR!NeverLosesAnId
<1>14. \A s \in Sides : \A k \in LR!Ids(c, s) : k \in LR!Ids(d, s)
  BY <1>6 DEF LR!Ids
<1>15. LR!PlaceInv'
  BY <1>1, <1>2, <1>3, <1>8, <1>14 DEF LR!Progress, LR!PlaceInv
<1>16. PassedInv'
  <2>1. \A s \in Sides : rOffset[s] <= Len(d[s].records)
    BY <1>2, <1>5, <1>7, <1>8 DEF PassedInv
  <2>2. \A k \in 0 .. LR!Cut - 1 : \E s \in Sides : k \in LR!Ids(d, s)
    BY <1>2, <1>8, <1>14 DEF PassedInv
  <2> QED
    BY <1>1, <1>3, <2>1, <2>2 DEF PassedInv
<1>17. LR!FilesInv'
  <2>1. \A f \in 1 .. 1 : <<Capture'>>[f] = Capture'
    OBVIOUS
  <2> QED
    BY <2>1 DEF LR!FilesInv
<1>18. LR!TypeOK'
  <2>1. Capture' \in [LR!Sides -> LR!Files]
    BY DEF LR!WellFormed
  <2>2. <<Capture'>> \in [1 .. 1 -> [LR!Sides -> LR!Files]]
    BY <2>1
  <2> QED
    BY <1>1, <1>8, <2>2 DEF LR!TypeOK
<1> QED
  BY <1>1, <1>8, <1>10, <1>11, <1>12, <1>13, <1>15, <1>16, <1>17, <1>18
     DEF ReaderInv, LR!Progress, EndShownInv
-----------------------------------------------------------------------------
(* The steps of the reader.                                                *)

\* The reader of the composition is that of CaptureReader.
LEMMA LeticiaIsTheReader ==
  ASSUME [LeticiaSteps]_liveVars, UNCHANGED <<vars, flushed>>
  PROVE  [LR!Next]_(LR!readerVars)
<1>1. Capture' = Capture
  BY DEF vars, Capture, WholeRecords, Written, PartOfARecord
<1>2. ASSUME NEW r, Leticia!Return(r) PROVE LR!Return(r)
  BY <1>2 DEF Leticia!Return, LR!Return, LR!Sides, Leticia!Sides
<1>3. Leticia!WaitForFile => LR!WaitForFile
  BY DEF Leticia!WaitForFile, LR!WaitForFile, Leticia!Exists, LR!Exists,
     Leticia!readerVars, LR!readerVars
<1>4. Leticia!EndOfFile => LR!EndOfFile
  BY <1>2 DEF Leticia!EndOfFile, LR!EndOfFile, Leticia!AtEnd, LR!AtEnd,
     Leticia!Exists, LR!Exists, Leticia!Content, LR!Content
<1>5. Leticia!CannotReadId => LR!CannotReadId
  BY <1>2 DEF Leticia!CannotReadId, LR!CannotReadId, Leticia!HasRecord, LR!HasRecord,
     Leticia!Exists, LR!Exists, Leticia!Content, LR!Content, Leticia!NextRecord,
     LR!NextRecord
<1>6. Leticia!Peek => LR!Peek
  BY DEF Leticia!Peek, LR!Peek, Leticia!HasRecord, LR!HasRecord,
     Leticia!Exists, LR!Exists, Leticia!Content, LR!Content, Leticia!NextRecord,
     LR!NextRecord, Leticia!Other, LR!Other, Leticia!histories, LR!histories
<1>7. Leticia!PeekAgain => LR!PeekAgain
  BY DEF Leticia!PeekAgain, LR!PeekAgain, Leticia!HasRecord, LR!HasRecord,
     Leticia!Exists, LR!Exists, Leticia!Content, LR!Content, Leticia!NextRecord,
     LR!NextRecord, Leticia!Other, LR!Other
<1>8. Leticia!ReadRecord => LR!ReadRecord
  BY DEF Leticia!ReadRecord, LR!ReadRecord, Leticia!HasRecord, LR!HasRecord,
     Leticia!Exists, LR!Exists, Leticia!Content, LR!Content, Leticia!NextRecord,
     LR!NextRecord, Leticia!histories, LR!histories
<1>9. Leticia!CannotReadRecord => LR!CannotReadRecord
  BY <1>2 DEF Leticia!CannotReadRecord, LR!CannotReadRecord, Leticia!HasRecord,
     LR!HasRecord, Leticia!Exists, LR!Exists, Leticia!Content, LR!Content,
     Leticia!NextRecord, LR!NextRecord
<1>10. Leticia!Decrypt => LR!Decrypt
  BY DEF Leticia!Decrypt, LR!Decrypt
<1>11. ~Leticia!DecryptFails /\ ~Leticia!DecryptCrashes /\ ~Leticia!DecryptHangs
  BY DEF Leticia!DecryptFails, Leticia!DecryptCrashes, Leticia!DecryptHangs
<1>12. Leticia!Over => LR!Over
  BY DEF Leticia!Over, LR!Over, Leticia!readerVars, LR!readerVars
<1>13. UNCHANGED liveVars => UNCHANGED LR!readerVars
  BY <1>1 DEF liveVars, rVars, LR!readerVars
<1> QED
  BY <1>3, <1>4, <1>5, <1>6, <1>7, <1>8, <1>9, <1>10, <1>11, <1>12, <1>13
     DEF LeticiaSteps, Leticia!Reading, LR!Next, LR!Reading

\* What the reader has passed, step by step.
LEMMA ReadingKeepsPassed ==
  ASSUME ReaderInv, LR!Progress', Capture' = Capture, [LR!Next]_(LR!readerVars)
  PROVE  PassedInv' /\ EndShownInv'
<1>1. /\ LR!TypeOK /\ LR!FilesInv /\ LR!Progress /\ PassedInv /\ EndShownInv
      /\ rFolder = 1 /\ <<Capture>>[rFolder] = Capture
      /\ rOffset \in [Sides -> Nat] /\ rCur \in Sides
      /\ rLastId \in Nat \cup {-1} /\ rEofShown \in BOOLEAN
  BY TheFolder, SameSides DEF ReaderInv, LR!TypeOK
<1>2. LR!WellFormed(Capture)
  BY <1>1, LR!CurrentFolder
<1>3. \A s \in Sides : Len(Capture[s].records) \in Nat
  BY <1>2, SameSides, LR!FolderTypes
<1>4. ASSUME NEW r, LR!Return(r)
      PROVE  PassedInv' /\ rPc' = "done"
  <2>1. /\ rPc' = "done" /\ rLastId' = -1
        /\ rOffset' = [s \in Sides |-> 0]
    BY <1>1, <1>4, SameSides DEF LR!Return
  <2>2. LR!Cut' = 0
    BY <2>1 DEF LR!Cut
  <2>3. \A k \in 0 .. LR!Cut' - 1 : FALSE
    BY <2>2
  <2>4. \A s \in Sides : rOffset'[s] <= Len(Capture[s].records)
    BY <1>3, <2>1
  <2> QED
    BY <2>1, <2>3, <2>4 DEF PassedInv
<1>5. CASE LR!EndOfFile
  BY <1>4, <1>5 DEF LR!EndOfFile, EndShownInv
<1>6. CASE LR!CannotReadId \/ LR!CannotReadRecord
  BY <1>4, <1>6 DEF LR!CannotReadId, LR!CannotReadRecord, EndShownInv
<1>7. CASE LR!DecryptFails \/ LR!DecryptCrashes \/ LR!DecryptHangs
  BY <1>7 DEF LR!DecryptFails, LR!DecryptCrashes, LR!DecryptHangs
<1>8. CASE LR!Peek
  <2>1. LR!Cut' = LR!Cut /\ rOffset' = rOffset
    BY <1>8 DEF LR!Peek, LR!Cut
  <2> QED
    BY <1>1, <1>8, <2>1 DEF LR!Peek, PassedInv, EndShownInv
<1>9. CASE LR!PeekAgain
  <2>1. rLost' = (rLost \/ rCurId' # rLastId + 1) /\ ~rLost'
    BY <1>9 DEF LR!PeekAgain, LR!Progress, LR!NeverLosesAnId
  <2>2. rLastId' = rLastId + 1 /\ rOffset' = rOffset
    BY <1>9, <2>1 DEF LR!PeekAgain
  <2>3. LR!Cut' = LR!Cut
    BY <1>9, <2>2 DEF LR!PeekAgain, LR!Cut
  <2> QED
    BY <1>1, <1>9, <2>2, <2>3 DEF LR!PeekAgain, PassedInv, EndShownInv
<1>10. CASE LR!ReadRecord
  <2>1. /\ rLastId \in Nat /\ LR!HasRecord(rCur) /\ LR!NextRecord(rCur).id = rLastId
        /\ LR!Cut = rLastId /\ LR!Cut' = rLastId + 1
        /\ rOffset' = [rOffset EXCEPT ![rCur] = @ + 1]
    BY <1>1, <1>10 DEF LR!ReadRecord, LR!Progress, LR!ReadInv, LR!Cut
  <2>2. rLastId \in LR!Ids(Capture, rCur)
    BY <1>1, <2>1, SameSides, LR!NextIds
  <2>3. \A s \in Sides : rOffset'[s] <= Len(Capture[s].records)
    <3> SUFFICES ASSUME NEW s \in Sides PROVE rOffset'[s] <= Len(Capture[s].records)
      OBVIOUS
    <3>1. CASE s = rCur
      <4>1. rOffset[s] < Len(Capture[s].records) /\ rOffset'[s] = rOffset[s] + 1
        BY <1>1, <2>1, <3>1 DEF LR!HasRecord, LR!Content
      <4> QED
        BY <1>1, <1>3, <4>1
    <3>2. CASE s # rCur
      BY <1>1, <2>1, <3>2 DEF PassedInv
    <3> QED
      BY <3>1, <3>2
  <2>4. \A k \in 0 .. LR!Cut' - 1 : \E s \in Sides : k \in LR!Ids(Capture, s)
    <3> SUFFICES ASSUME NEW k \in 0 .. rLastId
                 PROVE  \E s \in Sides : k \in LR!Ids(Capture, s)
      BY <2>1
    <3>1. k = rLastId \/ k \in 0 .. LR!Cut - 1
      BY <2>1
    <3> QED
      BY <1>1, <2>2, <3>1 DEF PassedInv
  <2>5. PassedInv'
    BY <2>3, <2>4 DEF PassedInv
  <2> QED
    BY <1>10, <2>5 DEF LR!ReadRecord, EndShownInv
<1>11. CASE LR!Decrypt
  <2>1. LR!Cut' = LR!Cut /\ rOffset' = rOffset
    BY <1>11 DEF LR!Decrypt, LR!Cut
  <2>2. ~rEofShown
    BY <1>1, <1>11 DEF LR!Decrypt, EndShownInv
  <2> QED
    BY <1>1, <1>11, <2>1, <2>2 DEF LR!Decrypt, PassedInv, EndShownInv
<1>12. CASE LR!WaitForFile \/ LR!Over \/ UNCHANGED LR!readerVars
  <2>1. LR!Cut' = LR!Cut /\ rOffset' = rOffset /\ rEofShown' = rEofShown /\ rPc' = rPc
    BY <1>12 DEF LR!WaitForFile, LR!Over, LR!readerVars, LR!Cut
  <2> QED
    BY <1>1, <2>1 DEF PassedInv, EndShownInv
<1> QED
  BY <1>5, <1>6, <1>7, <1>8, <1>9, <1>10, <1>11, <1>12 DEF LR!Next, LR!Reading

LEMMA ReadingKeepsReader ==
  ASSUME ReaderInv, [LeticiaSteps]_liveVars, UNCHANGED <<vars, flushed>>
  PROVE  ReaderInv'
<1>1. [LR!Next]_(LR!readerVars)
  BY LeticiaIsTheReader
<1>2. LR!TypeOK' /\ LR!FilesInv'
  BY <1>1, LR!TypesArePreserved DEF ReaderInv
<1>3. LR!Progress'
  BY <1>1, LR!ProgressIsPreserved DEF ReaderInv
<1>4. Capture' = Capture
  BY DEF vars, Capture, WholeRecords, Written, PartOfARecord
<1>5. PassedInv' /\ EndShownInv'
  BY <1>1, <1>3, <1>4, ReadingKeepsPassed
<1> QED
  BY <1>2, <1>3, <1>5 DEF ReaderInv

LEMMA ReaderInvIsPreserved ==
  ASSUME RelayInv, RelayInv', FileInv, FileInv', ReaderInv, [LiveNext]_liveVars
  PROVE  ReaderInv'
<1>1. CASE Floana \/ \E s \in Sides : Flush(s)
  <2>1. LR!WellFormed(Capture)
    BY CaptureHasTheForm
  <2>2. (RelayInv /\ FileInv)' => LR!WellFormed(Capture)'
    BY CaptureHasTheForm, PTL
  <2>3. UNCHANGED rVars
    BY <1>1 DEF Floana, Flush
  <2> QED
    BY <1>1, <2>1, <2>2, <2>3, CaptureExtends, GrowthKeepsReader
<1>2. CASE LeticiaSteps
  BY <1>2, ReadingKeepsReader DEF LeticiaSteps
<1>3. CASE UNCHANGED liveVars
  <2>1. UNCHANGED <<vars, flushed>>
    BY <1>3 DEF liveVars
  <2> QED
    BY <1>3, <2>1, ReadingKeepsReader
<1> QED
  BY <1>1, <1>2, <1>3 DEF LiveNext

LEMMA ReaderInvHolds == LiveSpec => []ReaderInv
<1>1. LiveInit /\ RelayInv /\ FileInv => ReaderInv
  BY CaptureHasTheForm, ReaderInvHoldsAtFirst
<1>2. RelayInv /\ RelayInv' /\ FileInv /\ FileInv' /\ ReaderInv /\ [LiveNext]_liveVars
        => ReaderInv'
  BY ReaderInvIsPreserved
<1> QED
  BY <1>1, <1>2, RelayInvHolds, FileInvHolds, PTL DEF LiveSpec

\* Reading while the proxy writes processes the records in the order of their
\* ids, each once and none skipped (Leticia.c:89-169).
THEOREM ReadsInOrderLiveAlways == LiveSpec => []ReadsInOrderLive
<1>1. ReaderInv => ReadsInOrderLive
  BY DEF ReaderInv, LR!Progress, LR!ReadsInOrder, ReadsInOrderLive,
     Leticia!ReadsInOrder
<1> QED
  BY <1>1, ReaderInvHolds, PTL

\* Whichever listener falls behind, the reader never loses an id: it stops
\* instead (Leticia.c:137-143).
THEOREM NeverLosesAnIdLiveAlways == LiveSpec => []NeverLosesAnIdLive
<1>1. ReaderInv => NeverLosesAnIdLive
  BY DEF ReaderInv, LR!Progress, LR!NeverLosesAnId, NeverLosesAnIdLive,
     Leticia!NeverLosesAnId
<1> QED
  BY <1>1, ReaderInvHolds, PTL

-----------------------------------------------------------------------------
(* When the folder is reported as unreadable.                              *)

\* A record of the capture that cannot be read is one in the making.
LEMMA CutRecordsAreParts ==
  ASSUME RelayInv, FileInv, NEW s \in Sides, NEW i \in DOMAIN Capture[s].records,
         Capture[s].records[i].cut # "none"
  PROVE  HasPart(s)
<1>1. CaptureShape(s)
  BY CaptureShapes
<1> QED
  BY <1>1, CaptureFields

LEMMA CannotStep ==
  ASSUME RelayInv, FileInv, ReaderInv, [LiveNext]_liveVars,
         rReport # rReport', rReport'[1] = "cannot"
  PROVE  \E s \in Sides : HasPart(s)
<1>1. LeticiaSteps
  BY DEF LiveNext, Floana, Flush, liveVars, rVars
<1>2. [LR!Next]_(LR!readerVars)
  BY <1>1, LeticiaIsTheReader DEF LeticiaSteps
<1>3. /\ LR!TypeOK /\ EndShownInv /\ rFolder = 1 /\ <<Capture>>[rFolder] = Capture
      /\ rOffset \in [Sides -> Nat] /\ rCur \in Sides
      /\ rReport \in [1 .. 1 -> {"none", "everything", "cannot"}]
  BY TheFolder, SameSides DEF ReaderInv, LR!TypeOK
<1>4. LR!CannotReadId \/ LR!CannotReadRecord
  <2>1. CASE LR!EndOfFile
    <3>1. LR!Return("everything")
      BY <1>3, <2>1 DEF LR!EndOfFile, EndShownInv
    <3>2. rReport'[1] = "everything"
      BY <1>3, <3>1 DEF LR!Return
    <3> QED
      BY <3>2
  <2>2. CASE LR!DecryptFails \/ LR!DecryptCrashes \/ LR!DecryptHangs
    BY <2>2 DEF LR!DecryptFails, LR!DecryptCrashes, LR!DecryptHangs
  <2>3. CASE LR!WaitForFile \/ LR!Peek \/ LR!PeekAgain \/ LR!ReadRecord \/ LR!Decrypt
             \/ LR!Over \/ UNCHANGED LR!readerVars
    BY <2>3 DEF LR!WaitForFile, LR!Peek, LR!PeekAgain, LR!ReadRecord, LR!Decrypt,
       LR!Over, LR!readerVars, LR!histories
  <2> QED
    BY <1>2, <2>1, <2>2, <2>3 DEF LR!Next, LR!Reading
<1>5. LR!HasRecord(rCur) /\ LR!NextRecord(rCur).cut # "none"
  BY <1>4 DEF LR!CannotReadId, LR!CannotReadRecord
<1>6. rOffset[rCur] + 1 \in DOMAIN Capture[rCur].records
  <2>1. rOffset[rCur] < Len(Capture[rCur].records) /\ rOffset[rCur] \in Nat
    BY <1>3, <1>5 DEF LR!HasRecord, LR!Content
  <2>2. FileShows(rCur)
    BY <1>3, FilesShow
  <2> QED
    BY <2>1, <2>2 DEF FileShows
<1>7. Capture[rCur].records[rOffset[rCur] + 1].cut # "none"
  BY <1>3, <1>5 DEF LR!NextRecord, LR!Content
<1> QED
  BY <1>3, <1>6, <1>7, CutRecordsAreParts

\* The reader calls the folder unreadable only while a record is unfinished: the
\* end of a file, a file that is not there yet and a listener that lags do not make
\* it say so (RawPacket.c:93-131, Leticia.c:108-112, 150-153).
THEOREM UnreadableIsUnfinishedAlways == LiveSpec => UnreadableIsUnfinished
<1>1. RelayInv /\ FileInv /\ ReaderInv /\ [LiveNext]_liveVars
        => [rReport # rReport' /\ rReport'[1] = "cannot" =>
              \E s \in Sides : flushed[s] \in {"beforeId", "afterId"}]_liveVars
  BY CannotStep DEF HasPart
<1> QED
  BY <1>1, RelayInvHolds, FileInvHolds, ReaderInvHolds, PTL
     DEF LiveSpec, UnreadableIsUnfinished

=============================================================================
