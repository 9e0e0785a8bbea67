----------------------------- MODULE LiveCapture ----------------------------
(***************************************************************************)
(* Floana and Leticia at work on the same folder: the proxy of Relay       *)
(* appends to the two capture files while the reader of CaptureReader,     *)
(* another process that shares no lock with it, opens and reads them.      *)
(***************************************************************************)
EXTENDS Relay

\* The capture on disk is exactly what was written to it.
ASSUME LiveAssumption == "flush" \notin Faults

VARIABLES
  flushed,   \* what the file holds of a record that is not whole
  rFolder, rPc, rCur, rOffset, rLastId, rCurId, rPacket, rEofShown, rReport,
  rRead, rLost

rVars == <<rFolder, rPc, rCur, rOffset, rLastId, rCurId, rPacket, rEofShown,
           rReport, rRead, rLost>>
liveVars == <<vars, flushed, rVars>>

\* The files as the other process sees them: only the last record of a log can
\* be one that is not whole (CutRecordIsLast).
Written(s) ==
  IF log[s] # << >> /\ ~log[s][Len(log[s])].whole THEN Len(log[s]) - 1
  ELSE Len(log[s])

WholeRecords(s) == [i \in 1 .. Written(s) |-> [id |-> log[s][i].id, cut |-> "none"]]

PartOfARecord(s) ==
  IF flushed[s] \in {"beforeId", "afterId"}
    THEN <<[id |-> packet[s].id, cut |-> flushed[s]]>>
    ELSE << >>

Capture ==
  [s \in Sides |->
     [exists  |-> log[s] # << >> \/ flushed[s] # "nothing",
      records |-> WholeRecords(s) \o PartOfARecord(s)]]

Leticia == INSTANCE CaptureReader WITH
  Folders <- 1, Captures <- {}, LeticiaFaults <- {},
  file <- <<Capture>>,
  folder <- rFolder, pc <- rPc, cur <- rCur, offset <- rOffset,
  lastId <- rLastId, curId <- rCurId, packet <- rPacket,
  eofShown <- rEofShown, report <- rReport, read <- rRead, lost <- rLost

LiveInit ==
  /\ Init
  /\ flushed = [s \in Sides |-> "nothing"]
  /\ Leticia!Start

\* A write that comes to its end leaves no part of a record; one that fails or
\* is cut short leaves what has been flushed.
Settle ==
  flushed' = [s \in Sides |->
                IF Written(s)' > Written(s) THEN "nothing" ELSE flushed[s]]

Floana ==
  /\ \/ Main
     \/ \E s \in Sides : \/ Receive(s) \/ ReceiveFails(s)
                         \/ Step(s) \/ Die(s) \/ PeerCloses(s)
  /\ Settle
  /\ UNCHANGED rVars

\* fopen creates the file if it is not there, and the record reaches it buffer
\* by buffer.
Flush(s) ==
  /\ pc[s] = "write"
  /\ \E step \in {<<"nothing", "created">>, <<"created", "beforeId">>,
                  <<"created", "afterId">>, <<"beforeId", "afterId">>} :
       /\ flushed[s] = step[1]
       /\ flushed' = [flushed EXCEPT ![s] = step[2]]
  /\ UNCHANGED <<vars, rVars>>

LeticiaSteps ==
  /\ UNCHANGED <<vars, flushed>>
  /\ Leticia!Reading \/ Leticia!Over

LiveNext == Floana \/ (\E s \in Sides : Flush(s)) \/ LeticiaSteps

LiveSpec == LiveInit /\ [][LiveNext]_liveVars

-----------------------------------------------------------------------------
(* Correctness.                                                            *)

\* Whatever moment the reader picks, what Floana has on disk is a capture of
\* the form CaptureReader assumes: the proxy guarantees what the reader relies
\* on (Floana.c:190-198 against Leticia.c:137-143).
CaptureIsWellFormed == Leticia!WellFormed(Capture)

\* Reading while the proxy writes processes the records in order, each once
\* and none skipped (Leticia.c:89-169).
ReadsInOrderLive == Leticia!ReadsInOrder

\* Whichever of the two listeners falls behind the other between drawing an id
\* and writing it, the reader never takes the branch that says it cannot find an
\* id: it stops instead (Leticia.c:137-143).
NeverLosesAnIdLive == Leticia!NeverLosesAnId

\* The reader reports a folder as unreadable only at a moment at which a record
\* is unfinished.
UnreadableIsUnfinished ==
  [][rReport # rReport' /\ rReport'[1] = "cannot" =>
       \E s \in Sides : flushed[s] \in {"beforeId", "afterId"}]_liveVars

=============================================================================
