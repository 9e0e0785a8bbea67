------------------------------ MODULE SecondRun -----------------------------
(***************************************************************************)
(* Leticia on a folder that two runs of the same proxy have written to.    *)
(* Whenever the client is sent to a zone server, ZoneProxy asks for a      *)
(* Floana started with "zone continue" (ZoneProxy.c:59, 83): that process  *)
(* joins the newest session, finds the capture files of the zone proxy     *)
(* before it, appends to them, and numbers its chunks from 0 again.        *)
(* CaptureReader is about folders of one run; here are those of two,       *)
(* nothing missing in either.                                              *)
(***************************************************************************)
EXTENDS Integers, SequencesExt

CONSTANT MaxIds   \* bound: the ids drawn by a run

VARIABLES
  first,          \* how many records of each file are of the first run
  file, folder, pc, cur, offset, lastId, curId, packet, eofShown, report, read,
  lost            \* those of CaptureReader

Leticia == INSTANCE CaptureReader WITH
  Folders <- 1, Captures <- {}, LeticiaFaults <- {}

\* The ids 0, 1, ... of a run, as far as this side drew them.
Drawn(drawer, s) ==
  LET mine == SetToSortSeq({n \in DOMAIN drawer : drawer[n] = s}, <)
  IN  [i \in DOMAIN mine |-> [id |-> mine[i], cut |-> "none"]]

\* rawPacketWriteToFile appends to a file that is there.
Appended(drawer1, drawer2) ==
  [s \in Leticia!Sides |->
     LET records == Drawn(drawer1, s) \o Drawn(drawer2, s)
     IN  [exists |-> records # << >>, records |-> records]]

Init ==
  /\ \E k1, k2 \in 1 .. MaxIds :
       \E drawer1 \in [0 .. k1 - 1 -> Leticia!Sides],
          drawer2 \in [0 .. k2 - 1 -> Leticia!Sides] :
         /\ file = <<Appended(drawer1, drawer2)>>
         /\ first = [s \in Leticia!Sides |-> Len(Drawn(drawer1, s))]
  /\ Leticia!Start

Next == UNCHANGED first /\ Leticia!Next

Spec == Init /\ [][Next]_<<first, Leticia!readerVars>>

\* The records of one file the reader has taken, as positions in that file.
Taken(s) == 1 .. offset[s]
IdAt(s, i) == file[1][s].records[i].id

\* What the test of the ids ("Check if it is correct", Leticia.c:113, 137) is
\* good for when every id is there twice: as long as the reader reports nothing
\* it processes the ids 0, 1, 2, ..., and it goes over to the records of the
\* second run once and for all.  It may do so too early: records of the first
\* run that are left then are never processed.
SilentlyReadIdsFollow ==
  ~lost =>
    /\ \A i \in DOMAIN read[1] : read[1][i] = i - 1
    /\ \A s, t \in Leticia!Sides : \A i \in Taken(s), j \in Taken(t) :
         i <= first[s] /\ j > first[t] => IdAt(s, i) < IdAt(t, j)

=============================================================================
