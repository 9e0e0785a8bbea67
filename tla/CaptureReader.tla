---------------------------- MODULE CaptureReader ---------------------------
(***************************************************************************)
(* Leticia (src/src/Leticia-Decryptor/Leticia.c) reading captures back.    *)
(*                                                                         *)
(* For each proxy folder the metadata names, read_packets follows the ids  *)
(* 0, 1, 2, ... through the two files of the folder: it stays in the       *)
(* current file while that one has the next id and turns to the other one  *)
(* when it has not.  The functions of RawPacket.c open the file anew for   *)
(* every record, wait while it does not exist, and remember in a static    *)
(* variable whether the last open was at the end of a file.                *)
(***************************************************************************)
EXTENDS Integers, Sequences

CONSTANTS
  Folders,       \* how many proxy folders the metadata names
  Captures,      \* what a folder can hold when Leticia starts
  LeticiaFaults  \* what decrypting a record can do: "refuse", "crash", "hang"

Sides == {"client", "server"}
Other(s) == IF s = "client" THEN "server" ELSE "client"

Cuts == {"none", "beforeId", "afterId"}    \* where the writer was stopped
Records == [id : Nat, cut : Cuts]
Files == [exists : BOOLEAN, records : Seq(Records)]

Ids(c, s) == {c[s].records[i].id : i \in DOMAIN c[s].records}

\* What a run of Floana leaves in a folder: ids that order the records of both
\* files, and that miss an id only at the end of a file.
WellFormed(c) ==
  /\ c \in [Sides -> Files]
  /\ \A s \in Sides : c[s].exists \/ c[s].records = << >>
  /\ \A s \in Sides : \A i, j \in DOMAIN c[s].records :
       i < j => c[s].records[i].id < c[s].records[j].id
  /\ \A n \in Ids(c, "client") : n \notin Ids(c, "server")
  /\ \A s \in Sides : \A m \in Ids(c, s) : \A n \in 0 .. m :
       \/ \E t \in Sides : n \in Ids(c, t)
       \/ \A k \in Ids(c, Other(s)) : k < n

ASSUME ReaderAssumption ==
  /\ Folders \in Nat \ {0}
  /\ \A c \in Captures : WellFormed(c)
  /\ LeticiaFaults \subseteq {"refuse", "crash", "hang"}

VARIABLES
  file,      \* the two files of each folder
  folder,    \* the folder main is at
  pc,        \* where read_packets is
  cur,       \* rawCapture: the side of the current file
  offset,    \* recvOffset and sendOffset, in records
  lastId,    \* lastPacketId
  curId,     \* curPacketId
  packet,    \* the id of the packet read
  eofShown,  \* the static eofDisplayed of rawPacketFileOpen
  report,    \* what main printed about each folder
  read,      \* history: the ids processed in each folder
  lost       \* history: "Can't find packet ID" was printed

histories == <<report, read, lost>>
readerVars == <<file, folder, pc, cur, offset, lastId, curId, packet, eofShown,
                report, read, lost>>

Start ==
  /\ folder = 1
  /\ pc = "peek"
  /\ cur = "client"
  /\ offset = [s \in Sides |-> 0]
  /\ lastId = -1
  /\ curId = 0
  /\ packet = 0
  /\ eofShown = FALSE
  /\ report = [f \in 1 .. Folders |-> "none"]
  /\ read = [f \in 1 .. Folders |-> << >>]
  /\ lost = FALSE

Init ==
  /\ file \in [1 .. Folders -> Captures]
  /\ Start

-----------------------------------------------------------------------------
(* The files, as the functions of RawPacket.c see them.                    *)

Exists(s) == file[folder][s].exists
Content(s) == file[folder][s].records
AtEnd(s) == Exists(s) /\ offset[s] >= Len(Content(s))
HasRecord(s) == Exists(s) /\ offset[s] < Len(Content(s))
NextRecord(s) == Content(s)[offset[s] + 1]

-----------------------------------------------------------------------------
(* read_packets.                                                           *)

\* Mutant: main goes on after the last folder.
ReturnGoesPastTheLast(r) ==
  /\ report' = [report EXCEPT ![folder] = r]
  /\ cur' = "client"
  /\ offset' = [s \in Sides |-> 0]
  /\ lastId' = -1
  /\ curId' = 0
  /\ folder' = folder + 1 /\ pc' = "peek"
  /\ UNCHANGED <<file, packet, read, lost>>

\* read_packets returns, main prints its report and goes to the next folder.
Return(r) ==
  /\ report' = [report EXCEPT ![folder] = r]
  /\ cur' = "client"
  /\ offset' = [s \in Sides |-> 0]
  /\ lastId' = -1
  /\ curId' = 0
  /\ IF folder < Folders
       THEN folder' = folder + 1 /\ pc' = "peek"
       ELSE UNCHANGED folder /\ pc' = "done"
  /\ UNCHANGED <<file, packet, read, lost>>

\* rawPacketFileOpen finds no file and sleeps.
WaitForFile ==
  /\ pc \in {"peek", "peekAgain"}
  /\ ~Exists(cur)
  /\ UNCHANGED readerVars

\* Mutants: the end of a file is an error; the reader waits for more records.
EndOfFileIsAnError ==
  /\ pc \in {"peek", "peekAgain"}
  /\ AtEnd(cur)
  /\ Return("cannot")
  /\ eofShown' = TRUE
EndOfFileWaits ==
  /\ pc \in {"peek", "peekAgain"}
  /\ AtEnd(cur)
  /\ UNCHANGED readerVars

\* The current file has no more records: "Everything has been read", or an error
\* if the open before this one was at the end of a file, too.
EndOfFile ==
  /\ pc \in {"peek", "peekAgain"}
  /\ AtEnd(cur)
  /\ Return(IF eofShown THEN "cannot" ELSE "everything")
  /\ eofShown' = TRUE

CannotReadId ==
  /\ pc \in {"peek", "peekAgain"}
  /\ HasRecord(cur) /\ NextRecord(cur).cut = "beforeId"
  /\ Return("cannot")
  /\ eofShown' = FALSE

\* Mutant: the reader looks twice at the same file.
PeekWithoutTurning ==
  /\ pc = "peek"
  /\ HasRecord(cur) /\ NextRecord(cur).cut # "beforeId"
  /\ curId' = NextRecord(cur).id
  /\ pc' = "peekAgain"
  /\ eofShown' = FALSE
  /\ UNCHANGED <<file, folder, cur, offset, lastId, packet, histories>>

\* Mutant: rawPacketFileOpen does not forget the end of the folder before.
PeekRemembersTheEnd ==
  /\ pc = "peek"
  /\ HasRecord(cur) /\ NextRecord(cur).cut # "beforeId"
  /\ curId' = NextRecord(cur).id
  /\ cur' = IF curId' = lastId + 1 THEN cur ELSE Other(cur)
  /\ pc' = "peekAgain"
  /\ UNCHANGED <<file, folder, offset, lastId, packet, eofShown, histories>>

\* The id in the current file; if it is not the next one, the reader turns to
\* the other file.
Peek ==
  /\ pc = "peek"
  /\ HasRecord(cur) /\ NextRecord(cur).cut # "beforeId"
  /\ curId' = NextRecord(cur).id
  /\ cur' = IF curId' = lastId + 1 THEN cur ELSE Other(cur)
  /\ pc' = "peekAgain"
  /\ eofShown' = FALSE
  /\ UNCHANGED <<file, folder, offset, lastId, packet, histories>>

\* Mutant: the reader does not check the second id.
PeekAgainUnchecked ==
  /\ pc = "peekAgain"
  /\ HasRecord(cur) /\ NextRecord(cur).cut # "beforeId"
  /\ curId' = NextRecord(cur).id
  /\ lastId' = curId'
  /\ pc' = "read"
  /\ eofShown' = FALSE
  /\ UNCHANGED <<file, folder, cur, offset, packet, histories>>

\* The id in what is now the current file; if it is not the next one either,
\* the reader says so, turns back and goes on from the id it just saw.
PeekAgain ==
  /\ pc = "peekAgain"
  /\ HasRecord(cur) /\ NextRecord(cur).cut # "beforeId"
  /\ curId' = NextRecord(cur).id
  /\ cur' = IF curId' = lastId + 1 THEN cur ELSE Other(cur)
  /\ lost' = (lost \/ curId' # lastId + 1)
  /\ lastId' = curId'
  /\ pc' = "read"
  /\ eofShown' = FALSE
  /\ UNCHANGED <<file, folder, offset, packet, report, read>>

\* Mutant: the offset that advances is that of the other file.
ReadAdvancesTheOther ==
  /\ pc = "read"
  /\ HasRecord(cur) /\ NextRecord(cur).cut = "none"
  /\ packet' = NextRecord(cur).id
  /\ offset' = [offset EXCEPT ![Other(cur)] = @ + 1]
  /\ pc' = "decrypt"
  /\ eofShown' = FALSE
  /\ UNCHANGED <<file, folder, cur, lastId, curId, histories>>

\* rawPacketReadFromFile returns 1.
ReadRecord ==
  /\ pc = "read"
  /\ HasRecord(cur) /\ NextRecord(cur).cut = "none"
  /\ packet' = NextRecord(cur).id
  /\ offset' = [offset EXCEPT ![cur] = @ + 1]
  /\ pc' = "decrypt"
  /\ eofShown' = FALSE
  /\ UNCHANGED <<file, folder, cur, lastId, curId, histories>>

\* Mutant: a record that cannot be read ends the file.
CutRecordEndsTheFile ==
  /\ pc = "read"
  /\ HasRecord(cur) /\ NextRecord(cur).cut # "none"
  /\ Return("everything")
  /\ eofShown' = FALSE

\* rawPacketReadFromFile returns 0.
CannotReadRecord ==
  /\ pc = "read"
  /\ HasRecord(cur) /\ NextRecord(cur).cut # "none"
  /\ Return("cannot")
  /\ eofShown' = FALSE

\* foreachDecryptedPacket hands the packets of the record to the writer.
Decrypt ==
  /\ pc = "decrypt"
  /\ read' = [read EXCEPT ![folder] = Append(@, packet)]
  /\ pc' = "peek"
  /\ UNCHANGED <<file, folder, cur, offset, lastId, curId, packet, eofShown,
                 report, lost>>

\* foreachDecryptedPacket returns 0.
DecryptFails ==
  /\ "refuse" \in LeticiaFaults
  /\ pc = "decrypt"
  /\ Return("cannot")
  /\ UNCHANGED eofShown

\* foreachDecryptedPacket copies the packet, whose bufferSize and cursor nobody
\* set on this path, and does not survive what happens to be there.
DecryptCrashes ==
  /\ "crash" \in LeticiaFaults
  /\ pc = "decrypt"
  /\ pc' = "crashed"
  /\ UNCHANGED <<file, folder, cur, offset, lastId, curId, packet, eofShown,
                 histories>>

\* The loop over the packets of a chunk does not get past one of size zero.
DecryptHangs ==
  /\ "hang" \in LeticiaFaults
  /\ pc = "decrypt"
  /\ pc' = "hung"
  /\ UNCHANGED <<file, folder, cur, offset, lastId, curId, packet, eofShown,
                 histories>>

Over == pc \in {"done", "crashed", "hung"} /\ UNCHANGED readerVars

Reading ==
  \/ WaitForFile \/ EndOfFile \/ CannotReadId \/ Peek \/ PeekAgain
  \/ ReadRecord \/ CannotReadRecord
  \/ Decrypt \/ DecryptFails \/ DecryptCrashes \/ DecryptHangs

Next == Reading \/ Over

Spec == Init /\ [][Next]_readerVars

FairSpec == Spec /\ WF_readerVars(Reading)

-----------------------------------------------------------------------------
(* Correctness.                                                            *)

TypeOK ==
  /\ file \in [1 .. Folders -> [Sides -> Files]]
  /\ folder \in 1 .. Folders
  /\ pc \in {"peek", "peekAgain", "read", "decrypt", "done", "crashed",
            "hung"}
  /\ cur \in Sides
  /\ offset \in [Sides -> Nat]
  /\ lastId \in Nat \cup {-1}
  /\ curId \in Nat
  /\ packet \in Nat
  /\ eofShown \in BOOLEAN
  /\ report \in [1 .. Folders -> {"none", "everything", "cannot"}]
  /\ read \in [1 .. Folders -> Seq(Nat)]
  /\ lost \in BOOLEAN

\* The records of a folder are processed in the order in which the proxy
\* numbered them, each once and none skipped, although they are spread over two
\* files and read with two offsets (Leticia.c:89-169).
ReadsInOrder ==
  \A f \in 1 .. Folders : \A i \in DOMAIN read[f] : read[f][i] = i - 1

\* On what a proxy leaves behind the reader never takes the branch that says
\* it cannot find an id and reads on from the wrong one (Leticia.c:137-145).
NeverLosesAnId == ~lost

\* "Everything has been read" of a folder means this much: one of its files was
\* processed to its end, and the next id is in no file or is the one that
\* follows the last of that file.
StopsWhenAFileRunsDry ==
  \A f \in 1 .. Folders : report[f] = "everything" =>
    LET next == Len(read[f])
    IN  \E s \in Sides :
          /\ file[f][s].exists
          /\ \A m \in Ids(file[f], s) : m < next
          /\ \/ next - 1 \in Ids(file[f], s) \cup {-1}
             \/ \A t \in Sides : next \notin Ids(file[f], t)

\* The end of a client file without a byte, in folder f, is the end of a file for
\* the second time in a row: one folder before was read to such an end, and none
\* since then had anything to read.
EndShownBefore(f) ==
  \E g \in 1 .. f - 1 :
    /\ report[g] = "everything"
    /\ \A h \in g + 1 .. f :
         file[h]["client"].exists /\ file[h]["client"].records = << >>

\* A folder is reported unreadable only if one of its records is cut, or the next
\* one is there and could not be decrypted, or its client file is empty and a
\* folder before it already ended at the end of a file (RawPacket.c:138, 155-163).
UnreadableMeansDamaged ==
  \A f \in 1 .. Folders : report[f] = "cannot" =>
    \/ EndShownBefore(f)
    \/ \E s \in Sides :
         \/ "refuse" \in LeticiaFaults /\ Len(read[f]) \in Ids(file[f], s)
         \/ \E i \in DOMAIN file[f][s].records : file[f][s].records[i].cut # "none"

\* What main prints: the whole folder has been processed.
EverythingHasBeenRead ==
  \A f \in 1 .. Folders : report[f] = "everything" =>
    \A s \in Sides : \A n \in Ids(file[f], s) :
      \E i \in DOMAIN read[f] : read[f][i] = n

\* The walk over the folders itself always ends: if no file it needs is missing,
\* Leticia comes to its end, or to a record whose decryption crashes it or never
\* comes back (PacketProcessor.c:134-185), over folders that may be cut anywhere
\* and whatever each left in eofDisplayed.
Finishes ==
  (\A f \in 1 .. Folders, s \in Sides : file[f][s].exists)
    ~> pc \in {"done", "crashed", "hung"}

=============================================================================
