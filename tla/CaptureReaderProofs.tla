------------------------- MODULE CaptureReaderProofs ------------------------
(***************************************************************************)
(* Proofs about CaptureReader: on any folders of the form a proxy leaves,  *)
(* the reader processes the records in order, never loses an id, and says  *)
(* that everything has been read only where a file has run dry.            *)
(*                                                                         *)
(* The inductive invariant rests on one idea: the two offsets cut the two  *)
(* files at the same id.                                                   *)
(***************************************************************************)
EXTENDS CaptureReader, TLAPS

-----------------------------------------------------------------------------
(* A well-formed folder.                                                   *)

\* The offsets o cut the files of c at the id n.
CutAt(c, o, n) ==
  \A s \in Sides : \A i \in DOMAIN c[s].records :
    i <= o[s] <=> c[s].records[i].id < n

\* The record after the offset.
After(c, o, s) == c[s].records[o[s] + 1]

\* There are two sides.
LEMMA TwoSides == \A s \in Sides :
                    /\ Other(s) \in Sides /\ Other(s) # s /\ Other(Other(s)) = s
                    /\ \A t \in Sides : t = s \/ t = Other(s)
BY DEF Sides, Other

\* The types inside a well-formed folder.
LEMMA FolderTypes ==
  ASSUME NEW c, WellFormed(c), NEW s \in Sides
  PROVE  /\ c[s].records \in Seq(Records)
         /\ c[s].exists \in BOOLEAN
         /\ Len(c[s].records) \in Nat
         /\ DOMAIN c[s].records = 1 .. Len(c[s].records)
         /\ \A i \in DOMAIN c[s].records :
              /\ c[s].records[i] \in Records
              /\ c[s].records[i].id \in Nat
<1>1. c[s] \in Files
  BY DEF WellFormed
<1>2. c[s].records \in Seq(Records) /\ c[s].exists \in BOOLEAN
  BY <1>1 DEF Files
<1>3. \A r \in Records : r.id \in Nat
  BY DEF Records
<1> HIDE DEF Records
<1>4. \A i \in DOMAIN c[s].records : c[s].records[i] \in Records
  BY <1>2
<1> QED
  BY <1>2, <1>3, <1>4

\* A record beyond the cut has at least the id of the cut.
LEMMA BeyondTheCut ==
  ASSUME NEW c, WellFormed(c), NEW o \in [Sides -> Nat], NEW n \in Nat,
         CutAt(c, o, n), NEW s \in Sides, o[s] < Len(c[s].records)
  PROVE  After(c, o, s).id \in Nat /\ After(c, o, s).id >= n
<1>1. o[s] + 1 \in DOMAIN c[s].records
  BY FolderTypes
<1>2. c[s].records[o[s] + 1].id \in Nat
  BY <1>1, FolderTypes
<1>3. ~(o[s] + 1 <= o[s])
  OBVIOUS
<1> QED
  BY <1>1, <1>2, <1>3 DEF CutAt, After

\* If one file goes on beyond the id of the cut, the other one goes on with it.
LEMMA OtherFileGoesOn ==
  ASSUME NEW c, WellFormed(c), NEW o \in [Sides -> Nat], NEW n \in Nat,
         CutAt(c, o, n), NEW s \in Sides,
         o[s] < Len(c[s].records),
         o[Other(s)] < Len(c[Other(s)].records),
         After(c, o, Other(s)).id > n
  PROVE  After(c, o, s).id = n
<1> DEFINE u == Other(s)
           m == After(c, o, u).id
<1>1. u \in Sides /\ Other(u) = s /\ \A t \in Sides : t = s \/ t = u
  BY TwoSides
<1>2. /\ o[s] + 1 \in DOMAIN c[s].records
      /\ o[u] + 1 \in DOMAIN c[u].records
  BY <1>1, FolderTypes
<1>3. m \in Nat /\ m > n /\ After(c, o, s).id \in Nat /\ After(c, o, s).id >= n
  BY <1>1, BeyondTheCut
<1>4. m \in Ids(c, u) /\ After(c, o, s).id \in Ids(c, s)
  BY <1>2 DEF Ids, After
<1>5. \E t \in Sides : n \in Ids(c, t)
  <2>1. n \in 0 .. m
    BY <1>3
  <2>2. \/ \E t \in Sides : n \in Ids(c, t)
        \/ \A k \in Ids(c, s) : k < n
    BY <1>1, <1>4, <2>1 DEF WellFormed
  <2> QED
    BY <1>3, <1>4, <2>2
<1>. PICK t \in Sides : n \in Ids(c, t)
  BY <1>5
<1>6. PICK i \in DOMAIN c[t].records : c[t].records[i].id = n
  BY DEF Ids
<1>7. i > o[t] /\ o[t] + 1 \in DOMAIN c[t].records
  <2>1. ~(i <= o[t])
    BY <1>6 DEF CutAt
  <2> QED
    BY <2>1, FolderTypes
<1>8. After(c, o, t).id <= n
  <2>1. CASE i = o[t] + 1
    BY <2>1, <1>6 DEF After
  <2>2. CASE o[t] + 1 < i
    <3>1. c[t].records[o[t] + 1].id < c[t].records[i].id
      BY <2>2, <1>7 DEF WellFormed
    <3>2. c[t].records[o[t] + 1].id \in Nat
      BY <1>7, FolderTypes
    <3> QED
      BY <3>1, <3>2, <1>6 DEF After
  <2> QED
    BY <2>1, <2>2, <1>7, FolderTypes
<1>9. t # u
  BY <1>3, <1>8
<1> QED
  BY <1>1, <1>3, <1>8, <1>9

\* Reading the record with the id of the cut moves the cut by one.
LEMMA CutAdvances ==
  ASSUME NEW c, WellFormed(c), NEW o \in [Sides -> Nat], NEW n \in Nat,
         CutAt(c, o, n), NEW s \in Sides,
         o[s] < Len(c[s].records), After(c, o, s).id = n
  PROVE  CutAt(c, [o EXCEPT ![s] = @ + 1], n + 1)
<1> SUFFICES ASSUME NEW t \in Sides, NEW i \in DOMAIN c[t].records
             PROVE  i <= [o EXCEPT ![s] = @ + 1][t] <=> c[t].records[i].id < n + 1
  BY DEF CutAt
<1>1. o[s] + 1 \in DOMAIN c[s].records /\ c[s].records[o[s] + 1].id = n
  BY FolderTypes DEF After
<1>2. i \in Nat /\ c[t].records[i].id \in Nat
  BY FolderTypes
<1>3. i <= o[t] <=> c[t].records[i].id < n
  BY DEF CutAt
<1>4. CASE t = s
  <2>1. i > o[s] + 1 => c[s].records[i].id > n
    BY <1>1, <1>4 DEF WellFormed
  <2> QED
    BY <1>1, <1>2, <1>3, <1>4, <2>1
<1>5. CASE t # s
  <2>1. n \in Ids(c, s)
    BY <1>1 DEF Ids
  <2>2. n \notin Ids(c, t)
    BY <1>5, <2>1 DEF WellFormed, Sides
  <2>3. c[t].records[i].id # n
    BY <2>2 DEF Ids
  <2> QED
    BY <1>2, <1>3, <1>5, <2>3
<1> QED
  BY <1>4, <1>5

-----------------------------------------------------------------------------
(* The inductive invariant.                                                *)

\* The files keep the form they had.
FilesInv == \A f \in 1 .. Folders : WellFormed(file[f])

\* The id the offsets cut the current folder at.
Cut == IF pc = "read" THEN lastId ELSE lastId + 1

OffsetsInv == CutAt(file[folder], offset, Cut)

\* Before the second look the next id is in the current file, or else the other
\* one goes on with a later id.
PeekInv ==
  pc = "peekAgain" =>
    \/ HasRecord(cur) /\ NextRecord(cur).id = Cut
    \/ HasRecord(Other(cur)) /\ NextRecord(Other(cur)).id > Cut

ReadInv ==
  pc = "read" => /\ lastId \in Nat
                 /\ HasRecord(cur) /\ NextRecord(cur).id = lastId

DecryptInv == pc = "decrypt" => lastId \in Nat /\ packet = lastId

\* Between two records the current file is that of the last one.
PlaceInv ==
  pc \in {"peek", "decrypt"} => lastId = -1 \/ lastId \in Ids(file[folder], cur)

\* How many records have been processed in the current folder and the next ones.
CountInv ==
  /\ pc \in {"peek", "peekAgain"} => Len(read[folder]) = lastId + 1
  /\ pc \in {"read", "decrypt"} => Len(read[folder]) = lastId
  /\ \A f \in 1 .. Folders : f > folder => read[f] = << >>

\* Nothing is reported about a folder that is not finished.
ReportInv ==
  \A f \in 1 .. Folders :
    f > folder \/ (f = folder /\ pc # "done") => report[f] = "none"

\* With TypeOK and FilesInv, the inductive invariant.
Progress ==
  /\ OffsetsInv /\ PeekInv /\ ReadInv /\ DecryptInv /\ PlaceInv
  /\ CountInv /\ ReportInv /\ ReadsInOrder /\ NeverLosesAnId

-----------------------------------------------------------------------------
(* Type correctness.                                                       *)

LEMMA TypesHoldAtFirst == Init => TypeOK /\ FilesInv
<1> SUFFICES ASSUME Init PROVE TypeOK /\ FilesInv
  OBVIOUS
<1>1. \A f \in 1 .. Folders : file[f] \in Captures
  BY DEF Init
<1>2. FilesInv
  BY <1>1, ReaderAssumption DEF FilesInv
<1>3. \A f \in 1 .. Folders : file[f] \in [Sides -> Files]
  BY <1>2 DEF FilesInv, WellFormed
<1>4. file \in [1 .. Folders -> [Sides -> Files]]
  BY <1>3 DEF Init
<1>5. /\ folder \in 1 .. Folders
      /\ offset \in [Sides -> Nat]
      /\ cur \in Sides
      /\ report \in [1 .. Folders -> {"none", "everything", "cannot"}]
  BY ReaderAssumption DEF Init, Start, Sides
<1>6. read \in [1 .. Folders -> Seq(Nat)]
  <2>1. << >> \in Seq(Nat)
    OBVIOUS
  <2> QED
    BY <2>1 DEF Init, Start
<1> QED
  BY <1>2, <1>4, <1>5, <1>6 DEF Init, Start, TypeOK

\* The current folder is a well-formed one.
LEMMA CurrentFolder ==
  ASSUME TypeOK, FilesInv
  PROVE  WellFormed(file[folder])
BY DEF TypeOK, FilesInv

\* The id that can be read in a file.
LEMMA NextIds ==
  ASSUME TypeOK, FilesInv, NEW s \in Sides, HasRecord(s)
  PROVE  NextRecord(s).id \in Nat /\ NextRecord(s).id \in Ids(file[folder], s)
<1>1. WellFormed(file[folder])
  BY CurrentFolder
<1>2. offset[s] \in Nat /\ offset[s] < Len(file[folder][s].records)
  BY DEF TypeOK, HasRecord, Content
<1>3. offset[s] + 1 \in DOMAIN file[folder][s].records
  BY <1>1, <1>2, FolderTypes
<1>4. file[folder][s].records[offset[s] + 1].id \in Nat
  BY <1>1, <1>3, FolderTypes
<1>5. file[folder][s].records[offset[s] + 1].id \in Ids(file[folder], s)
  BY <1>3 DEF Ids
<1> QED
  BY <1>4, <1>5 DEF NextRecord, Content

\* Going to the next folder keeps the types.
LEMMA ReturnTypes ==
  ASSUME TypeOK, NEW r \in {"everything", "cannot"}, Return(r), eofShown' \in BOOLEAN
  PROVE  TypeOK'
<1>1. folder' \in 1 .. Folders /\ pc' \in {"peek", "done"}
  BY ReaderAssumption DEF TypeOK, Return
<1>2. report' \in [1 .. Folders -> {"none", "everything", "cannot"}]
  BY DEF TypeOK, Return
<1>3. cur' \in Sides /\ offset' \in [Sides -> Nat]
  BY DEF Return, Sides
<1> QED
  BY <1>1, <1>2, <1>3 DEF TypeOK, Return

LEMMA TypesArePreserved ==
  ASSUME TypeOK, FilesInv, [Next]_readerVars
  PROVE  TypeOK' /\ FilesInv'
<1>1. FilesInv'
  <2>1. file' = file
    BY DEF Next, Reading, readerVars, WaitForFile, EndOfFile, CannotReadId, Peek,
       PeekAgain, ReadRecord, CannotReadRecord, Decrypt, DecryptFails,
       DecryptCrashes, DecryptHangs, Over, Return
  <2> QED
    BY <2>1 DEF FilesInv
<1>2. CASE EndOfFile
  <2>1. PICK r \in {"everything", "cannot"} : Return(r)
    BY <1>2 DEF EndOfFile
  <2> QED
    BY <1>1, <1>2, <2>1, ReturnTypes DEF EndOfFile
<1>3. CASE CannotReadId
  BY <1>1, <1>3, ReturnTypes DEF CannotReadId
<1>4. CASE CannotReadRecord
  BY <1>1, <1>4, ReturnTypes DEF CannotReadRecord
<1>5. CASE DecryptFails
  <2>1. eofShown' \in BOOLEAN
    BY <1>5 DEF DecryptFails, TypeOK
  <2> QED
    BY <1>1, <1>5, <2>1, ReturnTypes DEF DecryptFails
<1>6. CASE Peek
  <2>1. curId' \in Nat
    BY <1>6, NextIds DEF Peek, TypeOK
  <2> QED
    BY <1>1, <1>6, <2>1, TwoSides DEF Peek, TypeOK, histories
<1>7. CASE PeekAgain
  <2>1. curId' \in Nat
    BY <1>7, NextIds DEF PeekAgain, TypeOK
  <2>2. lost' \in BOOLEAN
    BY <1>7 DEF PeekAgain, TypeOK
  <2>3. lastId' \in Nat /\ cur' \in Sides
    BY <1>7, <2>1, TwoSides DEF PeekAgain, TypeOK
  <2> QED
    BY <1>1, <1>7, <2>1, <2>2, <2>3 DEF PeekAgain, TypeOK
<1>8. CASE ReadRecord
  <2>1. packet' \in Nat
    BY <1>8, NextIds DEF ReadRecord, TypeOK
  <2>2. offset' \in [Sides -> Nat]
    BY <1>8 DEF ReadRecord, TypeOK
  <2> QED
    BY <1>1, <1>8, <2>1, <2>2 DEF ReadRecord, TypeOK, histories
<1>9. CASE Decrypt
  <2>1. Append(read[folder], packet) \in Seq(Nat)
    BY DEF TypeOK
  <2>2. read' \in [1 .. Folders -> Seq(Nat)]
    BY <1>9, <2>1 DEF Decrypt, TypeOK
  <2> QED
    BY <1>1, <1>9, <2>2 DEF Decrypt, TypeOK
<1>10. CASE DecryptCrashes \/ DecryptHangs
  BY <1>1, <1>10 DEF DecryptCrashes, DecryptHangs, TypeOK, histories
<1>11. CASE WaitForFile \/ Over \/ UNCHANGED readerVars
  BY <1>1, <1>11 DEF WaitForFile, Over, readerVars, TypeOK
<1> QED
  BY <1>2, <1>3, <1>4, <1>5, <1>6, <1>7, <1>8, <1>9, <1>10, <1>11 DEF Next, Reading

-----------------------------------------------------------------------------
(* The rest of the invariant, action by action.                            *)

LEMMA ProgressHoldsAtFirst == Init => Progress
<1> SUFFICES ASSUME Init PROVE Progress
  OBVIOUS
<1>1. WellFormed(file[folder])
  BY TypesHoldAtFirst, CurrentFolder
<1>2. OffsetsInv
  <2> SUFFICES ASSUME NEW s \in Sides, NEW i \in DOMAIN file[folder][s].records
               PROVE  i <= offset[s] <=> file[folder][s].records[i].id < Cut
    BY DEF OffsetsInv, CutAt
  <2>1. i \in Nat /\ i >= 1 /\ file[folder][s].records[i].id \in Nat
    BY <1>1, FolderTypes
  <2> QED
    BY <2>1 DEF Init, Start, Cut
<1>3. CountInv
  BY ReaderAssumption DEF Init, Start, CountInv
<1>4. ReportInv
  BY DEF Init, Start, ReportInv
<1>5. PeekInv /\ ReadInv /\ DecryptInv /\ PlaceInv /\ NeverLosesAnId
  BY DEF Init, Start, PeekInv, ReadInv, DecryptInv, PlaceInv, NeverLosesAnId
<1>6. ReadsInOrder
  BY DEF Init, Start, ReadsInOrder
<1> QED
  BY <1>2, <1>3, <1>4, <1>5, <1>6 DEF Progress

\* main goes to the next folder with nothing read of it.
LEMMA ReturnKeepsProgress ==
  ASSUME TypeOK, FilesInv, Progress, TypeOK', FilesInv', NEW r, Return(r)
  PROVE  Progress'
<1>1. WellFormed(file'[folder'])
  BY DEF TypeOK, FilesInv
<1>2. OffsetsInv'
  <2> SUFFICES ASSUME NEW s \in Sides, NEW i \in DOMAIN file'[folder'][s].records
               PROVE  i <= offset'[s] <=> file'[folder'][s].records[i].id < Cut'
    BY DEF OffsetsInv, CutAt
  <2>1. i \in Nat /\ i >= 1 /\ file'[folder'][s].records[i].id \in Nat
    BY <1>1, FolderTypes
  <2>2. offset'[s] = 0 /\ Cut' = 0
    BY DEF Return, Cut
  <2> QED
    BY <2>1, <2>2
<1>3. CountInv'
  BY ReaderAssumption DEF Return, Progress, CountInv, TypeOK
<1>4. ReportInv'
  BY ReaderAssumption DEF Return, Progress, ReportInv, TypeOK
<1>5. PeekInv' /\ ReadInv' /\ DecryptInv' /\ PlaceInv' /\ NeverLosesAnId'
  BY DEF Return, Progress, PeekInv, ReadInv, DecryptInv, PlaceInv, NeverLosesAnId
<1>6. ReadsInOrder'
  BY DEF Return, Progress, ReadsInOrder
<1> QED
  BY <1>2, <1>3, <1>4, <1>5, <1>6 DEF Progress

\* A mismatch is seen in a file that goes on beyond the cut.
LEMMA PeekKeepsProgress ==
  ASSUME TypeOK, FilesInv, Progress, Peek
  PROVE  Progress'
<1> DEFINE n == lastId + 1
           c == file[folder]
<1>1. WellFormed(c) /\ n \in Nat /\ Cut = n /\ Cut' = n
  BY CurrentFolder DEF TypeOK, Cut, Peek
<1>2. OffsetsInv'
  BY <1>1 DEF Peek, Progress, OffsetsInv
<1>3. PeekInv'
  <2>1. NextRecord(cur).id \in Nat /\ NextRecord(cur).id >= n
    BY <1>1, BeyondTheCut
       DEF Peek, TypeOK, HasRecord, NextRecord, Content, After, Progress, OffsetsInv
  <2>2. CASE NextRecord(cur).id = n
    BY <1>1, <2>2 DEF Peek, PeekInv, HasRecord, NextRecord, Content, Exists
  <2>3. CASE NextRecord(cur).id # n
    <3>1. cur' = Other(cur) /\ Other(cur') = cur
      BY <2>3, TwoSides DEF Peek, TypeOK
    <3> QED
      BY <1>1, <2>1, <2>3, <3>1
         DEF Peek, PeekInv, HasRecord, NextRecord, Content, Exists
  <2> QED
    BY <2>2, <2>3
<1>4. ReadInv' /\ DecryptInv' /\ PlaceInv' /\ NeverLosesAnId'
  BY DEF Peek, histories, Progress, ReadInv, DecryptInv, PlaceInv, NeverLosesAnId
<1>5. CountInv' /\ ReportInv' /\ ReadsInOrder'
  BY DEF Peek, histories, Progress, CountInv, ReportInv, ReadsInOrder
<1> QED
  BY <1>2, <1>3, <1>4, <1>5 DEF Progress

\* The second look finds the next id.
LEMMA PeekAgainKeepsProgress ==
  ASSUME TypeOK, FilesInv, Progress, PeekAgain
  PROVE  Progress'
<1> DEFINE n == lastId + 1
           c == file[folder]
<1>1. WellFormed(c) /\ n \in Nat /\ Cut = n /\ CutAt(c, offset, n)
  BY CurrentFolder DEF TypeOK, Cut, PeekAgain, Progress, OffsetsInv
<1>2. NextRecord(cur).id = n
  <2>1. CASE HasRecord(Other(cur)) /\ NextRecord(Other(cur)).id > n
    BY <1>1, <2>1, OtherFileGoesOn
       DEF PeekAgain, TypeOK, HasRecord, NextRecord, Content, After
  <2> QED
    BY <1>1, <2>1 DEF PeekAgain, Progress, PeekInv
<1>3. cur' = cur /\ lastId' = n /\ lost' = lost
  BY <1>2 DEF PeekAgain, TypeOK
<1>4. OffsetsInv'
  BY <1>1, <1>3 DEF PeekAgain, OffsetsInv, Cut
<1>5. ReadInv'
  BY <1>1, <1>2, <1>3 DEF PeekAgain, ReadInv, HasRecord, NextRecord, Content, Exists
<1>6. PeekInv' /\ DecryptInv' /\ PlaceInv'
  BY DEF PeekAgain, PeekInv, DecryptInv, PlaceInv
<1>7. NeverLosesAnId'
  BY <1>3 DEF Progress, NeverLosesAnId
<1>8. CountInv'
  BY <1>3 DEF PeekAgain, Progress, CountInv
<1>9. ReportInv' /\ ReadsInOrder'
  BY DEF PeekAgain, Progress, ReportInv, ReadsInOrder
<1> QED
  BY <1>4, <1>5, <1>6, <1>7, <1>8, <1>9 DEF Progress

\* Reading the record moves the cut.
LEMMA ReadRecordKeepsProgress ==
  ASSUME TypeOK, FilesInv, Progress, ReadRecord
  PROVE  Progress'
<1> DEFINE c == file[folder]
<1>1. /\ WellFormed(c) /\ lastId \in Nat /\ CutAt(c, offset, lastId)
      /\ NextRecord(cur).id = lastId
  BY CurrentFolder DEF Cut, ReadRecord, Progress, OffsetsInv, ReadInv
<1>2. CutAt(c, offset', lastId + 1)
  BY <1>1, CutAdvances
     DEF ReadRecord, TypeOK, HasRecord, NextRecord, Content, After
<1>3. OffsetsInv'
  BY <1>2 DEF ReadRecord, OffsetsInv, Cut
<1>4. PeekInv' /\ ReadInv'
  BY DEF ReadRecord, PeekInv, ReadInv
<1>5. DecryptInv'
  BY <1>1 DEF ReadRecord, DecryptInv
<1>6. PlaceInv'
  <2>1. NextRecord(cur).id \in Ids(c, cur)
    BY NextIds DEF ReadRecord, TypeOK
  <2> QED
    BY <1>1, <2>1 DEF ReadRecord, PlaceInv, Ids
<1>7. NeverLosesAnId' /\ CountInv' /\ ReportInv' /\ ReadsInOrder'
  BY DEF ReadRecord, histories, Progress, NeverLosesAnId, CountInv, ReportInv,
         ReadsInOrder
<1> QED
  BY <1>3, <1>4, <1>5, <1>6, <1>7 DEF Progress

\* The record that was read is the next one in the folder.
LEMMA DecryptKeepsProgress ==
  ASSUME TypeOK, FilesInv, Progress, Decrypt
  PROVE  Progress'
<1>1. lastId \in Nat /\ packet = lastId /\ Len(read[folder]) = lastId
  BY DEF Decrypt, Progress, DecryptInv, CountInv
<1>2. /\ folder \in 1 .. Folders
      /\ read \in [1 .. Folders -> Seq(Nat)] /\ read[folder] \in Seq(Nat)
  BY DEF TypeOK
<1>3. OffsetsInv' /\ PeekInv' /\ ReadInv' /\ DecryptInv'
  BY DEF Decrypt, Progress, OffsetsInv, Cut, PeekInv, ReadInv, DecryptInv
<1>4. PlaceInv' /\ NeverLosesAnId' /\ ReportInv'
  BY DEF Decrypt, Progress, PlaceInv, Ids, NeverLosesAnId, ReportInv
<1>5. CountInv'
  <2>1. Len(read'[folder]) = lastId + 1
    BY <1>1, <1>2 DEF Decrypt
  <2>2. \A f \in 1 .. Folders : f > folder => read'[f] = << >>
    BY <1>2 DEF Decrypt, Progress, CountInv
  <2> QED
    BY <2>1, <2>2 DEF Decrypt, CountInv
<1>6. ReadsInOrder'
  <2> SUFFICES ASSUME NEW f \in 1 .. Folders, NEW i \in DOMAIN read'[f]
               PROVE  read'[f][i] = i - 1
    BY DEF ReadsInOrder
  <2>1. CASE f # folder
    BY <2>1, <1>2 DEF Decrypt, Progress, ReadsInOrder
  <2>2. CASE f = folder
    <3>1. read'[f] = Append(read[folder], packet)
      BY <2>2, <1>2 DEF Decrypt
    <3>2. CASE i = Len(read[folder]) + 1
      BY <1>1, <1>2, <3>1, <3>2
    <3>3. CASE i # Len(read[folder]) + 1
      <4>1. i \in DOMAIN read[folder] /\ read'[f][i] = read[folder][i]
        BY <1>2, <3>1, <3>3
      <4> QED
        BY <4>1, <1>2 DEF Progress, ReadsInOrder
    <3> QED
      BY <3>2, <3>3
  <2> QED
    BY <2>1, <2>2
<1> QED
  BY <1>3, <1>4, <1>5, <1>6 DEF Progress

LEMMA EndInDecryptionKeepsProgress ==
  ASSUME TypeOK, FilesInv, Progress, DecryptCrashes \/ DecryptHangs
  PROVE  Progress'
BY DEF DecryptCrashes, DecryptHangs, histories, Progress, OffsetsInv, Cut,
       PeekInv, ReadInv, DecryptInv, PlaceInv, CountInv, ReportInv, ReadsInOrder, NeverLosesAnId

LEMMA StutterKeepsProgress ==
  ASSUME Progress, UNCHANGED readerVars
  PROVE  Progress'
BY DEF readerVars, Progress, OffsetsInv, Cut, PeekInv, ReadInv, DecryptInv,
       PlaceInv, Ids, CountInv, ReportInv, ReadsInOrder, NeverLosesAnId,
       HasRecord, NextRecord, Content, Exists

\* Every step of the reader keeps the invariant.
LEMMA ProgressIsPreserved ==
  ASSUME TypeOK, FilesInv, Progress, [Next]_readerVars
  PROVE  Progress'
<1>1. TypeOK' /\ FilesInv'
  BY TypesArePreserved
<1>2. CASE EndOfFile
  BY <1>1, <1>2, ReturnKeepsProgress DEF EndOfFile
<1>3. CASE CannotReadId
  BY <1>1, <1>3, ReturnKeepsProgress DEF CannotReadId
<1>4. CASE CannotReadRecord
  BY <1>1, <1>4, ReturnKeepsProgress DEF CannotReadRecord
<1>5. CASE DecryptFails
  BY <1>1, <1>5, ReturnKeepsProgress DEF DecryptFails
<1>6. CASE Peek
  BY <1>6, PeekKeepsProgress
<1>7. CASE PeekAgain
  BY <1>7, PeekAgainKeepsProgress
<1>8. CASE ReadRecord
  BY <1>8, ReadRecordKeepsProgress
<1>9. CASE Decrypt
  BY <1>9, DecryptKeepsProgress
<1>10. CASE DecryptCrashes \/ DecryptHangs
  BY <1>10, EndInDecryptionKeepsProgress
<1>11. CASE WaitForFile \/ Over \/ UNCHANGED readerVars
  BY <1>11, StutterKeepsProgress DEF WaitForFile, Over
<1> QED
  BY <1>2, <1>3, <1>4, <1>5, <1>6, <1>7, <1>8, <1>9, <1>10, <1>11 DEF Next, Reading

-----------------------------------------------------------------------------
(* Where the reader stops.                                                 *)

\* A file that ends where the offset is has only ids below the cut.
LEMMA NothingBeyondTheEnd ==
  ASSUME TypeOK, FilesInv, OffsetsInv, NEW s \in Sides, AtEnd(s)
  PROVE  \A m \in Ids(file[folder], s) : m < Cut
<1> SUFFICES ASSUME NEW i \in DOMAIN file[folder][s].records
             PROVE  file[folder][s].records[i].id < Cut
  BY DEF Ids
<1>1. WellFormed(file[folder])
  BY CurrentFolder
<1>2. i \in 1 .. Len(file[folder][s].records)
  BY <1>1, FolderTypes
<1>3. Len(file[folder][s].records) \in Nat
  BY <1>1, FolderTypes
<1>4. i <= offset[s]
  BY <1>2, <1>3 DEF AtEnd, Content, TypeOK
<1> QED
  BY <1>4 DEF OffsetsInv, CutAt

\* A file whose next record is beyond an id does not hold that id, if the id
\* is not below the cut.
LEMMA NotBeforeTheNext ==
  ASSUME TypeOK, FilesInv, OffsetsInv, NEW s \in Sides, HasRecord(s),
         Cut \in Nat, NextRecord(s).id > Cut
  PROVE  Cut \notin Ids(file[folder], s)
<1> SUFFICES ASSUME NEW i \in DOMAIN file[folder][s].records,
                    file[folder][s].records[i].id = Cut
             PROVE  FALSE
  BY DEF Ids
<1> DEFINE c == file[folder]
<1>1. WellFormed(c) /\ offset[s] \in Nat
  BY CurrentFolder DEF TypeOK
<1>2. offset[s] + 1 \in DOMAIN c[s].records /\ i \in Nat
  BY <1>1, FolderTypes DEF HasRecord, Content
<1>3. ~(i <= offset[s])
  BY DEF OffsetsInv, CutAt
<1>4. c[s].records[offset[s] + 1].id \in Nat /\ c[s].records[offset[s] + 1].id > Cut
  BY <1>1, <1>2, FolderTypes DEF NextRecord, Content
<1>5. i > offset[s] + 1
  BY <1>1, <1>2, <1>3, <1>4
<1>6. c[s].records[offset[s] + 1].id < c[s].records[i].id
  BY <1>1, <1>2, <1>5 DEF WellFormed
<1> QED
  BY <1>4, <1>6

\* What "Everything has been read" says of a folder, given how many records of it
\* have been processed.
RunDry(c, next) ==
  \E s \in Sides :
    /\ c[s].exists
    /\ \A m \in Ids(c, s) : m < next
    /\ \/ next - 1 \in Ids(c, s) \cup {-1}
       \/ \A t \in Sides : next \notin Ids(c, t)

LEMMA EndOfFileIsRunDry ==
  ASSUME TypeOK, FilesInv, Progress, EndOfFile
  PROVE  RunDry(file[folder], Len(read[folder]))
<1> DEFINE next == lastId + 1
<1>1. /\ next \in Nat /\ Cut = next /\ Len(read[folder]) = next
      /\ next - 1 = lastId /\ cur \in Sides
  BY DEF TypeOK, EndOfFile, Cut, Progress, CountInv
<1>2. file[folder][cur].exists
  BY DEF EndOfFile, AtEnd, Exists
<1>3. \A m \in Ids(file[folder], cur) : m < next
  BY <1>1, NothingBeyondTheEnd DEF EndOfFile, Progress
<1>4. \/ next - 1 \in Ids(file[folder], cur) \cup {-1}
      \/ \A t \in Sides : next \notin Ids(file[folder], t)
  <2>1. CASE pc = "peek"
    BY <1>1, <2>1 DEF Progress, PlaceInv
  <2>2. CASE pc = "peekAgain"
    <3>1. ~HasRecord(cur)
      <4>1. Len(Content(cur)) \in Nat /\ offset[cur] \in Nat
        BY <1>1, CurrentFolder, FolderTypes DEF Content, TypeOK
      <4> QED
        BY <4>1 DEF EndOfFile, AtEnd, HasRecord
    <3>2. HasRecord(Other(cur)) /\ NextRecord(Other(cur)).id > next
      BY <1>1, <2>2, <3>1 DEF Progress, PeekInv
    <3>3. next \notin Ids(file[folder], Other(cur))
      BY <1>1, <3>2, NotBeforeTheNext, TwoSides DEF Progress
    <3>4. next \notin Ids(file[folder], cur)
      BY <1>1, <1>3
    <3> QED
      BY <1>1, <3>3, <3>4, TwoSides
  <2> QED
    BY <2>1, <2>2 DEF EndOfFile
<1> QED
  BY <1>1, <1>2, <1>3, <1>4 DEF RunDry

\* What has been said of a finished folder stays true.
LEMMA StopsIsPreserved ==
  ASSUME TypeOK, FilesInv, Progress, TypeOK', [Next]_readerVars, StopsWhenAFileRunsDry
  PROVE  StopsWhenAFileRunsDry'
<1>1. file' = file
  BY DEF Next, Reading, readerVars, WaitForFile, EndOfFile, CannotReadId, Peek,
     PeekAgain, ReadRecord, CannotReadRecord, Decrypt, DecryptFails,
     DecryptCrashes, DecryptHangs, Over, Return, histories
<1>2. \A f \in 1 .. Folders : report[f] = "everything" => RunDry(file[f], Len(read[f]))
  BY DEF StopsWhenAFileRunsDry, RunDry
<1> SUFFICES ASSUME NEW f \in 1 .. Folders, report'[f] = "everything"
             PROVE  RunDry(file[f], Len(read'[f]))
  BY <1>1 DEF StopsWhenAFileRunsDry, RunDry
<1>3. CASE EndOfFile
  <2>1. read' = read
    BY <1>3 DEF EndOfFile, Return
  <2>2. CASE f = folder
    BY <1>3, <2>1, <2>2, EndOfFileIsRunDry
  <2>3. CASE f # folder
    <3>1. report'[f] = report[f]
      BY <1>3, <2>3 DEF EndOfFile, Return, TypeOK
    <3> QED
      BY <1>2, <2>1, <3>1
  <2> QED
    BY <2>2, <2>3
<1>4. CASE CannotReadId \/ CannotReadRecord \/ DecryptFails
  <2>1. Return("cannot")
    BY <1>4 DEF CannotReadId, CannotReadRecord, DecryptFails
  <2>2. report[f] = "everything" /\ read' = read
    BY <2>1 DEF Return, TypeOK
  <2> QED
    BY <1>2, <2>2
<1>5. CASE Decrypt
  <2>1. report[f] = "everything" /\ f # folder
    BY <1>5 DEF Decrypt, Progress, ReportInv
  <2>2. read'[f] = read[f]
    BY <1>5, <2>1 DEF Decrypt, TypeOK
  <2> QED
    BY <1>2, <2>1, <2>2
<1>6. CASE WaitForFile \/ Peek \/ PeekAgain \/ ReadRecord \/ DecryptCrashes
           \/ DecryptHangs \/ Over \/ UNCHANGED readerVars
  <2>1. report' = report /\ read' = read
    BY <1>6 DEF WaitForFile, Peek, PeekAgain, ReadRecord, DecryptCrashes,
     DecryptHangs, Over, readerVars, histories
  <2> QED
    BY <1>2, <2>1
<1> QED
  BY <1>3, <1>4, <1>5, <1>6 DEF Next, Reading

-----------------------------------------------------------------------------
(* What a folder is reported unreadable for.                               *)

\* One of the reasons for which folder f, of which n records were processed, can
\* be reported unreadable.
Unreadable(f, n) ==
  \/ EndShownBefore(f)
  \/ \E s \in Sides :
       \/ "refuse" \in LeticiaFaults /\ n \in Ids(file[f], s)
       \/ \E i \in DOMAIN file[f][s].records : file[f][s].records[i].cut # "none"

\* What the static variable remembers when a folder begins, and forgets with the
\* first record: a folder before that ended at the end of a file, and only folders
\* without a record in their client file after it.
EndInv ==
  eofShown /\ pc \in {"peek", "peekAgain", "read", "decrypt"} =>
    /\ pc = "peek" /\ cur = "client" /\ offset["client"] = 0
    /\ \E g \in 1 .. folder - 1 :
         /\ report[g] = "everything"
         /\ \A h \in g + 1 .. folder - 1 :
              file[h]["client"].exists /\ file[h]["client"].records = << >>

\* If a folder begins with the end of its client file after another end, that
\* client file is empty.
LEMMA EndOfAnEmptyFile ==
  ASSUME TypeOK, FilesInv, EndInv, EndOfFile, eofShown
  PROVE  EndShownBefore(folder)
<1>1. /\ cur = "client" /\ offset["client"] = 0
      /\ \E g \in 1 .. folder - 1 :
           /\ report[g] = "everything"
           /\ \A h \in g + 1 .. folder - 1 :
                file[h]["client"].exists /\ file[h]["client"].records = << >>
  BY DEF EndInv, EndOfFile
<1>2. file[folder]["client"].exists /\ file[folder]["client"].records = << >>
  <2>1. "client" \in Sides
    BY DEF Sides
  <2>2. /\ file[folder]["client"].records \in Seq(Records)
        /\ Len(file[folder]["client"].records) \in Nat
    BY <2>1, CurrentFolder, FolderTypes
  <2>3. file[folder]["client"].exists /\ 0 >= Len(file[folder]["client"].records)
    BY <1>1 DEF EndOfFile, AtEnd, Exists, Content
  <2> QED
    BY <2>2, <2>3
<1>3. PICK g \in 1 .. folder - 1 :
        /\ report[g] = "everything"
        /\ \A h \in g + 1 .. folder - 1 :
             file[h]["client"].exists /\ file[h]["client"].records = << >>
  BY <1>1
<1>4. ASSUME NEW h \in g + 1 .. folder
      PROVE  file[h]["client"].exists /\ file[h]["client"].records = << >>
  <2>1. h = folder \/ h \in g + 1 .. folder - 1
    BY <1>4 DEF TypeOK
  <2> QED
    BY <1>2, <1>3, <2>1
<1> QED
  BY <1>3, <1>4 DEF EndShownBefore

\* A folder that is left as unreadable has one of the reasons.
LEMMA CannotHasAReason ==
  ASSUME TypeOK, FilesInv, Progress, EndInv,
         \/ EndOfFile /\ eofShown
         \/ CannotReadId \/ CannotReadRecord \/ DecryptFails
  PROVE  Unreadable(folder, Len(read[folder]))
<1>1. CASE EndOfFile /\ eofShown
  BY <1>1, EndOfAnEmptyFile DEF Unreadable
<1>2. CASE CannotReadId \/ CannotReadRecord
  <2>1. HasRecord(cur) /\ NextRecord(cur).cut # "none" /\ cur \in Sides
    BY <1>2 DEF CannotReadId, CannotReadRecord, TypeOK
  <2>2. offset[cur] \in Nat /\ offset[cur] < Len(file[folder][cur].records)
    BY <2>1 DEF HasRecord, Content, TypeOK
  <2>3. offset[cur] + 1 \in DOMAIN file[folder][cur].records
    BY <2>1, <2>2, CurrentFolder, FolderTypes
  <2> QED
    BY <2>1, <2>3 DEF NextRecord, Content, Unreadable
<1>3. CASE DecryptFails
  <2>1. "refuse" \in LeticiaFaults /\ lastId \in Nat /\ Len(read[folder]) = lastId
    BY <1>3 DEF DecryptFails, Progress, DecryptInv, CountInv
  <2>2. lastId \in Ids(file[folder], cur) /\ cur \in Sides
    BY <1>3, <2>1 DEF DecryptFails, Progress, PlaceInv, TypeOK
  <2> QED
    BY <2>1, <2>2 DEF Unreadable
<1> QED
  BY <1>1, <1>2, <1>3

\* What was printed of the folders before stays, and so does what was read of them.
LEMMA ReportsStay ==
  ASSUME TypeOK, Progress, [Next]_readerVars, NEW f \in 1 .. Folders,
         report[f] # "none"
  PROVE  report'[f] = report[f] /\ read'[f] = read[f]
<1>1. pc # "done" => f # folder
  BY DEF Progress, ReportInv
<1>2. CASE EndOfFile \/ CannotReadId \/ CannotReadRecord \/ DecryptFails
  <2>1. PICK r : Return(r)
    BY <1>2 DEF EndOfFile, CannotReadId, CannotReadRecord, DecryptFails
  <2>2. pc # "done"
    BY <1>2 DEF EndOfFile, CannotReadId, CannotReadRecord, DecryptFails
  <2> QED
    BY <1>1, <2>1, <2>2 DEF Return, TypeOK
<1>3. CASE Decrypt
  BY <1>1, <1>3 DEF Decrypt, TypeOK
<1>4. CASE WaitForFile \/ Peek \/ PeekAgain \/ ReadRecord \/ DecryptCrashes
           \/ DecryptHangs \/ Over \/ UNCHANGED readerVars
  BY <1>4 DEF WaitForFile, Peek, PeekAgain, ReadRecord, DecryptCrashes,
     DecryptHangs, Over, readerVars, histories
<1> QED
  BY <1>2, <1>3, <1>4 DEF Next, Reading

LEMMA FilesStay == [Next]_readerVars => file' = file
BY DEF Next, Reading, readerVars, WaitForFile, EndOfFile, CannotReadId, Peek,
   PeekAgain, ReadRecord, CannotReadRecord, Decrypt, DecryptFails, DecryptCrashes,
   DecryptHangs, Over, Return, histories

\* A reason that a folder has had stays one.
LEMMA ReasonsStay ==
  ASSUME TypeOK, Progress, [Next]_readerVars, NEW f \in 1 .. Folders, NEW n,
         Unreadable(f, n)
  PROVE  Unreadable(f, n)'
<1>1. file' = file
  BY FilesStay
<1>2. EndShownBefore(f) => EndShownBefore(f)'
  <2> SUFFICES ASSUME NEW g \in 1 .. f - 1, report[g] = "everything",
                      \A h \in g + 1 .. f :
                        file[h]["client"].exists /\ file[h]["client"].records = << >>
               PROVE  EndShownBefore(f)'
    BY DEF EndShownBefore
  <2>1. g \in 1 .. Folders
    BY ReaderAssumption
  <2>2. report'[g] = "everything"
    BY <2>1, ReportsStay
  <2> QED
    BY <1>1, <2>2 DEF EndShownBefore
<1> QED
  BY <1>1, <1>2 DEF Unreadable, Ids

\* The static variable, step by step.
LEMMA EndInvIsPreserved ==
  ASSUME TypeOK, FilesInv, Progress, EndInv, TypeOK', [Next]_readerVars
  PROVE  EndInv'
<1>1. file' = file
  BY FilesStay
<1>2. CASE EndOfFile
  <2> SUFFICES ASSUME pc' # "done" PROVE EndInv'
    BY DEF EndInv
  <2>1. PICK r : Return(r) /\ r = (IF eofShown THEN "cannot" ELSE "everything")
    BY <1>2 DEF EndOfFile
  <2>2. /\ folder \in 1 .. Folders /\ Folders \in Nat
        /\ folder' = folder + 1 /\ folder' - 1 = folder
        /\ pc' = "peek" /\ cur' = "client" /\ offset'["client"] = 0
        /\ report' = [report EXCEPT ![folder] = r]
    <3>1. /\ folder' = folder + 1 /\ pc' = "peek" /\ cur' = "client"
          /\ report' = [report EXCEPT ![folder] = r]
      BY <2>1 DEF Return
    <3>2. offset'["client"] = 0
      BY <2>1 DEF Return, Sides
    <3>3. folder \in 1 .. Folders /\ Folders \in Nat
      BY ReaderAssumption DEF TypeOK
    <3>4. folder' - 1 = folder
      BY <3>1, <3>3
    <3> QED
      BY <3>1, <3>2, <3>3, <3>4
  <2>3. \E g \in 1 .. folder :
          /\ report'[g] = "everything"
          /\ \A h \in g + 1 .. folder :
               file[h]["client"].exists /\ file[h]["client"].records = << >>
    <3>1. ASSUME ~eofShown
          PROVE  report'[folder] = "everything" /\ folder + 1 .. folder = {}
      BY <2>1, <2>2, <3>1 DEF TypeOK
    <3>2. ASSUME eofShown
          PROVE  \E g \in 1 .. folder - 1 :
                   /\ report'[g] = "everything"
                   /\ \A h \in g + 1 .. folder :
                        /\ file[h]["client"].exists
                        /\ file[h]["client"].records = << >>
      <4>1. EndShownBefore(folder)
        BY <1>2, <3>2, EndOfAnEmptyFile
      <4>2. PICK g \in 1 .. folder - 1 :
              /\ report[g] = "everything"
              /\ \A h \in g + 1 .. folder :
                   file[h]["client"].exists /\ file[h]["client"].records = << >>
        BY <4>1 DEF EndShownBefore
      <4>3. g \in 1 .. Folders
        BY <2>2
      <4>4. report'[g] = "everything"
        BY <4>2, <4>3, ReportsStay
      <4> QED
        BY <4>2, <4>4
    <3> QED
      BY <2>2, <3>1, <3>2
  <2> QED
    BY <1>1, <2>2, <2>3 DEF EndInv
<1>3. CASE CannotReadId \/ CannotReadRecord \/ Peek \/ PeekAgain \/ ReadRecord
  BY <1>3 DEF CannotReadId, CannotReadRecord, Peek, PeekAgain, ReadRecord, EndInv
<1>4. CASE Decrypt \/ DecryptFails \/ DecryptCrashes \/ DecryptHangs
  <2>1. ~eofShown
    BY <1>4 DEF Decrypt, DecryptFails, DecryptCrashes, DecryptHangs, EndInv, TypeOK
  <2> QED
    BY <1>4, <2>1 DEF Decrypt, DecryptFails, DecryptCrashes, DecryptHangs, EndInv
<1>5. CASE WaitForFile \/ Over \/ UNCHANGED readerVars
  BY <1>1, <1>5 DEF WaitForFile, Over, readerVars, EndInv
<1> QED
  BY <1>2, <1>3, <1>4, <1>5 DEF Next, Reading

\* The reasons, step by step.
LEMMA UnreadableIsPreserved ==
  ASSUME TypeOK, FilesInv, Progress, EndInv, UnreadableMeansDamaged,
         [Next]_readerVars
  PROVE  UnreadableMeansDamaged'
<1> SUFFICES ASSUME NEW f \in 1 .. Folders, report'[f] = "cannot"
             PROVE  Unreadable(f, Len(read[f]))'
  BY DEF UnreadableMeansDamaged, Unreadable
<1>1. CASE report[f] = "cannot"
  <2>1. read'[f] = read[f]
    BY <1>1, ReportsStay
  <2>2. Unreadable(f, Len(read[f]))
    BY <1>1 DEF UnreadableMeansDamaged, Unreadable
  <2>3. PICK n : n = Len(read[f])
    OBVIOUS
  <2>4. Unreadable(f, n)'
    BY <2>2, <2>3, ReasonsStay
  <2> QED
    BY <2>1, <2>3, <2>4
<1>2. CASE report[f] # "cannot"
  <2>1. /\ f = folder /\ read' = read
        /\ \/ EndOfFile /\ eofShown
           \/ CannotReadId \/ CannotReadRecord \/ DecryptFails
    <3>1. ASSUME NEW r, Return(r)
          PROVE  f = folder /\ r = "cannot" /\ read' = read
      BY <1>2, <3>1 DEF Return, TypeOK
    <3>2. CASE EndOfFile
      BY <3>1, <3>2 DEF EndOfFile
    <3>3. CASE CannotReadId \/ CannotReadRecord \/ DecryptFails
      BY <3>1, <3>3 DEF CannotReadId, CannotReadRecord, DecryptFails
    <3>4. CASE WaitForFile \/ Peek \/ PeekAgain \/ ReadRecord \/ Decrypt
               \/ DecryptCrashes \/ DecryptHangs \/ Over \/ UNCHANGED readerVars
      <4>1. report' = report
        BY <3>4 DEF WaitForFile, Peek, PeekAgain, ReadRecord, Decrypt,
           DecryptCrashes, DecryptHangs, Over, readerVars, histories
      <4> QED
        BY <1>2, <4>1
    <3> QED
      BY <3>2, <3>3, <3>4 DEF Next, Reading
  <2>2. Unreadable(folder, Len(read[folder]))
    BY <2>1, CannotHasAReason
  <2>3. PICK n : n = Len(read[f])
    OBVIOUS
  <2>4. Unreadable(f, n)'
    BY <2>1, <2>2, <2>3, ReasonsStay
  <2> QED
    BY <2>1, <2>3, <2>4
<1> QED
  BY <1>1, <1>2

-----------------------------------------------------------------------------
(* The theorems.                                                           *)

\* The inductive invariant and what it implies.
LEMMA Invariance == Spec => [](TypeOK /\ FilesInv /\ Progress)
<1>1. Init => TypeOK /\ FilesInv /\ Progress
  BY TypesHoldAtFirst, ProgressHoldsAtFirst
<1>2. TypeOK /\ FilesInv /\ Progress /\ [Next]_readerVars
        => (TypeOK /\ FilesInv /\ Progress)'
  BY TypesArePreserved, ProgressIsPreserved
<1> QED
  BY <1>1, <1>2, PTL DEF Spec

\* The variables of the reader keep their types (Leticia.c:77-170).
THEOREM ReaderTypeOKAlways == Spec => []TypeOK
BY Invariance, PTL

\* In any number of folders of any size, the records are processed in the order
\* of their ids, each once and none skipped (Leticia.c:89-169).
THEOREM ReadsInOrderAlways == Spec => []ReadsInOrder
<1>1. Progress => ReadsInOrder
  BY DEF Progress
<1> QED
  BY <1>1, Invariance, PTL

\* The branch "Can't find packet ID" is dead code on what a proxy leaves
\* (Leticia.c:137-143).
THEOREM NeverLosesAnIdAlways == Spec => []NeverLosesAnId
<1>1. Progress => NeverLosesAnId
  BY DEF Progress
<1> QED
  BY <1>1, Invariance, PTL

\* What "Everything has been read" does mean (Leticia.c:103-107, 130-134).
THEOREM StopsWhenAFileRunsDryAlways == Spec => []StopsWhenAFileRunsDry
<1>1. Init => StopsWhenAFileRunsDry
  BY DEF Init, Start, StopsWhenAFileRunsDry
<1>2. TypeOK /\ FilesInv /\ Progress /\ TypeOK' /\ StopsWhenAFileRunsDry /\ [Next]_readerVars
        => StopsWhenAFileRunsDry'
  BY StopsIsPreserved
<1> QED
  BY <1>1, <1>2, Invariance, PTL DEF Spec

\* "Cannot read" is printed of a folder only for a cut record, a packet that could
\* not be decrypted, or an empty client file where the folder before ended at the
\* end of a file (RawPacket.c:138, 155-163).
THEOREM UnreadableMeansDamagedAlways == Spec => []UnreadableMeansDamaged
<1>1. Init => EndInv /\ UnreadableMeansDamaged
  BY DEF Init, Start, EndInv, UnreadableMeansDamaged
<1>2. TypeOK /\ FilesInv /\ Progress /\ TypeOK' /\ EndInv /\ UnreadableMeansDamaged
        /\ [Next]_readerVars
      => (EndInv /\ UnreadableMeansDamaged)'
  BY EndInvIsPreserved, UnreadableIsPreserved
<1> QED
  BY <1>1, <1>2, Invariance, PTL DEF Spec

=============================================================================
