----------------------------- MODULE RaciaProofs ----------------------------
(***************************************************************************)
(* Proofs about Racia, for any number of instances.                        *)
(***************************************************************************)
EXTENDS Racia, TLAPS

\* From the copy on, there is a backup to copy back.
BackupExists ==
  \A p \in Procs : pc[p] \in Replaced \cup {"restored"} => backup # "absent"

Types == TypeOK /\ BackupExists

\* Besides one that asks Racia's own address in vain, an instance that runs
\* is engaged: it will write the files.
Engaged(p) == pc[p] # "off" /\ (pc[p] = "read" => url[p] = "official")

\* What an engaged instance knows of the files.
Knows(p) ==
  Engaged(p) =>
    /\ pc[p] \in Before => client = "original"
    /\ pc[p] \in Replaced \cup {"restored"} => backup = "original"
    /\ pc[p] = "restored" => client = "original"

\* With Types, the inductive invariant: the engaged instance is alone, so
\* that nobody changes the files behind its back.
FilesInv ==
  /\ \A p, q \in Procs : Engaged(p) /\ Engaged(q) => p = q
  /\ \A p \in Procs : Knows(p)
  /\ "original" \in {client, backup}

\* The steps of an instance that leave client.xml and its backup alone.
Quiet(p) ==
  \/ RetrieveOfficial(p) \/ Choose(p) \/ OpenList(p) \/ WriteList(p)
  \/ Hook(p) \/ BeginThread(p) \/ Enter(p) \/ Interrupt(p)

-----------------------------------------------------------------------------
LEMMA TypesHoldInitially == Init => Types
  BY DEF Init, Types, TypeOK, BackupExists, ClientFiles, Urls, PCs, Before, Replaced

LEMMA TypesAreInductive ==
  ASSUME Types, [Next]_vars
  PROVE  Types'
<1> USE DEF Types, TypeOK, BackupExists, ClientFiles, Urls, PCs, Before, Replaced,
            files, locals, At, Goes
<1>1. ASSUME NEW p \in Procs, Start(p)
      PROVE  Types'
  BY <1>1 DEF Start
<1>2. ASSUME NEW p \in Procs, RetrieveOfficial(p) \/ RetrieveLocal(p)
      PROVE  Types'
  BY <1>2 DEF RetrieveOfficial, RetrieveLocal, Gone
<1>3. ASSUME NEW p \in Procs, Choose(p)
      PROVE  Types'
  BY <1>3 DEF Choose
<1>4. ASSUME NEW p \in Procs, OpenList(p) \/ WriteList(p)
      PROVE  Types'
  BY <1>4 DEF OpenList, WriteList
<1>5. ASSUME NEW p \in Procs, OpenBackup(p) \/ CopyToBackup(p)
      PROVE  Types'
  BY <1>5 DEF OpenBackup, CopyToBackup
<1>6. ASSUME NEW p \in Procs, OpenClient(p) \/ WriteClient(p)
      PROVE  Types'
  BY <1>6 DEF OpenClient, WriteClient
<1>7. ASSUME NEW p \in Procs, Hook(p) \/ BeginThread(p) \/ Enter(p)
      PROVE  Types'
  BY <1>7 DEF Hook, BeginThread, Enter
<1>8. ASSUME NEW p \in Procs, Bind(p)
      PROVE  Types'
  BY <1>8 DEF Bind
<1>9. ASSUME NEW p \in Procs, Interrupt(p)
      PROVE  Types'
  BY <1>9 DEF Interrupt
<1>10. ASSUME NEW p \in Procs, OpenRestore(p)
       PROVE  Types'
  BY <1>10 DEF OpenRestore
<1>11. ASSUME NEW p \in Procs, CopyInHandler(p) \/ CopyAtEnd(p)
       PROVE  Types'
  BY <1>11 DEF CopyInHandler, CopyAtEnd
<1>12. ASSUME NEW p \in Procs, Exit(p) \/ Dies(p)
       PROVE  Types'
  BY <1>12 DEF Exit, Dies, Gone
<1>13. CASE AnswerClient
  BY <1>13 DEF AnswerClient
<1>14. CASE UNCHANGED vars
  BY <1>14 DEF vars
<1> QED
  BY <1>1, <1>2, <1>3, <1>4, <1>5, <1>6, <1>7, <1>8, <1>9, <1>10, <1>11, <1>12,
     <1>13, <1>14 DEF Next, Retrieve, Writes, Waits, Restores

\* The type invariant holds of every behaviour.
THEOREM TypesAreCorrect == Spec => []TypeOK
<1>1. Init => Types
  BY TypesHoldInitially
<1>2. Types /\ [Next]_vars => Types'
  BY TypesAreInductive
<1>3. Types => TypeOK
  BY DEF Types
<1> QED
  BY <1>1, <1>2, <1>3, PTL DEF Spec

LEMMA TypesAlways == Spec => []Types
<1>1. Types /\ [Next]_vars => Types'
  BY TypesAreInductive
<1> QED
  BY <1>1, TypesHoldInitially, PTL DEF Spec

-----------------------------------------------------------------------------
\* Nobody becomes engaged by another one's step.
LEMMA OthersStayOut ==
  ASSUME Types, FilesInv, NEW p \in Procs, Engaged(p), NEW l,
         pc' = [pc EXCEPT ![p] = l], UNCHANGED url
  PROVE  /\ \A q \in Procs \ {p} : ~Engaged(q)'
         /\ \A a, b \in Procs : Engaged(a)' /\ Engaged(b)' => a = b
<1>1. \A q \in Procs \ {p} : pc'[q] = pc[q] /\ url'[q] = url[q]
  BY DEF Types, TypeOK
<1>2. \A q \in Procs \ {p} : ~Engaged(q)
  BY DEF FilesInv
<1>3. \A q \in Procs \ {p} : ~Engaged(q)'
  BY <1>1, <1>2 DEF Engaged
<1> QED
  BY <1>3

\* An instance that is past the reading is engaged.
LEMMA WritersAreEngaged ==
  ASSUME NEW p \in Procs, pc[p] \notin {"off", "read"}
  PROVE  Engaged(p)
  BY DEF Engaged

\* A step of the engaged instance, as far as the invariant is concerned.
LEMMA EngagedStep ==
  ASSUME Types, FilesInv, NEW p \in Procs, Engaged(p), NEW l,
         pc' = [pc EXCEPT ![p] = l], UNCHANGED url,
         l \in Before => client' = "original",
         l \in Replaced \cup {"restored"} => backup' = "original",
         l = "restored" => client' = "original",
         "original" \in {client', backup'}
  PROVE  FilesInv'
<1>1. \A q \in Procs \ {p} : Knows(q)'
  BY OthersStayOut DEF Knows
<1>2. pc'[p] = l
  BY DEF Types, TypeOK
<1>3. Knows(p)'
  BY <1>2 DEF Knows
<1> QED
  BY <1>1, <1>3, OthersStayOut DEF FilesInv

\* An instance that ends leaves what there is.
LEMMA EndKeepsFiles ==
  ASSUME Types, FilesInv, NEW p \in Procs, pc' = [pc EXCEPT ![p] = "off"],
         UNCHANGED <<client, backup, url>>
  PROVE  FilesInv'
<1>1. \A q \in Procs : q # p => pc'[q] = pc[q] /\ url'[q] = url[q]
  BY DEF Types, TypeOK
<1>2. ~Engaged(p)'
  BY DEF Types, TypeOK, Engaged
<1>3. \A q \in Procs : Engaged(q)' => q # p /\ Engaged(q)
  BY <1>1, <1>2 DEF Engaged
<1>4. \A q \in Procs : Knows(q)'
  BY <1>1, <1>3 DEF Knows, FilesInv
<1> QED
  BY <1>3, <1>4 DEF FilesInv

LEMMA StartKeepsFiles ==
  ASSUME Types, FilesInv, NEW p \in Procs, Start(p), ~overlapped'
  PROVE  FilesInv'
<1>1. /\ pc[p] = "off"
      /\ \A q \in Procs \ {p} : pc'[q] = pc[q] /\ url'[q] = url[q]
      /\ pc'[p] = "read"
      /\ url'[p] = IF client = "original" THEN "official" ELSE "local"
      /\ UNCHANGED <<client, backup>>
  BY DEF Start, At, Goes, files, Types, TypeOK
<1>2. \A q \in Procs \ {p} : /\ Engaged(q)' <=> Engaged(q)
                             /\ Knows(q)' <=> Knows(q)
  BY <1>1 DEF Engaged, Knows
<1>3. CASE client = "original"
  <2>1. \A q \in Procs \ {p} : pc[q] = "off"
    BY <1>3 DEF Start
  <2>2. \A q \in Procs \ {p} : ~Engaged(q)'
    BY <1>2, <2>1 DEF Engaged
  <2>3. Knows(p)'
    BY <1>1, <1>3 DEF Knows, Replaced
  <2> QED
    BY <1>1, <1>2, <2>2, <2>3 DEF FilesInv
<1>4. CASE client # "original"
  <2>1. ~Engaged(p)'
    BY <1>1, <1>4 DEF Engaged
  <2>2. Knows(p)'
    BY <2>1 DEF Knows
  <2> QED
    BY <1>1, <1>2, <2>1, <2>2 DEF FilesInv
<1> QED
  BY <1>3, <1>4

LEMMA QuietKeepsFiles ==
  ASSUME Types, FilesInv, NEW p \in Procs, Quiet(p)
  PROVE  FilesInv'
<1> USE DEF files, locals, At, Goes, Before, Replaced
<1>1. CASE RetrieveOfficial(p) \/ Choose(p)
  <2>1. Engaged(p) /\ pc[p] \in Before
    BY <1>1 DEF RetrieveOfficial, Choose, Engaged
  <2>2. client = "original"
    BY <2>1 DEF FilesInv, Knows
  <2> QED
    BY <1>1, <2>1, <2>2, EngagedStep DEF RetrieveOfficial, Choose
<1>2. CASE OpenList(p) \/ WriteList(p)
  <2>1. Engaged(p) /\ pc[p] \in Before
    BY <1>2 DEF OpenList, WriteList, Engaged
  <2>2. client = "original"
    BY <2>1 DEF FilesInv, Knows
  <2> QED
    BY <1>2, <2>1, <2>2, EngagedStep DEF OpenList, WriteList
<1>3. CASE Hook(p) \/ BeginThread(p) \/ Enter(p)
  <2>1. Engaged(p) /\ pc[p] \in Replaced
    BY <1>3 DEF Hook, BeginThread, Enter, Engaged
  <2>2. backup = "original"
    BY <2>1 DEF FilesInv, Knows
  <2> QED
    BY <1>3, <2>1, <2>2, EngagedStep DEF Hook, BeginThread, Enter
<1>4. CASE Interrupt(p)
  <2>1. Engaged(p) /\ pc[p] \in Replaced \cup {"restored"}
    BY <1>4 DEF Interrupt, Engaged
  <2>2. backup = "original"
    BY <2>1 DEF FilesInv, Knows
  <2> QED
    BY <1>4, <2>1, <2>2, EngagedStep DEF Interrupt
<1> QED
  BY <1>1, <1>2, <1>3, <1>4 DEF Quiet

LEMMA WriteKeepsFiles ==
  ASSUME Types, FilesInv, NEW p \in Procs,
         OpenBackup(p) \/ CopyToBackup(p) \/ OpenClient(p) \/ WriteClient(p)
  PROVE  FilesInv'
<1> USE DEF files, locals, At, Goes, Before, Replaced
<1>1. Engaged(p)
  BY DEF OpenBackup, CopyToBackup, OpenClient, WriteClient, Engaged
<1>2. CASE OpenBackup(p) \/ CopyToBackup(p)
  <2>1. client = "original"
    BY <1>1, <1>2 DEF OpenBackup, CopyToBackup, FilesInv, Knows
  <2> QED
    BY <1>1, <1>2, <2>1, EngagedStep DEF OpenBackup, CopyToBackup
<1>3. CASE OpenClient(p) \/ WriteClient(p)
  <2>1. backup = "original"
    BY <1>1, <1>3 DEF OpenClient, WriteClient, FilesInv, Knows
  <2> QED
    BY <1>1, <1>3, <2>1, EngagedStep DEF OpenClient, WriteClient
<1> QED
  BY <1>2, <1>3

LEMMA RestoreKeepsFiles ==
  ASSUME Types, FilesInv, NEW p \in Procs, Restores(p)
  PROVE  FilesInv'
<1> USE DEF files, locals, At, Goes, Before, Replaced
<1>1. Engaged(p)
  BY DEF Restores, OpenRestore, CopyInHandler, CopyAtEnd, Engaged
<1>2. backup = "original"
  BY <1>1 DEF Restores, OpenRestore, CopyInHandler, CopyAtEnd, FilesInv, Knows
<1>3. CASE OpenRestore(p)
  BY <1>1, <1>2, <1>3, EngagedStep DEF OpenRestore
<1>4. CASE CopyInHandler(p)
  BY <1>1, <1>2, <1>4, EngagedStep DEF CopyInHandler
<1>5. CASE CopyAtEnd(p)
  BY <1>1, <1>2, <1>5, EngagedStep DEF CopyAtEnd
<1> QED
  BY <1>3, <1>4, <1>5 DEF Restores

LEMMA FilesInvIsInductive ==
  ASSUME Types, ~overlapped => FilesInv, [Next]_vars
  PROVE  (~overlapped => FilesInv)'
<1>1. ASSUME NEW p \in Procs, Start(p)
      PROVE  (~overlapped => FilesInv)'
  BY <1>1, StartKeepsFiles DEF Start
<1>2. ASSUME NEW p \in Procs, Quiet(p)
      PROVE  (~overlapped => FilesInv)'
  <2>1. UNCHANGED overlapped
    BY <1>2 DEF Quiet, RetrieveOfficial, Choose, OpenList, WriteList, Hook,
                BeginThread, Enter, Interrupt
  <2> QED
    BY <1>2, <2>1, QuietKeepsFiles
<1>3. ASSUME NEW p \in Procs, RetrieveLocal(p)
      PROVE  (~overlapped => FilesInv)'
  BY <1>3, EndKeepsFiles DEF RetrieveLocal, Gone, Goes, files
<1>4. ASSUME NEW p \in Procs,
             OpenBackup(p) \/ CopyToBackup(p) \/ OpenClient(p) \/ WriteClient(p)
      PROVE  (~overlapped => FilesInv)'
  <2>1. UNCHANGED overlapped
    BY <1>4 DEF OpenBackup, CopyToBackup, OpenClient, WriteClient
  <2> QED
    BY <1>4, <2>1, WriteKeepsFiles
<1>5. ASSUME NEW p \in Procs, Restores(p)
      PROVE  (~overlapped => FilesInv)'
  <2>1. UNCHANGED overlapped
    BY <1>5 DEF Restores, OpenRestore, CopyInHandler, CopyAtEnd
  <2> QED
    BY <1>5, <2>1, RestoreKeepsFiles
<1>6. ASSUME NEW p \in Procs, Exit(p) \/ Dies(p)
      PROVE  (~overlapped => FilesInv)'
  BY <1>6, EndKeepsFiles DEF Exit, Dies, Gone, Goes, files
<1>7. ASSUME UNCHANGED <<client, backup, pc, url, overlapped>>
      PROVE  (~overlapped => FilesInv)'
  BY <1>7 DEF FilesInv, Knows, Engaged
<1>8. CASE AnswerClient \/ (\E p \in Procs : Bind(p)) \/ UNCHANGED vars
  BY <1>7, <1>8 DEF AnswerClient, Bind, vars, files, locals
<1> QED
  BY <1>1, <1>2, <1>3, <1>4, <1>5, <1>6, <1>8
     DEF Next, Retrieve, Writes, Waits, Quiet

LEMMA FilesInvAlways == Spec => [](~overlapped => FilesInv)
<1>1. Init => (~overlapped => FilesInv)
  BY DEF Init, FilesInv, Knows, Engaged
<1>2. Types /\ (~overlapped => FilesInv) /\ [Next]_vars => (~overlapped => FilesInv)'
  BY FilesInvIsInductive
<1> QED
  BY <1>1, <1>2, TypesAlways, PTL DEF Spec

\* The client.xml the game came with survives every crash: as long as no two
\* instances got under way together, it is client.xml or its backup.
THEOREM TheOriginalSurvives == Spec => []OriginalSurvives
<1>1. (~overlapped => FilesInv) => OriginalSurvives
  BY DEF FilesInv, OriginalSurvives
<1> QED
  BY <1>1, FilesInvAlways, PTL

\* Under the same condition, an instance that says so has restored the client.xml
\* the game came with.
THEOREM WhatIsRestoredIsTheOriginal == Spec => []RestoredIsOriginal
<1>1. (~overlapped => FilesInv) => RestoredIsOriginal
  BY DEF FilesInv, Knows, Engaged, RestoredIsOriginal
<1> QED
  BY <1>1, FilesInvAlways, PTL
=============================================================================
