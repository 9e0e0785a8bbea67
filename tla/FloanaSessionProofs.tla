------------------------- MODULE FloanaSessionProofs ------------------------
(***************************************************************************)
(* Proofs about FloanaSession, for any number of processes of any kind:    *)
(* the ids of sessions, while no two command lines were parsed at once;    *)
(* the types, which rest on counting who has drawn an id; and what the     *)
(* metadata of a session names, while its updates did not overlap.         *)
(***************************************************************************)
EXTENDS FloanaSession, FiniteSetTheorems, TLAPS

\* The types the arguments below need.
IdTypes ==
  /\ pc \in [Procs -> Labels]
  /\ idNumber \in Int
  /\ drawn \in [Procs -> Int]
  /\ session \in [Procs -> Int]
  /\ newest \in Int

\* At most one process is at its command line.
OneParser ==
  \A p, q \in Procs : pc[p] \in Parsing /\ pc[q] \in Parsing => p = q

\* The file holds the successor of the newest session, once it holds anything.
FileInv ==
  /\ idState \in {"absent", "empty", "number"}
  /\ idState # "number" => newest = -1
  /\ idState = "number" => idNumber = newest + 1
  /\ idState = "empty" => \E p \in Procs : pc[p] = "fillId"

\* What the process at its command line has seen is still so.
DrawnInv ==
  \A p \in Procs :
    /\ pc[p] = "createId" => idState = "absent"
    /\ pc[p] = "fillId" => idState = "empty" /\ drawn[p] = 0
    /\ pc[p] = "rewriteId" => idState = "number" /\ drawn[p] = idNumber

\* No session is newer than the newest.
NewestInv == \A p \in Procs : Action[p] = "new" => session[p] <= newest

\* With IdTypes, the inductive invariant.
IdInv ==
  ~idDisturbed =>
    OneParser /\ FileInv /\ DrawnInv /\ NewestInv /\ SessionsAreDistinct

\* The steps of a process that leave session_id, and who is at it, alone.
Elsewhere(p) ==
  \/ LoadingFails(p) \/ BindGui(p) \/ AcceptGui(p) \/ Listen(p) \/ AcceptClient(p)
  \/ ReadMetadata(p) \/ TruncateMetadata(p) \/ WriteMetadata(p) \/ EndRelay(p)
  \/ Unload(p) \/ WaitForOthers(p) \/ Exit(p)

LEMMA ElsewhereFrame ==
  ASSUME IdTypes, NEW p \in Procs, Elsewhere(p)
  PROVE  /\ UNCHANGED idVars
         /\ \E l \in Labels \ Parsing : pc' = [pc EXCEPT ![p] = l]
         /\ pc[p] \notin Parsing
<1>1. CASE BindGui(p)
  BY <1>1 DEF BindGui, Goto, Labels, Parsing, Updating
<1>2. CASE AcceptGui(p)
  BY <1>2 DEF AcceptGui, Goto, Labels, Parsing, Updating
<1>3. CASE Listen(p)
  BY <1>3 DEF Listen, Goto, Labels, Parsing, Updating
<1>4. CASE AcceptClient(p)
  BY <1>4 DEF AcceptClient, Goto, Labels, Parsing, Updating
<1>5. CASE ReadMetadata(p)
  BY <1>5 DEF ReadMetadata, Goto, Labels, Parsing, Updating
<1>6. CASE TruncateMetadata(p)
  BY <1>6 DEF TruncateMetadata, Goto, Labels, Parsing, Updating
<1>7. CASE WriteMetadata(p)
  BY <1>7 DEF WriteMetadata, Goto, Labels, Parsing, Updating
<1>8. CASE EndRelay(p)
  BY <1>8 DEF EndRelay, Goto, Labels, Parsing, Updating
<1>9. CASE Unload(p)
  BY <1>9 DEF Unload, Goto, Labels, Parsing, Updating
<1>10. CASE WaitForOthers(p)
  BY <1>10 DEF WaitForOthers, Goto, Labels, Parsing, Updating
<1>11. CASE Exit(p)
  BY <1>11 DEF Exit, Goto, Labels, Parsing, Updating
<1>12. CASE LoadingFails(p)
  BY <1>12 DEF LoadingFails, Abandon, Goto, Labels, Parsing, Updating
<1> QED
  BY <1>1, <1>2, <1>3, <1>4, <1>5, <1>6, <1>7, <1>8, <1>9, <1>10, <1>11, <1>12
     DEF Elsewhere

\* A step that leaves the file alone, and at most leaves it.
LEMMA FrameKeepsIds ==
  ASSUME IdTypes, IdInv, ~idDisturbed, NEW p \in Procs, pc[p] # "fillId",
         NEW l \in Labels \ Parsing, pc' = [pc EXCEPT ![p] = l],
         \A q \in Procs : q # p => drawn'[q] = drawn[q],
         UNCHANGED <<idState, idNumber, session, newest>>
  PROVE  OneParser' /\ FileInv' /\ DrawnInv' /\ NewestInv' /\ SessionsAreDistinct'
<1>1. \A q \in Procs : pc'[q] \in Parsing => q # p /\ pc'[q] = pc[q]
  BY DEF IdTypes
<1>2. \A q \in Procs : pc[q] = "fillId" => pc'[q] = "fillId"
  BY DEF IdTypes
<1>3. OneParser'
  BY <1>1 DEF IdInv, OneParser
<1>4. FileInv'
  BY <1>2 DEF IdInv, FileInv
<1>5. DrawnInv'
  BY <1>1 DEF IdInv, DrawnInv, Parsing
<1>6. NewestInv' /\ SessionsAreDistinct'
  BY DEF IdInv, NewestInv, SessionsAreDistinct
<1> QED
  BY <1>3, <1>4, <1>5, <1>6

LEMMA IdTypesArePreserved ==
  ASSUME IdTypes, [Next]_vars
  PROVE  IdTypes'
<1>1. CASE \E p \in Procs : Elsewhere(p)
  <2>. PICK p \in Procs : Elsewhere(p)
    BY <1>1
  <2> QED
    BY ElsewhereFrame DEF IdTypes, idVars
<1>2. ASSUME NEW p \in Procs, Launch(p)
      PROVE  IdTypes'
  BY <1>2 DEF Launch, Goto, IdTypes, Labels, Parsing
<1>3. ASSUME NEW p \in Procs, OpenId(p)
      PROVE  IdTypes'
  <2>1. Junk \in Int
    BY SessionAssumption
  <2> QED
    BY <1>3, <2>1 DEF OpenId, Goto, IdTypes, Labels, Parsing
<1>4. ASSUME NEW p \in Procs, CreateId(p)
      PROVE  IdTypes'
  BY <1>4 DEF CreateId, Goto, IdTypes, Labels, Parsing
<1>5. ASSUME NEW p \in Procs, RewriteId(p)
      PROVE  IdTypes'
  <2>1. drawn[p] \in Int
    BY DEF IdTypes
  <2>2. pc' \in [Procs -> Labels]
    BY <1>5 DEF RewriteId, AfterParsing, Goto, IdTypes, Labels
  <2>3. session' \in [Procs -> Int] /\ drawn' \in [Procs -> Int]
    BY <1>5, <2>1 DEF RewriteId, IdTypes
  <2>4. idNumber' \in Int /\ newest' \in Int
    BY <1>5, <2>1 DEF RewriteId, IdTypes
  <2> QED
    BY <2>2, <2>3, <2>4 DEF IdTypes
<1>6. ASSUME NEW p \in Procs, Kill(p)
      PROVE  IdTypes'
  BY <1>6 DEF Kill, Goto, IdTypes, Labels
<1>7. ASSUME NEW p \in Procs, RefuseType(p) \/ MissAction(p)
      PROVE  IdTypes'
  BY <1>7 DEF RefuseType, MissAction, Abandon, Goto, IdTypes, Labels, idVars
<1>8. ASSUME NEW p \in Procs, RefuseAction(p)
      PROVE  IdTypes'
  BY <1>8 DEF RefuseAction, Abandon, Goto, IdTypes, Labels
<1>9. CASE Sleep \/ UNCHANGED vars
  BY <1>9 DEF Sleep, vars, idVars, IdTypes
<1> QED
  BY <1>1, <1>2, <1>3, <1>4, <1>5, <1>6, <1>7, <1>8, <1>9
     DEF Next, Step, Fail, Elsewhere

\* The process that parses its command line, alone, takes the id of a session
\* that nobody else has, or that of the newest one.
LEMMA RewriteKeepsIds ==
  ASSUME IdTypes, IdInv, ~idDisturbed, NEW p \in Procs, RewriteId(p)
  PROVE  /\ OneParser' /\ FileInv' /\ DrawnInv' /\ NewestInv'
         /\ SessionsAreDistinct'
         /\ Action[p] = "continue" => session'[p] = newest
<1>1. /\ pc[p] \in {"fillId", "rewriteId"} /\ pc[p] \in Parsing
      /\ \A q \in Procs : q # p => pc[q] \notin Parsing
  BY DEF RewriteId, Parsing, IdInv, OneParser
<1>2. /\ drawn[p] = newest + 1 /\ newest \in Int
      /\ pc[p] = "fillId" => newest = -1
      /\ pc[p] = "rewriteId" => idState = "number" /\ idNumber = newest + 1
  BY <1>1 DEF IdInv, IdTypes, FileInv, DrawnInv
<1>3. OneParser' /\ DrawnInv'
  <2>1. \A q \in Procs : pc'[q] \notin Parsing
    BY <1>1 DEF RewriteId, AfterParsing, Goto, Parsing, IdTypes
  <2> QED
    BY <2>1 DEF OneParser, DrawnInv, Parsing
<1>4. CASE Action[p] = "new"
  <2>1. /\ session' = [session EXCEPT ![p] = drawn[p]] /\ newest' = drawn[p]
        /\ idState' = "number" /\ idNumber' = drawn[p] + 1
    BY <1>4 DEF RewriteId
  <2>2. FileInv' /\ NewestInv'
    BY <1>2, <2>1 DEF FileInv, NewestInv, IdInv, IdTypes
  <2>3. SessionsAreDistinct'
    <3>1. /\ session'[p] = newest + 1
          /\ \A q \in Procs : q # p => session'[q] = session[q]
      BY <1>2, <2>1 DEF IdTypes
    <3>2. \A q \in Procs : q # p /\ Action[q] = "new" => session'[q] # session'[p]
      BY <1>2, <3>1 DEF IdInv, NewestInv, IdTypes
    <3> QED
      BY <3>1, <3>2 DEF IdInv, SessionsAreDistinct
  <2> QED
    BY <1>3, <1>4, <2>2, <2>3
<1>5. CASE Action[p] # "new"
  <2>1. /\ session' = [session EXCEPT ![p] = drawn[p] - 1] /\ newest' = newest
    BY <1>5 DEF RewriteId
  <2>2. session' = [session EXCEPT ![p] = newest] /\ session'[p] = newest
    BY <1>2, <2>1 DEF IdTypes
  <2>3. idState' = "number" /\ idNumber' = newest + 1
    BY <1>1, <1>2, <1>5 DEF RewriteId
  <2>4. FileInv' /\ NewestInv'
    BY <2>1, <2>2, <2>3 DEF FileInv, NewestInv, IdInv, IdTypes
  <2>5. SessionsAreDistinct'
    BY <1>5, <2>2 DEF IdInv, SessionsAreDistinct, IdTypes
  <2> QED
    BY <1>3, <2>2, <2>4, <2>5
<1> QED
  BY <1>4, <1>5

\* A process whose action is refused leaves a file behind that counts no
\* session, as there was, or none yet.
LEMMA RefuseActionKeepsIds ==
  ASSUME IdTypes, IdInv, ~idDisturbed, NEW p \in Procs, RefuseAction(p)
  PROVE  OneParser' /\ FileInv' /\ DrawnInv' /\ NewestInv' /\ SessionsAreDistinct'
<1>1. PICK l \in Labels \ Parsing : pc' = [pc EXCEPT ![p] = l]
  BY DEF RefuseAction, Abandon, Goto, Labels, Parsing, Updating
<1>2. /\ UNCHANGED <<session, newest>>
      /\ \A q \in Procs : q # p => drawn'[q] = drawn[q]
  BY DEF RefuseAction, IdTypes
<1>3. CASE pc[p] = "rewriteId"
  <2>1. UNCHANGED <<idState, idNumber>>
    BY <1>3 DEF RefuseAction
  <2> QED
    BY <1>1, <1>2, <1>3, <2>1, FrameKeepsIds
<1>4. CASE pc[p] = "fillId"
  <2>1. \A q \in Procs : pc'[q] \notin Parsing
    BY <1>1, <1>4 DEF IdInv, OneParser, Parsing, IdTypes
  <2>2. idState' = "number" /\ idNumber' = 0 /\ newest = -1
    BY <1>4 DEF RefuseAction, IdInv, FileInv, DrawnInv
  <2>3. OneParser' /\ FileInv' /\ DrawnInv'
    BY <1>2, <2>1, <2>2 DEF OneParser, FileInv, DrawnInv, Parsing
  <2>4. NewestInv' /\ SessionsAreDistinct'
    BY <1>2 DEF IdInv, NewestInv, SessionsAreDistinct
  <2> QED
    BY <2>3, <2>4
<1> QED
  BY <1>3, <1>4 DEF RefuseAction

LEMMA IdInvIsPreserved ==
  ASSUME IdTypes, IdInv, [Next]_vars
  PROVE  IdInv'
<1>1. CASE \E p \in Procs : Elsewhere(p)
  <2>. PICK p \in Procs : Elsewhere(p)
    BY <1>1
  <2>1. UNCHANGED <<idState, idNumber, drawn, session, newest, idDisturbed>>
    BY ElsewhereFrame DEF idVars
  <2>2. pc[p] # "fillId"
    BY ElsewhereFrame DEF Parsing
  <2> QED
    BY <2>1, <2>2, ElsewhereFrame, FrameKeepsIds DEF IdInv
<1>2. ASSUME NEW p \in Procs, Launch(p), ~idDisturbed'
      PROVE  OneParser' /\ FileInv' /\ DrawnInv' /\ NewestInv' /\ SessionsAreDistinct'
  <2>1. ~idDisturbed /\ \A q \in Procs : pc[q] \notin Parsing
    BY <1>2 DEF Launch
  <2>2. pc[p] = "off" /\ pc' = [pc EXCEPT ![p] = "openId"]
    BY <1>2 DEF Launch, Goto
  <2>3. UNCHANGED <<idState, idNumber, drawn, session, newest>>
    BY <1>2 DEF Launch
  <2>4. OneParser' /\ DrawnInv'
    BY <2>1, <2>2 DEF IdTypes, OneParser, DrawnInv, Parsing
  <2>5. FileInv' /\ NewestInv' /\ SessionsAreDistinct'
    BY <2>1, <2>3 DEF IdInv, FileInv, NewestInv, SessionsAreDistinct, Parsing
  <2> QED
    BY <2>4, <2>5
<1>3. ASSUME NEW p \in Procs, OpenId(p), ~idDisturbed'
      PROVE  OneParser' /\ FileInv' /\ DrawnInv' /\ NewestInv' /\ SessionsAreDistinct'
  <2>1. ~idDisturbed /\ UNCHANGED <<idState, idNumber, session, newest>>
    BY <1>3 DEF OpenId
  <2>2. \A q \in Procs : q # p => pc[q] \notin Parsing
    BY <1>3, <2>1 DEF OpenId, IdInv, OneParser, Parsing
  <2>3. idState # "empty"
    BY <1>3, <2>1, <2>2 DEF OpenId, IdInv, FileInv, Parsing
  <2>4. \A q \in Procs : q # p => pc'[q] = pc[q]
    BY <1>3 DEF OpenId, Goto, IdTypes
  <2>5. OneParser'
    BY <2>2, <2>4 DEF OneParser
  <2>6. /\ pc'[p] = IF idState = "absent" THEN "createId" ELSE "rewriteId"
        /\ idState # "absent" => drawn'[p] = idNumber
    BY <1>3, <2>3 DEF OpenId, Goto, IdTypes
  <2>7. DrawnInv'
    BY <2>1, <2>2, <2>3, <2>4, <2>6 DEF IdInv, FileInv, DrawnInv, Parsing
  <2>8. FileInv' /\ NewestInv' /\ SessionsAreDistinct'
    BY <2>1, <2>3 DEF IdInv, FileInv, NewestInv, SessionsAreDistinct
  <2> QED
    BY <2>5, <2>7, <2>8
<1>4. ASSUME NEW p \in Procs, CreateId(p), ~idDisturbed'
      PROVE  OneParser' /\ FileInv' /\ DrawnInv' /\ NewestInv' /\ SessionsAreDistinct'
  <2>1. ~idDisturbed /\ UNCHANGED <<session, newest>> /\ idState' = "empty"
    BY <1>4 DEF CreateId
  <2>2. \A q \in Procs : q # p => pc[q] \notin Parsing
    BY <1>4, <2>1 DEF CreateId, IdInv, OneParser, Parsing
  <2>3. \A q \in Procs : q # p => pc'[q] = pc[q]
    BY <1>4 DEF CreateId, Goto, IdTypes
  <2>4. pc'[p] = "fillId" /\ drawn'[p] = 0
    BY <1>4 DEF CreateId, Goto, IdTypes
  <2>5. newest = -1
    BY <1>4, <2>1 DEF CreateId, IdInv, DrawnInv, FileInv
  <2>6. OneParser' /\ DrawnInv'
    BY <2>1, <2>2, <2>3, <2>4 DEF OneParser, DrawnInv, Parsing
  <2>7. FileInv' /\ NewestInv' /\ SessionsAreDistinct'
    BY <2>1, <2>4, <2>5 DEF IdInv, FileInv, NewestInv, SessionsAreDistinct
  <2> QED
    BY <2>6, <2>7
<1>5. ASSUME NEW p \in Procs, RewriteId(p), ~idDisturbed'
      PROVE  OneParser' /\ FileInv' /\ DrawnInv' /\ NewestInv' /\ SessionsAreDistinct'
  BY <1>5, RewriteKeepsIds DEF RewriteId
<1>6. ASSUME NEW p \in Procs, Kill(p), ~idDisturbed'
      PROVE  OneParser' /\ FileInv' /\ DrawnInv' /\ NewestInv' /\ SessionsAreDistinct'
  <2>1. ~idDisturbed /\ pc[p] # "fillId"
    BY <1>6 DEF Kill
  <2>2. pc' = [pc EXCEPT ![p] = "gone"] /\ "gone" \in Labels \ Parsing
    BY <1>6 DEF Kill, Goto, Labels, Parsing, Updating
  <2>3. UNCHANGED <<idState, idNumber, drawn, session, newest>>
    BY <1>6 DEF Kill
  <2> QED
    BY <2>1, <2>2, <2>3, FrameKeepsIds
<1>7. ASSUME NEW p \in Procs, RefuseType(p) \/ MissAction(p), ~idDisturbed'
      PROVE  OneParser' /\ FileInv' /\ DrawnInv' /\ NewestInv' /\ SessionsAreDistinct'
  <2>1. ~idDisturbed /\ pc[p] # "fillId"
    <3>1. CASE RefuseType(p)
      BY <1>7, <3>1 DEF RefuseType, idVars
    <3>2. CASE MissAction(p)
      BY <1>7, <3>2 DEF MissAction
    <3> QED
      BY <1>7, <3>1, <3>2
  <2>2. PICK l \in Labels \ Parsing : pc' = [pc EXCEPT ![p] = l]
    BY <1>7 DEF RefuseType, MissAction, Abandon, Goto, Labels, Parsing, Updating
  <2>3. UNCHANGED <<idState, idNumber, drawn, session, newest>>
    BY <1>7 DEF RefuseType, MissAction, idVars
  <2> QED
    BY <2>1, <2>2, <2>3, FrameKeepsIds
<1>8. ASSUME NEW p \in Procs, RefuseAction(p), ~idDisturbed'
      PROVE  OneParser' /\ FileInv' /\ DrawnInv' /\ NewestInv' /\ SessionsAreDistinct'
  BY <1>8, RefuseActionKeepsIds DEF RefuseAction
<1>9. CASE Sleep \/ UNCHANGED vars
  BY <1>9 DEF Sleep, vars, idVars, IdInv, OneParser, FileInv, DrawnInv, NewestInv,
     SessionsAreDistinct
<1>10. (\E p \in Procs : Elsewhere(p) \/ Launch(p) \/ OpenId(p) \/ CreateId(p)
                        \/ RewriteId(p) \/ Kill(p) \/ RefuseType(p) \/ MissAction(p)
                        \/ RefuseAction(p))
       \/ Sleep \/ UNCHANGED vars
  BY DEF Next, Step, Fail, Elsewhere
<1> QED
  BY <1>1, <1>2, <1>3, <1>4, <1>5, <1>6, <1>7, <1>8, <1>9, <1>10 DEF IdInv

LEMMA IdInvariance == Spec => [](IdTypes /\ IdInv)
<1>1. Init => IdTypes /\ IdInv
  BY DEF Init, IdTypes, IdInv, OneParser, FileInv, DrawnInv, NewestInv,
     SessionsAreDistinct, Labels, Parsing
<1>2. IdTypes /\ IdInv /\ [Next]_vars => IdTypes' /\ IdInv'
  BY IdTypesArePreserved, IdInvIsPreserved
<1> QED
  BY <1>1, <1>2, PTL DEF Spec

\* Sessions begun one after the other have different ids, however many processes
\* are started and killed meanwhile (Floana.c:482-502).
THEOREM SessionsAreDistinctAlways == Spec => []SessionsAreDistinct
<1>1. IdInv => SessionsAreDistinct
  BY DEF IdInv, SessionsAreDistinct
<1> QED
  BY <1>1, IdInvariance, PTL

\* "continue" joins the newest session (Floana.c:502-507).
THEOREM ContinueJoinsTheNewestAlways == Spec => ContinueJoinsTheNewest
<1> DEFINE Joins ==
      \A p \in Procs :
        /\ Action[p] = "continue"
        /\ session'[p] # session[p]
        /\ ~idDisturbed
        => session'[p] = newest
<1>1. ASSUME IdTypes, IdInv, [Next]_vars
      PROVE  [Joins]_vars
  <2> SUFFICES ASSUME NEW p \in Procs, Action[p] = "continue",
                      session'[p] # session[p], ~idDisturbed
               PROVE  session'[p] = newest
    BY DEF Joins
  <2>1. PICK q \in Procs : RewriteId(q)
    <3>1. CASE \E q \in Procs : Elsewhere(q)
      BY <1>1, <3>1, ElsewhereFrame DEF idVars
    <3> QED
      BY <1>1, <3>1 DEF Next, Step, Fail, Elsewhere, Launch, OpenId, CreateId, Kill,
         RefuseType, RefuseAction, MissAction, Sleep, vars, idVars
  <2>2. p = q
    BY <1>1, <2>1 DEF RewriteId, IdTypes
  <2> QED
    BY <1>1, <2>1, <2>2, RewriteKeepsIds
<1>2. [](IdTypes /\ IdInv) /\ [][Next]_vars => [][Joins]_vars
  BY <1>1, PTL
<1> QED
  BY <1>2, IdInvariance, PTL DEF Spec, ContinueJoinsTheNewest

-----------------------------------------------------------------------------
(* The types.  That ids stay within Sessions is a matter of counting: the  *)
(* number in session_id grows with the processes that have drawn one.      *)

Drew == {p \in Procs : session[p] # -2}

\* With TypeOK, inductive.
CountInv ==
  /\ idNumber \in 0 .. Junk + Cardinality(Drew)
  /\ \A p \in Procs : drawn[p] \in 0 .. Junk + Cardinality(Drew)
  /\ \A p \in Procs : pc[p] \in Parsing \cup {"off"} => session[p] = -2

LEMMA CountOfDrew ==
  ASSUME TypeOK
  PROVE  /\ IsFiniteSet(Drew) /\ Cardinality(Drew) \in Nat
         /\ Cardinality(Drew) <= Cardinality(Procs)
         /\ Cardinality(Procs) \in Nat /\ Junk \in Nat
<1>1. IsFiniteSet(Procs) /\ Junk \in Nat /\ Drew \in SUBSET Procs
  BY SessionAssumption DEF Drew
<1> QED
  BY <1>1, FS_Subset, FS_CardinalityType

\* The variables of the ports and of the metadata keep their types.
OtherTypes ==
  /\ metadata \in [Sessions -> [state : {"absent", "torn", "whole"},
                                has : SUBSET Types]]
  /\ scratch \in [Procs -> SUBSET Types]
  /\ guiPort \in Procs \cup {Nobody}
  /\ proxyPort \in [Types -> Procs \cup {Nobody}]
  /\ updated \subseteq Procs
  /\ idDisturbed \in BOOLEAN
  /\ metaDisturbed \in [Sessions -> BOOLEAN]

LEMMA ReleaseKeepsTypes ==
  ASSUME guiPort \in Procs \cup {Nobody}, proxyPort \in [Types -> Procs \cup {Nobody}],
         NEW p \in Procs, Release(p)
  PROVE  guiPort' \in Procs \cup {Nobody} /\ proxyPort' \in [Types -> Procs \cup {Nobody}]
  BY DEF Release

LEMMA OtherTypesArePreserved ==
  ASSUME TypeOK, [Next]_vars
  PROVE  OtherTypes' /\ pc' \in [Procs -> Labels]
<1> USE DEF TypeOK, OtherTypes, Goto
<1>1. ASSUME NEW p \in Procs, Launch(p)
      PROVE  OtherTypes' /\ pc' \in [Procs -> Labels]
  BY <1>1 DEF Launch, metaVars, portVars, Labels, Parsing
<1>2. ASSUME NEW p \in Procs, OpenId(p) \/ CreateId(p)
      PROVE  OtherTypes' /\ pc' \in [Procs -> Labels]
  BY <1>2 DEF OpenId, CreateId, metaVars, portVars, Labels, Parsing
<1>3. ASSUME NEW p \in Procs, RewriteId(p)
      PROVE  OtherTypes' /\ pc' \in [Procs -> Labels]
  BY <1>3 DEF RewriteId, AfterParsing, metaVars, portVars, Labels
<1>4. ASSUME NEW p \in Procs, NEW waits \in BOOLEAN, Abandon(p, waits)
      PROVE  /\ pc' \in [Procs -> Labels]
             /\ guiPort' \in Procs \cup {Nobody}
             /\ proxyPort' \in [Types -> Procs \cup {Nobody}]
  <2>1. CASE Goto(p, "gone") /\ Release(p)
    BY <2>1, ReleaseKeepsTypes DEF Labels
  <2>2. CASE Goto(p, IF waits THEN "waitOthers" ELSE "exitPlugins") /\ UNCHANGED portVars
    BY <2>2 DEF portVars, Labels
  <2> QED
    BY <1>4, <2>1, <2>2 DEF Abandon
<1>5. ASSUME NEW p \in Procs, RefuseType(p) \/ LoadingFails(p)
      PROVE  OtherTypes' /\ pc' \in [Procs -> Labels]
  <2>1. Abandon(p, Action[p] = "new") /\ UNCHANGED <<idVars, metaVars>>
    BY <1>5 DEF RefuseType, LoadingFails
  <2> QED
    BY <1>4, <2>1 DEF idVars, metaVars
<1>6. ASSUME NEW p \in Procs, RefuseAction(p)
      PROVE  OtherTypes' /\ pc' \in [Procs -> Labels]
  <2>1. Abandon(p, FALSE) /\ UNCHANGED <<session, newest, idDisturbed, metaVars>>
    BY <1>6 DEF RefuseAction
  <2> QED
    BY <1>4, <2>1 DEF metaVars
<1>7. ASSUME NEW p \in Procs, MissAction(p)
      PROVE  OtherTypes' /\ pc' \in [Procs -> Labels]
  <2>1. /\ guiPort' \in Procs \cup {Nobody}
        /\ proxyPort' \in [Types -> Procs \cup {Nobody}]
    BY <1>7, ReleaseKeepsTypes DEF MissAction
  <2> QED
    BY <1>7, <2>1 DEF MissAction, metaVars, Labels
<1>8. ASSUME NEW p \in Procs, BindGui(p) \/ AcceptGui(p)
      PROVE  OtherTypes' /\ pc' \in [Procs -> Labels]
  BY <1>8 DEF BindGui, AcceptGui, idVars, metaVars, portVars, Labels
<1>9. ASSUME NEW p \in Procs, Listen(p)
      PROVE  OtherTypes' /\ pc' \in [Procs -> Labels]
  BY <1>9 DEF Listen, idVars, metaVars, portVars, Labels
<1>10. ASSUME NEW p \in Procs, AcceptClient(p)
       PROVE  OtherTypes' /\ pc' \in [Procs -> Labels]
  BY <1>10 DEF AcceptClient, idVars, metaVars, portVars, Labels, Updating
<1>11. ASSUME NEW p \in Procs, ReadMetadata(p)
       PROVE  OtherTypes' /\ pc' \in [Procs -> Labels]
  BY <1>11 DEF ReadMetadata, idVars, metaVars, portVars, Labels, Updating
<1>12. ASSUME NEW p \in Procs, TruncateMetadata(p)
       PROVE  OtherTypes' /\ pc' \in [Procs -> Labels]
  <2>1. Type[p] \in Types
    BY SessionAssumption
  <2>2. [state |-> "torn", has |-> {}] \in [state : {"absent", "torn", "whole"}, has : SUBSET Types]
    OBVIOUS
  <2>3. metadata' \in [Sessions -> [state : {"absent", "torn", "whole"}, has : SUBSET Types]]
    BY <1>12, <2>2 DEF TruncateMetadata
  <2>4. scratch' \in [Procs -> SUBSET Types]
    BY <1>12, <2>1 DEF TruncateMetadata
  <2> QED
    BY <1>12, <2>3, <2>4 DEF TruncateMetadata, idVars, metaVars, portVars, Labels, Updating
<1>13. ASSUME NEW p \in Procs, WriteMetadata(p)
       PROVE  OtherTypes' /\ pc' \in [Procs -> Labels]
  <2>1. [state |-> "whole", has |-> scratch[p]] \in [state : {"absent", "torn", "whole"}, has : SUBSET Types]
    OBVIOUS
  <2>2. metadata' \in [Sessions -> [state : {"absent", "torn", "whole"}, has : SUBSET Types]]
    BY <1>13, <2>1 DEF WriteMetadata
  <2> QED
    BY <1>13, <2>2 DEF WriteMetadata, idVars, metaVars, portVars, Labels
<1>14. ASSUME NEW p \in Procs, EndRelay(p) \/ Unload(p) \/ WaitForOthers(p)
       PROVE  OtherTypes' /\ pc' \in [Procs -> Labels]
  BY <1>14 DEF EndRelay, Unload, WaitForOthers, idVars, metaVars, portVars, Labels
<1>15. ASSUME NEW p \in Procs, Exit(p)
       PROVE  OtherTypes' /\ pc' \in [Procs -> Labels]
  BY <1>15, ReleaseKeepsTypes DEF Exit, idVars, metaVars, Labels
<1>16. ASSUME NEW p \in Procs, Kill(p)
       PROVE  OtherTypes' /\ pc' \in [Procs -> Labels]
  <2>1. /\ guiPort' \in Procs \cup {Nobody}
        /\ proxyPort' \in [Types -> Procs \cup {Nobody}]
    BY <1>16, ReleaseKeepsTypes DEF Kill
  <2> QED
    BY <1>16, <2>1 DEF Kill, Labels
<1>17. CASE Sleep \/ UNCHANGED vars
  BY <1>17 DEF Sleep, vars, idVars, metaVars, portVars
<1>18. (\E p \in Procs : Launch(p) \/ Step(p) \/ Fail(p) \/ Kill(p)) \/ Sleep \/ UNCHANGED vars
  BY DEF Next
<1>19. ASSUME NEW p \in Procs, Step(p)
       PROVE  OtherTypes' /\ pc' \in [Procs -> Labels]
  BY <1>2, <1>3, <1>8, <1>9, <1>10, <1>11, <1>12, <1>13, <1>14, <1>15, <1>19, Zenon DEF Step
<1>20. ASSUME NEW p \in Procs, Fail(p)
       PROVE  OtherTypes' /\ pc' \in [Procs -> Labels]
  BY <1>5, <1>6, <1>7, <1>20, Zenon DEF Fail
<1> QED
  BY <1>1, <1>16, <1>17, <1>18, <1>19, <1>20, Zenon

\* A step that draws no id.
LEMMA NoDrawKeepsCount ==
  ASSUME TypeOK, CountInv, UNCHANGED session,
         idNumber' \in {idNumber, 0},
         \A p \in Procs : drawn'[p] \in {drawn[p], 0, Junk, idNumber},
         drawn' \in [Procs -> Int],
         \A p \in Procs : pc'[p] \in Parsing \cup {"off"} => pc[p] \in Parsing \cup {"off"},
         UNCHANGED newest
  PROVE  CountInv' /\ idNumber' \in Sessions /\ drawn' \in [Procs -> Sessions]
         /\ session' \in [Procs -> Sessions \cup {-2}] /\ newest' \in Sessions
<1> DEFINE n == Cardinality(Drew)
<1>1. n \in Nat /\ n <= Cardinality(Procs) /\ Cardinality(Procs) \in Nat /\ Junk \in Nat
  BY CountOfDrew
<1>2. Drew' = Drew
  BY DEF Drew
<1>3. Cardinality(Drew)' = n
  BY <1>2
<1> HIDE DEF n
<1>4. idNumber' \in 0 .. Junk + n /\ \A p \in Procs : drawn'[p] \in 0 .. Junk + n
  BY <1>1 DEF CountInv, n
<1>5. CountInv'
  BY <1>3, <1>4 DEF CountInv
<1>6. idNumber' \in Sessions /\ \A p \in Procs : drawn'[p] \in Sessions
  BY <1>1, <1>4 DEF Sessions
<1> QED
  BY <1>5, <1>6 DEF TypeOK

\* An id that is drawn is one that counts.
LEMMA RewriteKeepsCount ==
  ASSUME TypeOK, CountInv, NEW p \in Procs, RewriteId(p)
  PROVE  CountInv' /\ idNumber' \in Sessions /\ drawn' \in [Procs -> Sessions]
         /\ session' \in [Procs -> Sessions \cup {-2}] /\ newest' \in Sessions
<1> DEFINE n == Cardinality(Drew)
           d == drawn[p]
<1>1. n \in Nat /\ n <= Cardinality(Procs) /\ Cardinality(Procs) \in Nat /\ Junk \in Nat
  BY CountOfDrew
<1>2. pc[p] \in Parsing /\ session[p] = -2 /\ p \notin Drew
  BY DEF RewriteId, Parsing, CountInv, Drew
<1>3. d \in 0 .. Junk + n /\ idNumber \in 0 .. Junk + n
  BY DEF CountInv
<1>4. /\ session' = [session EXCEPT ![p] = IF Action[p] = "new" THEN d ELSE d - 1]
      /\ drawn' = [drawn EXCEPT ![p] = 0]
      /\ newest' \in {d, newest}
      /\ idNumber' \in {d + 1, 0, idNumber}
  BY DEF RewriteId
<1>5. session'[p] \in Int /\ session'[p] >= -1 /\ session'[p] <= Junk + n
      /\ \A q \in Procs : q # p => session'[q] = session[q]
  BY <1>1, <1>3, <1>4 DEF TypeOK
<1>6. Drew' = Drew \cup {p}
  BY <1>5 DEF Drew
<1>7. Cardinality(Drew)' = n + 1
  <2>1. Cardinality(Drew \cup {p}) = n + 1
    BY <1>2, CountOfDrew, FS_AddElement
  <2> QED
    BY <1>6, <2>1
<1>8. n + 1 <= Cardinality(Procs)
  <2>1. Drew \cup {p} \in SUBSET Procs
    BY DEF Drew
  <2>2. Cardinality(Drew \cup {p}) <= Cardinality(Procs)
    BY <2>1, SessionAssumption, FS_Subset
  <2> QED
    BY <1>6, <1>7, <2>2
<1> HIDE DEF n
<1>9. \A q \in Procs : drawn'[q] \in 0 .. Junk + n
  BY <1>1, <1>4 DEF CountInv, TypeOK, n
<1>10. \A q \in Procs : pc'[q] \in Parsing \cup {"off"} => session'[q] = -2
  <2>1. pc'[p] \notin Parsing \cup {"off"} /\ \A q \in Procs : q # p => pc'[q] = pc[q]
    BY DEF RewriteId, AfterParsing, Goto, Parsing, TypeOK
  <2> QED
    BY <1>5, <2>1 DEF CountInv
<1>11. CountInv'
  BY <1>1, <1>3, <1>4, <1>7, <1>9, <1>10 DEF CountInv
<1>12. idNumber' \in Sessions /\ newest' \in Sessions
       /\ session'[p] \in Sessions /\ \A q \in Procs : drawn'[q] \in Sessions
  BY <1>1, <1>3, <1>4, <1>5, <1>8, <1>9 DEF Sessions, TypeOK
<1> QED
  BY <1>4, <1>11, <1>12 DEF TypeOK

LEMMA IdStateKeepsType ==
  ASSUME TypeOK, [Next]_vars
  PROVE  idState' \in {"absent", "empty", "number"}
  BY DEF TypeOK, Next, Step, Fail, Launch, OpenId, CreateId, RewriteId, RefuseType,
     RefuseAction, MissAction, LoadingFails, BindGui, AcceptGui, Listen, AcceptClient,
     ReadMetadata, TruncateMetadata, WriteMetadata, EndRelay, Unload, WaitForOthers, Exit,
     Kill, Sleep, vars, idVars

\* Every other step draws no id.
LEMMA OthersDrawNoId ==
  ASSUME TypeOK, [Next]_vars, ~ \E p \in Procs : RewriteId(p)
  PROVE  /\ UNCHANGED <<session, newest>>
         /\ idNumber' \in {idNumber, 0}
         /\ drawn' \in [Procs -> Int]
         /\ \A p \in Procs : drawn'[p] \in {drawn[p], 0, Junk, idNumber}
         /\ \A p \in Procs : pc'[p] \in Parsing \cup {"off"} => pc[p] \in Parsing \cup {"off"}
<1> DEFINE Kept == /\ UNCHANGED <<session, newest>>
                   /\ idNumber' \in {idNumber, 0}
                   /\ drawn' \in [Procs -> Int]
                   /\ \A p \in Procs : drawn'[p] \in {drawn[p], 0, Junk, idNumber}
           Moved(p, l) == pc' = [pc EXCEPT ![p] = l]
           Staying == \A p \in Procs :
                        pc'[p] \in Parsing \cup {"off"} => pc[p] \in Parsing \cup {"off"}
<1>1. drawn \in [Procs -> Int] /\ idNumber \in Int /\ Junk \in Int
  BY SessionAssumption DEF TypeOK, Sessions
<1>2. ASSUME NEW p \in Procs, NEW l, Moved(p, l), l \notin Parsing \cup {"off"}
      PROVE  Staying
  BY <1>2 DEF TypeOK
<1>3. ASSUME NEW p \in Procs, Launch(p)
      PROVE  Kept /\ Staying
  BY <1>1, <1>3 DEF Launch, Goto, Parsing, TypeOK
<1>4. ASSUME NEW p \in Procs, OpenId(p) \/ CreateId(p)
      PROVE  Kept /\ Staying
  BY <1>1, <1>4 DEF OpenId, CreateId, Goto, Parsing, TypeOK
<1>5. ASSUME NEW p \in Procs, RefuseType(p) \/ LoadingFails(p) \/ BindGui(p) \/ AcceptGui(p)
                 \/ Listen(p) \/ AcceptClient(p) \/ ReadMetadata(p) \/ TruncateMetadata(p)
                 \/ WriteMetadata(p) \/ EndRelay(p) \/ Unload(p) \/ WaitForOthers(p) \/ Exit(p)
      PROVE  Kept /\ Staying
  <2>1. UNCHANGED idVars
    BY <1>5 DEF RefuseType, LoadingFails, BindGui, AcceptGui, Listen, AcceptClient,
       ReadMetadata, TruncateMetadata, WriteMetadata, EndRelay, Unload, WaitForOthers, Exit
  <2>2. \E l : Moved(p, l) /\ l \notin Parsing \cup {"off"}
    BY <1>5 DEF RefuseType, LoadingFails, Abandon, BindGui, AcceptGui, Listen, AcceptClient,
       ReadMetadata, TruncateMetadata, WriteMetadata, EndRelay, Unload, WaitForOthers, Exit,
       Goto, Parsing
  <2> QED
    BY <1>1, <1>2, <2>1, <2>2 DEF idVars
<1>6. ASSUME NEW p \in Procs, RefuseAction(p) \/ MissAction(p) \/ Kill(p)
      PROVE  Kept /\ Staying
  <2>1. Kept
    <3>1. CASE RefuseAction(p)
      BY <1>1, <3>1 DEF RefuseAction
    <3>2. CASE MissAction(p) \/ Kill(p)
      BY <1>1, <3>2 DEF MissAction, Kill
    <3> QED
      BY <1>6, <3>1, <3>2
  <2>2. \E l : Moved(p, l) /\ l \notin Parsing \cup {"off"}
    <3>1. Moved(p, "gone") \/ Moved(p, "exitPlugins")
      BY <1>6 DEF RefuseAction, MissAction, Kill, Abandon, Goto
    <3> QED
      BY <3>1 DEF Parsing
  <2> QED
    BY <1>2, <2>1, <2>2
<1>7. ASSUME Sleep \/ UNCHANGED vars
      PROVE  Kept /\ Staying
  BY <1>1, <1>7 DEF Sleep, vars, idVars
<1> HIDE DEF Kept, Staying
<1>8. Kept /\ Staying
  <2>1. ASSUME NEW p \in Procs, Step(p)
        PROVE  Kept /\ Staying
    <3>1. ~RewriteId(p)
      OBVIOUS
    <3> QED
      BY <1>4, <1>5, <2>1, <3>1 DEF Step
  <2>2. ASSUME NEW p \in Procs, Fail(p)
        PROVE  Kept /\ Staying
    BY <1>5, <1>6, <2>2 DEF Fail
  <2> QED
    <3>1. \/ \E p \in Procs : Launch(p) \/ Step(p) \/ Fail(p) \/ Kill(p)
          \/ Sleep \/ UNCHANGED vars
      BY DEF Next
    <3> QED
      BY <1>3, <1>6, <1>7, <2>1, <2>2, <3>1, Zenon
<1> QED
  BY <1>8 DEF Kept, Staying

LEMMA TypesAndCount == Spec => [](TypeOK /\ CountInv)
<1>1. Init => TypeOK /\ CountInv
  <2> SUFFICES ASSUME Init PROVE TypeOK /\ CountInv
    OBVIOUS
  <2>1. Junk \in Nat /\ Cardinality(Procs) \in Nat
    BY SessionAssumption, FS_CardinalityType
  <2>2. 0 \in Sessions /\ -1 \in Sessions
    BY <2>1 DEF Sessions
  <2>3. [state |-> "absent", has |-> {}] \in [state : {"absent", "torn", "whole"}, has : SUBSET Types]
    OBVIOUS
  <2>4. TypeOK
    BY <2>2, <2>3 DEF Init, TypeOK, Labels
  <2>5. Cardinality(Drew) \in Nat
    BY <2>4, CountOfDrew
  <2> QED
    BY <2>1, <2>4, <2>5 DEF Init, CountInv
<1>2. TypeOK /\ CountInv /\ [Next]_vars => TypeOK' /\ CountInv'
  <2> SUFFICES ASSUME TypeOK, CountInv, [Next]_vars PROVE TypeOK' /\ CountInv'
    OBVIOUS
  <2>1. CountInv' /\ idNumber' \in Sessions /\ drawn' \in [Procs -> Sessions]
        /\ session' \in [Procs -> Sessions \cup {-2}] /\ newest' \in Sessions
    <3>1. CASE \E p \in Procs : RewriteId(p)
      BY <3>1, RewriteKeepsCount
    <3>2. CASE ~ \E p \in Procs : RewriteId(p)
      BY <3>2, OthersDrawNoId, NoDrawKeepsCount
    <3> QED
      BY <3>1, <3>2
  <2> QED
    BY <2>1, OtherTypesArePreserved, IdStateKeepsType DEF TypeOK, OtherTypes
<1> QED
  BY <1>1, <1>2, PTL DEF Spec

\* The variables of FloanaSession keep their types; in particular no id of a
\* session is above Junk by more than the processes started (Floana.c:484-512).
THEOREM TypesAreCorrect == Spec => []TypeOK
  BY TypesAndCount, PTL

-----------------------------------------------------------------------------
(* The metadata of a session.                                              *)

At(p, n) == pc[p] \in Updating /\ session[p] = n

\* The types of the processes that have updated it.
Done(n) == {Type[p] : p \in {q \in updated : session[q] = n}}

Settled(n) == metadata[n].state # "torn" /\ metadata[n].has = Done(n)

\* A process has a session before it gets to the metadata, and is done with
\* its command line when it has updated it.
Ready == {"bindGui", "acceptGui", "listen", "acceptClient"} \cup Updating
Over == {"relay", "unload", "waitOthers", "exitPlugins", "gone"}

OrderInv ==
  /\ \A p \in Procs : pc[p] \in Ready => session[p] # -2
  /\ \A p \in updated : pc[p] \in Over

\* At most one process is at the metadata, and knows what the file held.
UpdateInv(n) ==
  /\ \A p, q \in Procs : At(p, n) /\ At(q, n) => p = q
  /\ (\A p \in Procs : ~At(p, n)) => Settled(n)
  /\ \A p \in Procs : At(p, n) =>
       /\ pc[p] = "readMeta" => Settled(n)
       /\ pc[p] = "truncateMeta" => scratch[p] = Done(n)
       /\ pc[p] = "writeMeta" => scratch[p] = Done(n) \cup {Type[p]}

MetaInv == OrderInv /\ \A n \in Sessions : ~metaDisturbed[n] => UpdateInv(n)

\* A step of a process that is not at any metadata, and does not get to one.
LEMMA FrameKeepsMeta ==
  ASSUME TypeOK, MetaInv, NEW p \in Procs, pc[p] \notin Updating \cup Over \/ UNCHANGED session,
         NEW l \in Labels \ Updating, pc' = [pc EXCEPT ![p] = l],
         pc[p] \notin Updating,
         \A q \in Procs : q # p => session'[q] = session[q],
         l \in Ready => session'[p] # -2,
         p \in updated => l \in Over,
         UNCHANGED <<metadata, scratch, updated, metaDisturbed>>
  PROVE  MetaInv'
<1>1. /\ pc'[p] = l /\ l \notin Updating
      /\ \A q \in Procs : q # p => pc'[q] = pc[q]
  BY DEF TypeOK
<1>2. OrderInv'
  BY <1>1 DEF MetaInv, OrderInv, TypeOK
<1>3. p \in updated => session'[p] = session[p]
  BY DEF MetaInv, OrderInv, TypeOK
<1>4. ASSUME NEW n \in Sessions, ~metaDisturbed'[n]
      PROVE  UpdateInv(n)'
  <2>1. \A q \in Procs : At(q, n)' <=> At(q, n)
    BY <1>1 DEF At
  <2>2. \A q \in updated : session'[q] = session[q]
    BY <1>3 DEF TypeOK
  <2>3. Done(n)' = Done(n)
    BY <2>2 DEF Done
  <2>4. Settled(n)' <=> Settled(n)
    BY <2>3 DEF Settled
  <2>5. UpdateInv(n)
    BY <1>4 DEF MetaInv
  <2>6. \A q \in Procs : At(q, n) => q # p /\ pc'[q] = pc[q] /\ scratch'[q] = scratch[q]
    BY <1>1 DEF At
  <2> QED
    BY <2>1, <2>3, <2>4, <2>5, <2>6 DEF UpdateInv
<1> QED
  BY <1>2, <1>4 DEF MetaInv

\* The steps that touch neither the metadata nor who is at it.
Aside(p) ==
  \/ Launch(p) \/ OpenId(p) \/ CreateId(p) \/ RewriteId(p)
  \/ Fail(p)
  \/ BindGui(p) \/ AcceptGui(p) \/ Listen(p)
  \/ EndRelay(p) \/ Unload(p) \/ WaitForOthers(p) \/ Exit(p)

LEMMA AsideFrame ==
  ASSUME TypeOK, CountInv, MetaInv, NEW p \in Procs, Aside(p)
  PROVE  MetaInv'
<1> DEFINE Meta == UNCHANGED <<metadata, scratch, updated, metaDisturbed>>
           From == {"off", "bindGui", "acceptGui", "listen"} \cup Parsing
<1>1. p \in updated => pc[p] \in Over
  BY DEF MetaInv, OrderInv
<1>2. ASSUME Launch(p) \/ OpenId(p) \/ CreateId(p)
      PROVE  MetaInv'
  <2>1. PICK l \in {"openId", "createId", "fillId", "rewriteId"} : pc' = [pc EXCEPT ![p] = l]
    BY <1>2 DEF Launch, OpenId, CreateId, Goto
  <2>2. pc[p] \in From /\ Meta /\ UNCHANGED session
    BY <1>2 DEF Launch, OpenId, CreateId, Parsing, metaVars
  <2> QED
    BY <1>1, <2>1, <2>2, FrameKeepsMeta DEF Labels, Parsing, Updating, Over, Ready
<1>3. ASSUME RewriteId(p)
      PROVE  MetaInv'
  <2>1. PICK l \in {"bindGui", "listen"} : pc' = [pc EXCEPT ![p] = l]
    BY <1>3 DEF RewriteId, AfterParsing, Goto
  <2>2. pc[p] \in Parsing /\ Meta
    BY <1>3 DEF RewriteId, Parsing, metaVars
  <2>3. drawn[p] \in Int /\ drawn[p] >= 0
    BY DEF CountInv
  <2>4. session'[p] # -2 /\ \A q \in Procs : q # p => session'[q] = session[q]
    BY <1>3, <2>3 DEF RewriteId, TypeOK
  <2> QED
    BY <1>1, <2>1, <2>2, <2>4, FrameKeepsMeta DEF Labels, Parsing, Updating, Over, Ready
<1>4. ASSUME Fail(p)
      PROVE  MetaInv'
  <2>1. PICK l \in Over : pc' = [pc EXCEPT ![p] = l]
    BY <1>4 DEF Fail, RefuseType, RefuseAction, MissAction, LoadingFails, Abandon, Goto, Over
  <2>2. pc[p] \in From /\ Meta /\ UNCHANGED session
    BY <1>4 DEF Fail, RefuseType, RefuseAction, MissAction, LoadingFails, Parsing, metaVars, idVars
  <2> QED
    BY <1>1, <2>1, <2>2, FrameKeepsMeta DEF Labels, Parsing, Updating, Over, Ready
<1>5. ASSUME BindGui(p) \/ AcceptGui(p) \/ Listen(p)
      PROVE  MetaInv'
  <2>1. PICK l \in {"acceptGui", "listen", "acceptClient", "unload"} : pc' = [pc EXCEPT ![p] = l]
    BY <1>5 DEF BindGui, AcceptGui, Listen, Goto
  <2>2. pc[p] \in {"bindGui", "acceptGui", "listen"} /\ Meta /\ UNCHANGED session
    BY <1>5 DEF BindGui, AcceptGui, Listen, metaVars, idVars
  <2>3. session[p] # -2
    BY <2>2 DEF MetaInv, OrderInv, Ready
  <2> QED
    BY <1>1, <2>1, <2>2, <2>3, FrameKeepsMeta DEF Labels, Parsing, Updating, Over, Ready
<1>6. ASSUME EndRelay(p) \/ Unload(p) \/ WaitForOthers(p) \/ Exit(p)
      PROVE  MetaInv'
  <2>1. PICK l \in Over : pc' = [pc EXCEPT ![p] = l]
    BY <1>6 DEF EndRelay, Unload, WaitForOthers, Exit, Goto, Over
  <2>2. pc[p] \in Over /\ Meta /\ UNCHANGED session
    BY <1>6 DEF EndRelay, Unload, WaitForOthers, Exit, Over, metaVars, idVars
  <2> QED
    BY <1>1, <2>1, <2>2, FrameKeepsMeta DEF Labels, Parsing, Updating, Over, Ready
<1> QED
  BY <1>2, <1>3, <1>4, <1>5, <1>6 DEF Aside

\* A step of a process at the metadata of a session disturbs no other session.
LEMMA AcceptKeepsMeta ==
  ASSUME TypeOK, MetaInv, NEW p \in Procs, AcceptClient(p)
  PROVE  MetaInv'
<1>1. CASE Goto(p, "unload") /\ UNCHANGED metaDisturbed
  <2>1. pc[p] = "acceptClient" /\ UNCHANGED <<session, metadata, scratch, updated, metaDisturbed>>
    BY <1>1 DEF AcceptClient, idVars
  <2> QED
    BY <1>1, <2>1, FrameKeepsMeta DEF Goto, Labels, Updating, Over, Ready, Parsing
<1>2. CASE /\ Goto(p, "readMeta")
           /\ metaDisturbed' = [metaDisturbed EXCEPT ![session[p]] =
                @ \/ \E q \in Procs : pc[q] \in Updating /\ session[q] = session[p]]
  <2>1. /\ pc[p] = "acceptClient" /\ pc'[p] = "readMeta"
        /\ \A q \in Procs : q # p => pc'[q] = pc[q]
        /\ UNCHANGED <<session, metadata, scratch, updated>>
    BY <1>2 DEF AcceptClient, Goto, idVars, TypeOK
  <2>2. session[p] \in Sessions
    BY <2>1 DEF MetaInv, OrderInv, Ready, TypeOK
  <2>3. OrderInv'
    BY <2>1 DEF MetaInv, OrderInv, Ready, Over, Updating, TypeOK
  <2>4. ASSUME NEW n \in Sessions, ~metaDisturbed'[n]
        PROVE  UpdateInv(n)'
    <3>1. /\ ~metaDisturbed[n]
          /\ n = session[p] => \A q \in Procs : ~At(q, n)
      BY <1>2, <2>2, <2>4 DEF TypeOK, At
    <3>2. UpdateInv(n)
      BY <3>1 DEF MetaInv
    <3>3. Done(n)' = Done(n) /\ (Settled(n)' <=> Settled(n))
      BY <2>1 DEF Done, Settled
    <3>4. \A q \in Procs : q # p => (At(q, n)' <=> At(q, n))
      BY <2>1 DEF At
    <3>5. ~At(p, n) /\ (At(p, n)' <=> session[p] = n)
      BY <2>1 DEF At, Updating
    <3> QED
      BY <2>1, <3>1, <3>2, <3>3, <3>4, <3>5 DEF UpdateInv
  <2> QED
    BY <2>3, <2>4 DEF MetaInv
<1> QED
  BY <1>1, <1>2 DEF AcceptClient

\* What a process at the metadata does concerns its session only.
LEMMA ElsewhereMeta ==
  ASSUME TypeOK, MetaInv, NEW p \in Procs, pc[p] \in Updating,
         NEW n \in Sessions, n # session[p], ~metaDisturbed[n],
         \A q \in Procs : q # p => pc'[q] = pc[q] /\ scratch'[q] = scratch[q],
         UNCHANGED session, metadata'[n] = metadata[n],
         updated' \in {updated, updated \cup {p}}
  PROVE  UpdateInv(n)'
<1>1. UpdateInv(n)
  BY DEF MetaInv
<1>2. Done(n)' = Done(n)
  BY DEF Done
<1>3. Settled(n)' <=> Settled(n)
  BY <1>2 DEF Settled
<1>4. \A q \in Procs : At(q, n)' <=> At(q, n)
  BY DEF At
<1>5. \A q \in Procs : At(q, n) => q # p
  BY DEF At
<1> QED
  BY <1>1, <1>2, <1>3, <1>4, <1>5 DEF UpdateInv

LEMMA UpdatersKeepMeta ==
  ASSUME TypeOK, MetaInv, NEW p \in Procs,
         ReadMetadata(p) \/ TruncateMetadata(p) \/ WriteMetadata(p)
  PROVE  MetaInv'
<1>0. PICK m \in Sessions : m = session[p]
  <2>1. pc[p] \in Updating
    BY DEF ReadMetadata, TruncateMetadata, WriteMetadata, Updating
  <2> QED
    BY <2>1 DEF MetaInv, OrderInv, Ready, TypeOK
<1>1. /\ pc[p] \in Updating /\ session[p] = m /\ m \in Sessions /\ UNCHANGED <<session, metaDisturbed>>
      /\ \A q \in Procs : q # p => pc'[q] = pc[q] /\ scratch'[q] = scratch[q]
      /\ \A n \in Sessions : n # m => metadata'[n] = metadata[n]
      /\ updated' \in {updated, updated \cup {p}}
  <2>1. pc[p] \in Updating /\ UNCHANGED <<session, metaDisturbed>>
    BY DEF ReadMetadata, TruncateMetadata, WriteMetadata, Updating, idVars
  <2>2. session[p] = m
    BY <1>0
  <2>3. CASE ReadMetadata(p)
    BY <2>1, <2>2, <2>3 DEF ReadMetadata, Goto, TypeOK
  <2>4. CASE TruncateMetadata(p)
    BY <2>1, <2>2, <2>4 DEF TruncateMetadata, Goto, TypeOK
  <2>5. CASE WriteMetadata(p)
    BY <2>1, <2>2, <2>5 DEF WriteMetadata, Goto, TypeOK
  <2> QED
    BY <2>3, <2>4, <2>5
<1>2. ASSUME NEW n \in Sessions, n # m, ~metaDisturbed'[n]
      PROVE  UpdateInv(n)'
  BY <1>1, <1>2, ElsewhereMeta
<1>3. ASSUME ~metaDisturbed[m]
      PROVE  /\ \A q \in Procs : q # p => ~At(q, m) /\ ~At(q, m)'
             /\ At(p, m)
             /\ pc[p] = "readMeta" => Settled(m)
             /\ pc[p] = "truncateMeta" => scratch[p] = Done(m)
             /\ pc[p] = "writeMeta" => scratch[p] = Done(m) \cup {Type[p]}
  <2>1. UpdateInv(m) /\ At(p, m)
    BY <1>1, <1>3 DEF MetaInv, At
  <2>2. \A q \in Procs : q # p => (At(q, m)' <=> At(q, m))
    BY <1>1 DEF At
  <2> QED
    BY <2>1, <2>2 DEF UpdateInv
<1>4. CASE ReadMetadata(p)
  <2>1. OrderInv'
    BY <1>1, <1>4 DEF ReadMetadata, MetaInv, OrderInv, Ready, Over, Goto, TypeOK, Updating
  <2>2. ASSUME ~metaDisturbed'[m]
        PROVE  UpdateInv(m)'
    <3>1. /\ pc[p] = "readMeta" /\ pc'[p] = "truncateMeta" /\ UNCHANGED <<metadata, updated>>
          /\ metadata[m].state # "torn" => scratch'[p] = metadata[m].has
      BY <1>0, <1>4 DEF ReadMetadata, Goto, TypeOK
    <3>2. Done(m)' = Done(m)
      BY <1>1, <3>1 DEF Done
    <3>3. scratch'[p] = Done(m)
      <4>1. Settled(m)
        BY <1>1, <1>3, <2>2, <3>1
      <4> QED
        BY <3>1, <4>1 DEF Settled
    <3>4. At(p, m)' /\ \A q \in Procs : q # p => ~At(q, m)'
      BY <1>1, <1>3, <2>2, <3>1 DEF At, Updating
    <3> QED
      BY <3>1, <3>2, <3>3, <3>4 DEF UpdateInv
  <2> QED
    BY <1>2, <2>1, <2>2 DEF MetaInv
<1>5. CASE TruncateMetadata(p)
  <2>1. OrderInv'
    BY <1>1, <1>5 DEF TruncateMetadata, MetaInv, OrderInv, Ready, Over, Goto, TypeOK, Updating
  <2>2. ASSUME ~metaDisturbed'[m]
        PROVE  UpdateInv(m)'
    <3>1. /\ pc[p] = "truncateMeta" /\ pc'[p] = "writeMeta" /\ UNCHANGED updated
          /\ scratch'[p] = scratch[p] \cup {Type[p]}
      BY <1>5 DEF TruncateMetadata, Goto, TypeOK
    <3>2. Done(m)' = Done(m)
      BY <1>1, <3>1 DEF Done
    <3>3. scratch'[p] = Done(m) \cup {Type[p]}
      BY <1>1, <1>3, <2>2, <3>1
    <3>4. At(p, m)' /\ \A q \in Procs : q # p => ~At(q, m)'
      BY <1>1, <1>3, <2>2, <3>1 DEF At, Updating
    <3> QED
      BY <3>1, <3>2, <3>3, <3>4 DEF UpdateInv
  <2> QED
    BY <1>2, <2>1, <2>2 DEF MetaInv
<1>6. CASE WriteMetadata(p)
  <2>1. /\ pc[p] = "writeMeta" /\ pc'[p] = "relay" /\ updated' = updated \cup {p}
        /\ metadata'[m] = [state |-> "whole", has |-> scratch[p]]
    BY <1>1, <1>6 DEF WriteMetadata, Goto, TypeOK
  <2>2. OrderInv'
    BY <1>1, <2>1 DEF MetaInv, OrderInv, Ready, Over, Updating, TypeOK
  <2>3. ASSUME ~metaDisturbed'[m]
        PROVE  UpdateInv(m)'
    <3>1. Done(m)' = Done(m) \cup {Type[p]}
      BY <1>1, <2>1 DEF Done
    <3>2. Settled(m)'
      BY <1>1, <1>3, <2>1, <2>3, <3>1 DEF Settled
    <3>3. \A q \in Procs : ~At(q, m)'
      BY <1>1, <1>3, <2>1, <2>3 DEF At, Updating
    <3> QED
      BY <3>2, <3>3 DEF UpdateInv
  <2> QED
    BY <1>2, <2>2, <2>3 DEF MetaInv
<1> QED
  BY <1>4, <1>5, <1>6

LEMMA KillKeepsMeta ==
  ASSUME TypeOK, MetaInv, NEW p \in Procs, Kill(p)
  PROVE  MetaInv'
<1>1. /\ pc'[p] = "gone" /\ \A q \in Procs : q # p => pc'[q] = pc[q]
      /\ UNCHANGED <<session, metadata, scratch, updated>>
      /\ \A n \in Sessions : metaDisturbed'[n] =
                               (metaDisturbed[n] \/ (pc[p] \in Updating /\ session[p] = n))
  BY DEF Kill, Goto, TypeOK
<1>2. OrderInv'
  BY <1>1 DEF MetaInv, OrderInv, Ready, Over, Updating, TypeOK
<1>3. ASSUME NEW n \in Sessions, ~metaDisturbed'[n]
      PROVE  UpdateInv(n)'
  <2>1. ~metaDisturbed[n] /\ ~At(p, n)
    BY <1>1, <1>3 DEF At
  <2>2. UpdateInv(n) /\ Done(n)' = Done(n) /\ (Settled(n)' <=> Settled(n))
    BY <1>1, <2>1 DEF MetaInv, Done, Settled
  <2>3. \A q \in Procs : At(q, n)' <=> At(q, n)
    BY <1>1, <2>1 DEF At, Updating
  <2>4. \A q \in Procs : At(q, n) => pc'[q] = pc[q] /\ scratch'[q] = scratch[q]
    BY <1>1, <2>1
  <2> QED
    BY <2>2, <2>3, <2>4 DEF UpdateInv
<1> QED
  BY <1>2, <1>3 DEF MetaInv

LEMMA MetaInvariance == Spec => [](TypeOK /\ MetaInv)
<1>1. Init => MetaInv
  <2> SUFFICES ASSUME Init PROVE MetaInv
    OBVIOUS
  <2>1. \A n \in Sessions : Settled(n) /\ \A p \in Procs : ~At(p, n)
    BY DEF Init, Settled, Done, At, Updating
  <2> QED
    BY <2>1 DEF Init, MetaInv, OrderInv, UpdateInv, Ready, Updating
<1>2. TypeOK /\ CountInv /\ MetaInv /\ [Next]_vars => MetaInv'
  <2> SUFFICES ASSUME TypeOK, CountInv, MetaInv, [Next]_vars
               PROVE  MetaInv'
    OBVIOUS
  <2>1. CASE UNCHANGED vars
    <3>1. \A n \in Sessions : UpdateInv(n)' <=> UpdateInv(n)
      BY <2>1 DEF vars, idVars, metaVars, UpdateInv, At, Settled, Done
    <3> QED
      BY <2>1, <3>1 DEF vars, idVars, metaVars, MetaInv, OrderInv
  <2>2. ASSUME NEW p \in Procs, Launch(p) \/ Step(p) \/ Fail(p) \/ Kill(p)
        PROVE  MetaInv'
    <3>1. \/ Aside(p) \/ AcceptClient(p) \/ Kill(p)
          \/ ReadMetadata(p) \/ TruncateMetadata(p) \/ WriteMetadata(p)
      BY <2>2, Zenon DEF Aside, Step
    <3> QED
      BY <3>1, AsideFrame, AcceptKeepsMeta, KillKeepsMeta, UpdatersKeepMeta
  <2>3. CASE Sleep
    BY <2>1, <2>3 DEF Sleep
  <2> QED
    BY <2>1, <2>2, <2>3 DEF Next
<1> QED
  BY <1>1, <1>2, TypesAndCount, PTL DEF Spec

\* The metadata names exactly the types whose processes have updated it, as long
\* as no update overlapped with another one or was cut short (Floana.c:352-393).
THEOREM SeparateUpdatesAddUpAlways == Spec => []SeparateUpdatesAddUp
<1>1. MetaInv => SeparateUpdatesAddUp
  BY DEF MetaInv, UpdateInv, SeparateUpdatesAddUp, At, Settled, Done
<1> QED
  BY <1>1, MetaInvariance, PTL

=============================================================================
