----------------------------- MODULE RelayProofs ----------------------------
(***************************************************************************)
(* Proofs about Relay, for any payloads, plugins, faults and any number of *)
(* chunks.                                                                 *)
(***************************************************************************)
EXTENDS Relay, TLAPS

-----------------------------------------------------------------------------
(* Type correctness.                                                       *)

\* What a listener holds on its stack at each point of its loop.
Drawn == {"unlock", "write", "plugins", "send"}

PacketInHand ==
  \A s \in Sides :
    /\ pc[s] \in {"lock", "load", "store"} \cup Drawn => packet[s].data \in Payload
    /\ pc[s] \in {"store"} \cup Drawn => packet[s].id \in Nat

TypeInv == TypeOK /\ PacketInHand

\* The plugins rewrite payloads to payloads.
LEMMA RewritesArePayloads ==
  ASSUME NEW p \in Payload
  PROVE  Rewrites[p] \subseteq Payload
BY RelayAssumption

\* Appending a record to one file leaves both files sequences of records.
LEMMA AppendRecordType ==
  ASSUME TypeOK, NEW s \in Sides, NEW whole \in BOOLEAN,
         packet[s].id \in Nat, packet[s].data \in Payload, AppendRecord(s, whole)
  PROVE  log' \in [Sides -> Seq([id : Nat, data : Payload, whole : BOOLEAN])]
<1> DEFINE Records == [id : Nat, data : Payload, whole : BOOLEAN]
<1>1. Record(s, whole) \in Records
  BY DEF Record
<1>2. log \in [Sides -> Seq(Records)]
  BY DEF TypeOK
<1> HIDE DEF Records
<1>3. Append(log[s], Record(s, whole)) \in Seq(Records)
  BY <1>1, <1>2
<1>4. log' \in [Sides -> Seq(Records)]
  BY <1>2, <1>3 DEF AppendRecord
<1>5. QED
  BY <1>4 DEF Records

LEMMA TypeInit == Init => TypeInv
BY DEF Init, TypeInv, TypeOK, PacketInHand, Blank, Sides, Labels, Drawn, Ended

LEMMA TypeStep == TypeInv /\ [Next]_vars => TypeInv'
<1> SUFFICES ASSUME TypeInv, [Next]_vars PROVE TypeInv'
  OBVIOUS
<1> USE DEF TypeInv, TypeOK, PacketInHand, Goto, Sides, Other, Labels, Ended,
            Critical, Drawn, threadVars, streamVars
<1>1. ASSUME NEW s \in Sides, Create(s) PROVE TypeInv'
  BY <1>1 DEF Create
<1>2. ASSUME NEW s \in Sides, Join(s) PROVE TypeInv'
  BY <1>2 DEF Join
<1>3. ASSUME NEW s \in Sides, Receive(s) PROVE TypeInv'
  BY <1>3 DEF Receive
<1>4. ASSUME NEW s \in Sides, ReceiveFails(s) PROVE TypeInv'
  BY <1>4 DEF ReceiveFails
<1>5. ASSUME NEW s \in Sides, EndOfStream(s) PROVE TypeInv'
  BY <1>5 DEF EndOfStream
<1>6. ASSUME NEW s \in Sides, Lock(s) PROVE TypeInv'
  BY <1>6 DEF Lock
<1>7. ASSUME NEW s \in Sides, LoadId(s) PROVE TypeInv'
  BY <1>7 DEF LoadId
<1>8. ASSUME NEW s \in Sides, StoreId(s) PROVE TypeInv'
  BY <1>8 DEF StoreId
<1>9. ASSUME NEW s \in Sides, Unlock(s) PROVE TypeInv'
  BY <1>9 DEF Unlock
<1>10. ASSUME NEW s \in Sides, Write(s) PROVE TypeInv'
  <2>1. PICK whole \in BOOLEAN : AppendRecord(s, whole)
    BY <1>10 DEF Write
  <2>2. packet[s].id \in Nat /\ packet[s].data \in Payload
    BY <1>10 DEF Write
  <2>3. log' \in [Sides -> Seq([id : Nat, data : Payload, whole : BOOLEAN])]
    BY <2>1, <2>2, AppendRecordType
  <2>4. QED
    BY <1>10, <2>3 DEF Write
<1>11. ASSUME NEW s \in Sides, WriteFails(s) PROVE TypeInv'
  <2>1. packet[s].id \in Nat /\ packet[s].data \in Payload
    BY <1>11 DEF WriteFails
  <2>2. log' \in [Sides -> Seq([id : Nat, data : Payload, whole : BOOLEAN])]
    BY <1>11, <2>1, AppendRecordType DEF WriteFails
  <2>3. QED
    BY <1>11, <2>2 DEF WriteFails
<1>12. ASSUME NEW s \in Sides, CallPlugins(s) PROVE TypeInv'
  <2>1. packet[s].data \in Payload
    BY <1>12 DEF CallPlugins
  <2>2. PICK p \in Rewrites[packet[s].data] :
          packet' = [packet EXCEPT ![s].data = p]
    BY <1>12 DEF CallPlugins
  <2>3. p \in Payload
    BY <2>1, <2>2, RewritesArePayloads
  <2>4. QED
    BY <1>12, <2>2, <2>3 DEF CallPlugins
<1>13. ASSUME NEW s \in Sides, PluginFails(s) PROVE TypeInv'
  BY <1>13 DEF PluginFails
<1>14. ASSUME NEW s \in Sides, Send(s) PROVE TypeInv'
  BY <1>14 DEF Send, Blank
<1>15. ASSUME NEW s \in Sides, SendFails(s) PROVE TypeInv'
  BY <1>15 DEF SendFails
<1>16. ASSUME NEW s \in Sides, Hangup(s) PROVE TypeInv'
  BY <1>16 DEF Hangup, RequestCancel
<1>17. ASSUME NEW s \in Sides, Cleanup(s) PROVE TypeInv'
  BY <1>17 DEF Cleanup, RequestCancel
<1>18. ASSUME NEW s \in Sides, Die(s) PROVE TypeInv'
  <2>1. CASE pc[s] = "write" /\ UNCHANGED forwarded
                /\ \E whole \in BOOLEAN : AppendRecord(s, whole)
    <3>1. PICK whole \in BOOLEAN : AppendRecord(s, whole)
      BY <2>1
    <3>2. packet[s].id \in Nat /\ packet[s].data \in Payload
      BY <2>1
    <3>3. log' \in [Sides -> Seq([id : Nat, data : Payload, whole : BOOLEAN])]
      BY <3>1, <3>2, AppendRecordType
    <3>4. QED
      BY <1>18, <2>1, <3>3 DEF Die
  <2>2. CASE UNCHANGED log /\ pc[s] = "send"
                /\ forwarded' = [forwarded EXCEPT ![s] = Append(@, packet[s].data)]
    BY <1>18, <2>2 DEF Die
  <2>3. CASE UNCHANGED <<log, forwarded>>
    BY <1>18, <2>3 DEF Die
  <2>4. QED
    BY <1>18, <2>1, <2>2, <2>3 DEF Die
<1>19. ASSUME NEW s \in Sides, PeerCloses(s) PROVE TypeInv'
  BY <1>19 DEF PeerCloses
<1>20. CASE UNCHANGED vars
  BY <1>20 DEF vars
<1>21. QED
  BY <1>1, <1>2, <1>3, <1>4, <1>5, <1>6, <1>7, <1>8, <1>9, <1>10, <1>11,
     <1>12, <1>13, <1>14, <1>15, <1>16, <1>17, <1>18, <1>19, <1>20
     DEF Next, Main, Step, Proceed, Handle, Returned

LEMMA TypeCorrect == Spec => []TypeInv
BY TypeInit, TypeStep, PTL DEF Spec

\* The variables of the proxy keep their types: the id of a record is a number,
\* never the -1 of a packet that has only been received (RawPacket.c:74).
THEOREM TypeOKAlways == Spec => []TypeOK
<1>1. TypeInv => TypeOK
  BY DEF TypeInv
<1>2. QED
  BY <1>1, TypeCorrect, PTL

-----------------------------------------------------------------------------
(* How the threads stop.                                                   *)

\* The mutex excludes.
MutexInv == \A s \in Sides : pc[s] \in Critical => mutex = s

\* Only a thread that is leaving has cancelled the other one, and only one that
\* exists has been cancelled.
CancelInv ==
  \A s \in Sides :
    /\ cancel[s] => pc[s] # "unborn" /\ pc[Other(s)] \in {"cleanup"} \cup Ended
    /\ pc[s] = "cancelled" => cancel[s]

\* Which threads exist at each point of startProxy, and which it waited for.
StartupInv ==
  /\ \A s \in Sides : handle[s] <=> pc[s] # "unborn"
  /\ pc["client"] = "unborn" <=> mainPc = "createClient"
  /\ pc["server"] = "unborn" <=> mainPc \in {"createClient", "createServer"}
  /\ mainPc \in {"joinServer", "returned"} => pc["client"] \in Ended
  /\ mainPc = "returned" => pc["server"] \in Ended

ShutdownInv == MutexInv /\ CancelInv /\ StartupInv

LEMMA ShutdownInit == Init => ShutdownInv
BY DEF Init, ShutdownInv, MutexInv, CancelInv, StartupInv, Sides, Other,
       Critical, Ended

LEMMA ShutdownStep == TypeInv /\ ShutdownInv /\ [Next]_vars => ShutdownInv'
<1> SUFFICES ASSUME TypeOK, ShutdownInv, [Next]_vars PROVE ShutdownInv'
  BY DEF TypeInv
<1> USE DEF TypeOK, ShutdownInv, MutexInv, CancelInv, StartupInv,
            Goto, Sides, Other, Labels, Ended, Critical, threadVars, streamVars
<1>1. ASSUME NEW s \in Sides, Create(s) PROVE ShutdownInv'
  <2>1. CASE s = "client"
    BY <1>1, <2>1 DEF Create
  <2>2. CASE s = "server"
    BY <1>1, <2>2 DEF Create
  <2>3. QED
    BY <2>1, <2>2
<1>2. ASSUME NEW s \in Sides, Join(s) PROVE ShutdownInv'
  BY <1>2 DEF Join
<1>3. ASSUME NEW s \in Sides, Receive(s) PROVE ShutdownInv'
  BY <1>3 DEF Receive
<1>4. ASSUME NEW s \in Sides, ReceiveFails(s) PROVE ShutdownInv'
  BY <1>4 DEF ReceiveFails
<1>5. ASSUME NEW s \in Sides, EndOfStream(s) PROVE ShutdownInv'
  BY <1>5 DEF EndOfStream
<1>6. ASSUME NEW s \in Sides, Lock(s) PROVE ShutdownInv'
  BY <1>6 DEF Lock
<1>7. ASSUME NEW s \in Sides, LoadId(s) PROVE ShutdownInv'
  BY <1>7 DEF LoadId
<1>8. ASSUME NEW s \in Sides, StoreId(s) PROVE ShutdownInv'
  BY <1>8 DEF StoreId
<1>9. ASSUME NEW s \in Sides, Unlock(s) PROVE ShutdownInv'
  BY <1>9 DEF Unlock
<1>10. ASSUME NEW s \in Sides, Write(s) PROVE ShutdownInv'
  BY <1>10 DEF Write
<1>11. ASSUME NEW s \in Sides, WriteFails(s) PROVE ShutdownInv'
  BY <1>11 DEF WriteFails
<1>12. ASSUME NEW s \in Sides, CallPlugins(s) PROVE ShutdownInv'
  BY <1>12 DEF CallPlugins
<1>13. ASSUME NEW s \in Sides, PluginFails(s) PROVE ShutdownInv'
  BY <1>13 DEF PluginFails
<1>14. ASSUME NEW s \in Sides, Send(s) PROVE ShutdownInv'
  BY <1>14 DEF Send
<1>15. ASSUME NEW s \in Sides, SendFails(s) PROVE ShutdownInv'
  BY <1>15 DEF SendFails
<1>16. ASSUME NEW s \in Sides, Hangup(s) PROVE ShutdownInv'
  BY <1>16 DEF Hangup, RequestCancel
<1>17. ASSUME NEW s \in Sides, Cleanup(s) PROVE ShutdownInv'
  BY <1>17 DEF Cleanup, RequestCancel
<1>18. ASSUME NEW s \in Sides, Die(s) PROVE ShutdownInv'
  BY <1>18 DEF Die
<1>19. ASSUME NEW s \in Sides, PeerCloses(s) PROVE ShutdownInv'
  BY <1>19 DEF PeerCloses
<1>20. CASE UNCHANGED vars
  BY <1>20 DEF vars
<1>21. QED
  BY <1>1, <1>2, <1>3, <1>4, <1>5, <1>6, <1>7, <1>8, <1>9, <1>10, <1>11,
     <1>12, <1>13, <1>14, <1>15, <1>16, <1>17, <1>18, <1>19, <1>20
     DEF Next, Main, Step, Proceed, Handle, Returned

LEMMA ShutdownCorrect == Spec => []ShutdownInv
BY TypeCorrect, ShutdownInit, ShutdownStep, PTL DEF Spec

\* A listener that dies in the critical section blocks nobody: the one that
\* cancelled it is past its last use of the mutex.
THEOREM NobodyNeedsADeadOwnersMutexAlways == Spec => []NobodyNeedsADeadOwnersMutex
<1>1. ShutdownInv => NobodyNeedsADeadOwnersMutex
  BY DEF ShutdownInv, CancelInv, NobodyNeedsADeadOwnersMutex
<1>2. QED
  BY <1>1, ShutdownCorrect, PTL

\* The parameters on the stack of startProxy outlive both listeners.
THEOREM ParamsOutliveTheListenersAlways == Spec => []ParamsOutliveTheListeners
<1>1. ShutdownInv => ParamsOutliveTheListeners
  BY DEF ShutdownInv, StartupInv, ParamsOutliveTheListeners, Sides
<1>2. QED
  BY <1>1, ShutdownCorrect, PTL

LEMMA OrphanStep ==
  TypeInv /\ ShutdownInv /\ [Next]_vars =>
    (~Orphaned /\ Orphaned' => pc["server"] = "unborn")
<1> SUFFICES ASSUME TypeOK, ShutdownInv, ~Orphaned, Orphaned', [Next]_vars PROVE pc["server"] = "unborn"
  BY DEF TypeInv
<1> USE DEF TypeOK, ShutdownInv, CancelInv, StartupInv, Orphaned, Goto,
            Sides, Other, Labels, Ended, threadVars, streamVars
<1>1. ASSUME NEW s \in Sides, Create(s) PROVE pc["server"] = "unborn"
  BY <1>1 DEF Create
<1>2. ASSUME NEW s \in Sides, Join(s) PROVE pc["server"] = "unborn"
  BY <1>2 DEF Join
<1>3. ASSUME NEW s \in Sides, Receive(s) PROVE pc["server"] = "unborn"
  BY <1>3 DEF Receive
<1>4. ASSUME NEW s \in Sides, ReceiveFails(s) PROVE pc["server"] = "unborn"
  BY <1>4 DEF ReceiveFails
<1>5. ASSUME NEW s \in Sides, EndOfStream(s) PROVE pc["server"] = "unborn"
  BY <1>5 DEF EndOfStream
<1>6. ASSUME NEW s \in Sides, Lock(s) PROVE pc["server"] = "unborn"
  BY <1>6 DEF Lock
<1>7. ASSUME NEW s \in Sides, LoadId(s) PROVE pc["server"] = "unborn"
  BY <1>7 DEF LoadId
<1>8. ASSUME NEW s \in Sides, StoreId(s) PROVE pc["server"] = "unborn"
  BY <1>8 DEF StoreId
<1>9. ASSUME NEW s \in Sides, Unlock(s) PROVE pc["server"] = "unborn"
  BY <1>9 DEF Unlock
<1>10. ASSUME NEW s \in Sides, Write(s) PROVE pc["server"] = "unborn"
  BY <1>10 DEF Write
<1>11. ASSUME NEW s \in Sides, WriteFails(s) PROVE pc["server"] = "unborn"
  BY <1>11 DEF WriteFails
<1>12. ASSUME NEW s \in Sides, CallPlugins(s) PROVE pc["server"] = "unborn"
  BY <1>12 DEF CallPlugins
<1>13. ASSUME NEW s \in Sides, PluginFails(s) PROVE pc["server"] = "unborn"
  BY <1>13 DEF PluginFails
<1>14. ASSUME NEW s \in Sides, Send(s) PROVE pc["server"] = "unborn"
  BY <1>14 DEF Send
<1>15. ASSUME NEW s \in Sides, SendFails(s) PROVE pc["server"] = "unborn"
  BY <1>15 DEF SendFails
<1>16. ASSUME NEW s \in Sides, Hangup(s) PROVE pc["server"] = "unborn"
  BY <1>16 DEF Hangup, RequestCancel
<1>17. ASSUME NEW s \in Sides, Cleanup(s) PROVE pc["server"] = "unborn"
  BY <1>17 DEF Cleanup, RequestCancel
<1>18. ASSUME NEW s \in Sides, Die(s) PROVE pc["server"] = "unborn"
  BY <1>18 DEF Die
<1>19. ASSUME NEW s \in Sides, PeerCloses(s) PROVE pc["server"] = "unborn"
  BY <1>19 DEF PeerCloses
<1>20. CASE UNCHANGED vars
  BY <1>20 DEF vars
<1>21. QED
  BY <1>1, <1>2, <1>3, <1>4, <1>5, <1>6, <1>7, <1>8, <1>9, <1>10, <1>11,
     <1>12, <1>13, <1>14, <1>15, <1>16, <1>17, <1>18, <1>19, <1>20
     DEF Next, Main, Step, Proceed, Handle, Returned

\* The listeners lose sight of each other only in the start-up window.
THEOREM OrphansComeFromStartupAlways == Spec => OrphansComeFromStartup
<1>1. TypeInv /\ ShutdownInv /\ [Next]_vars
        => [~Orphaned /\ Orphaned' => pc["server"] = "unborn"]_vars
  BY OrphanStep
<1>2. QED
  BY <1>1, TypeCorrect, ShutdownCorrect, PTL DEF Spec, OrphansComeFromStartup

-----------------------------------------------------------------------------
(* Ids.                                                                    *)

\* A side that has drawn an id and not recorded it yet.
Holds(s) == pc[s] \in {"unlock", "write"}

\* Every id in use was drawn from the counter.
IdsDrawn ==
  /\ \A s \in Sides : \A i \in DOMAIN log[s] : log[s][i].id < packetId
  /\ \A s \in Sides : Holds(s) => packet[s].id < packetId

\* The id a side read inside the critical section is still the counter's.
IdFresh == \A s \in Sides : pc[s] = "store" => packet[s].id = packetId

\* An id that is not recorded yet follows the ones its side recorded and
\* is none of the ones the other side recorded or holds.
IdsHeld ==
  \A s \in Sides : Holds(s) =>
    /\ \A i \in DOMAIN log[s] : log[s][i].id < packet[s].id
    /\ \A t \in Sides : t # s =>
         /\ \A i \in DOMAIN log[t] : log[t][i].id # packet[s].id
         /\ Holds(t) => packet[t].id # packet[s].id

IdInv == IdsDrawn /\ IdFresh /\ IdsHeld /\ IdsOrderTheCapture

LEMMA IdInit == Init => IdInv
BY DEF Init, IdInv, IdsDrawn, IdFresh, IdsHeld, IdsOrderTheCapture, Holds, Sides,
       Other

\* What the capture files hold are records with an id.
LEMMA RecordsHaveIds ==
  ASSUME TypeInv, NEW s \in Sides, NEW i \in DOMAIN log[s]
  PROVE  log[s][i].id \in Nat /\ i \in Nat
<1> DEFINE Records == [id : Nat, data : Payload, whole : BOOLEAN]
<1>1. log \in [Sides -> Seq(Records)]
  BY DEF TypeInv, TypeOK
<1>2. log[s][i] \in Records /\ i \in Nat
  <2> HIDE DEF Records
  <2>1. QED
    BY <1>1
<1>3. QED
  BY <1>2

\* Recording the id a side holds keeps the invariant.
LEMMA IdRecorded ==
  ASSUME TypeInv, IdInv, NEW s \in Sides, Holds(s), NEW whole \in BOOLEAN,
         AppendRecord(s, whole), UNCHANGED <<packet, packetId>>,
         NEW label \in Labels, pc' = [pc EXCEPT ![s] = label],
         label \notin {"store", "unlock", "write"}
  PROVE  IdInv'
<1> DEFINE n == Len(log[s]) + 1
           Records == [id : Nat, data : Payload, whole : BOOLEAN]
<1>1. /\ pc \in [Sides -> Labels]
      /\ packetId \in Nat
      /\ log \in [Sides -> Seq(Records)]
  BY DEF TypeInv, TypeOK
<1>2. packet[s].id \in Nat
  BY DEF TypeInv, PacketInHand, Holds, Drawn
<1>3. \A t \in Sides : \A i \in DOMAIN log[t] : log[t][i].id \in Nat /\ i \in Nat
  BY RecordsHaveIds
<1> HIDE DEF Records
<1>4. /\ log'[s] = Append(log[s], Record(s, whole))
      /\ \A t \in Sides : t # s => log'[t] = log[t]
  BY <1>1 DEF AppendRecord
<1>5. /\ DOMAIN log'[s] = DOMAIN log[s] \cup {n}
      /\ \A i \in DOMAIN log[s] : log'[s][i] = log[s][i] /\ i < n
      /\ log'[s][n] = Record(s, whole)
      /\ n \in Nat
  BY <1>1, <1>4
<1>6. log'[s][n].id = packet[s].id
  BY <1>5 DEF Record
<1> HIDE DEF n
<1>7. ~Holds(s)' /\ \A t \in Sides : t # s => Holds(t)' = Holds(t)
  BY <1>1 DEF Holds
<1>8. IdsDrawn'
  BY <1>4, <1>5, <1>6, <1>7 DEF IdInv, IdsDrawn
<1>9. IdFresh'
  BY <1>1 DEF IdInv, IdFresh
<1>10. IdsHeld'
  BY <1>4, <1>5, <1>6, <1>7 DEF IdInv, IdsHeld
<1>11. IdsOrderTheCapture'
  <2>1. ASSUME NEW t \in Sides, NEW i \in DOMAIN log'[t], NEW j \in DOMAIN log'[t],
               i < j
        PROVE  log'[t][i].id < log'[t][j].id
    <3>1. CASE t # s
      BY <2>1, <3>1, <1>4 DEF IdInv, IdsOrderTheCapture
    <3>2. CASE t = s
      <4>1. i \in DOMAIN log[s] /\ log[s][i].id = log'[s][i].id
        BY <2>1, <3>2, <1>3, <1>5
      <4>2. CASE j = n
        BY <3>2, <4>1, <4>2, <1>6 DEF IdInv, IdsHeld
      <4>3. CASE j # n
        BY <2>1, <3>2, <4>1, <4>3, <1>5 DEF IdInv, IdsOrderTheCapture
      <4>4. QED
        BY <4>2, <4>3
    <3>3. QED
      BY <3>1, <3>2
  <2>2. ASSUME NEW t \in Sides, t # s,
               NEW i \in DOMAIN log'[s], NEW j \in DOMAIN log'[t]
        PROVE  log'[s][i].id # log'[t][j].id
    <3>1. CASE i = n
      BY <2>2, <3>1, <1>4, <1>6 DEF IdInv, IdsHeld
    <3>2. CASE i # n
      BY <2>2, <3>2, <1>4, <1>5 DEF IdInv, IdsOrderTheCapture
    <3>3. QED
      BY <3>1, <3>2
  <2>3. ASSUME NEW u \in Sides, NEW t \in Sides, u # t,
               NEW i \in DOMAIN log'[u], NEW j \in DOMAIN log'[t]
        PROVE  log'[u][i].id # log'[t][j].id
    <3>1. u = s \/ t = s
      BY <2>3 DEF Sides
    <3>2. QED
      BY <2>2, <2>3, <3>1
  <2>4. QED
    BY <2>1, <2>3 DEF IdsOrderTheCapture
<1>12. QED
  BY <1>8, <1>9, <1>10, <1>11 DEF IdInv

LEMMA IdStep == TypeInv /\ ShutdownInv /\ IdInv /\ [Next]_vars => IdInv'
<1> SUFFICES ASSUME TypeInv, MutexInv, IdInv, [Next]_vars PROVE IdInv'
  BY DEF ShutdownInv
<1> USE DEF TypeInv, TypeOK, PacketInHand, Drawn, MutexInv, IdInv, IdsDrawn, IdFresh,
            IdsHeld, IdsOrderTheCapture, Holds, Goto, Sides, Other, Labels, Ended,
            Critical, threadVars, streamVars
<1>1. ASSUME NEW s \in Sides, Create(s) PROVE IdInv'
  BY <1>1 DEF Create
<1>2. ASSUME NEW s \in Sides, Join(s) PROVE IdInv'
  BY <1>2 DEF Join
<1>3. ASSUME NEW s \in Sides, Receive(s) PROVE IdInv'
  BY <1>3 DEF Receive
<1>4. ASSUME NEW s \in Sides, ReceiveFails(s) PROVE IdInv'
  BY <1>4 DEF ReceiveFails
<1>5. ASSUME NEW s \in Sides, EndOfStream(s) PROVE IdInv'
  BY <1>5 DEF EndOfStream
<1>6. ASSUME NEW s \in Sides, Lock(s) PROVE IdInv'
  BY <1>6 DEF Lock
<1>7. ASSUME NEW s \in Sides, LoadId(s) PROVE IdInv'
  BY <1>7 DEF LoadId
<1>8. ASSUME NEW s \in Sides, StoreId(s) PROVE IdInv'
  <2>1. packet[s].id = packetId /\ packetId' = packetId + 1 /\ packetId \in Nat
    BY <1>8 DEF StoreId
  <2>2. \A t \in Sides : t # s => pc[t] \notin Critical /\ pc'[t] = pc[t]
    BY <1>8 DEF StoreId
  <2>3. pc'[s] = "unlock" /\ UNCHANGED <<log, packet>>
    BY <1>8 DEF StoreId
  <2>4. \A t \in Sides : \A i \in DOMAIN log[t] : log[t][i].id \in Nat
    BY RecordsHaveIds
  <2>5. IdsDrawn'
    BY <2>1, <2>2, <2>3, <2>4
  <2>6. IdFresh'
    BY <2>2, <2>3
  <2>7. IdsHeld'
    BY <2>1, <2>2, <2>3, <2>4
  <2>8. QED
    BY <2>3, <2>5, <2>6, <2>7
<1>9. ASSUME NEW s \in Sides, Unlock(s) PROVE IdInv'
  BY <1>9 DEF Unlock
<1>10. ASSUME NEW s \in Sides, Write(s) PROVE IdInv'
  <2>1. PICK whole \in BOOLEAN : AppendRecord(s, whole)
    BY <1>10 DEF Write
  <2>2. QED
    BY <1>10, <2>1, IdRecorded DEF Write
<1>11. ASSUME NEW s \in Sides, WriteFails(s) PROVE IdInv'
  BY <1>11, IdRecorded DEF WriteFails
<1>12. ASSUME NEW s \in Sides, CallPlugins(s) PROVE IdInv'
  BY <1>12 DEF CallPlugins
<1>13. ASSUME NEW s \in Sides, PluginFails(s) PROVE IdInv'
  BY <1>13 DEF PluginFails
<1>14. ASSUME NEW s \in Sides, Send(s) PROVE IdInv'
  BY <1>14 DEF Send
<1>15. ASSUME NEW s \in Sides, SendFails(s) PROVE IdInv'
  BY <1>15 DEF SendFails
<1>16. ASSUME NEW s \in Sides, Hangup(s) PROVE IdInv'
  BY <1>16 DEF Hangup
<1>17. ASSUME NEW s \in Sides, Cleanup(s) PROVE IdInv'
  BY <1>17 DEF Cleanup
<1>18. ASSUME NEW s \in Sides, Die(s) PROVE IdInv'
  <2>1. CASE pc[s] = "write" /\ \E whole \in BOOLEAN : AppendRecord(s, whole)
    <3>1. PICK whole \in BOOLEAN : AppendRecord(s, whole)
      BY <2>1
    <3>2. QED
      BY <1>18, <2>1, <3>1, IdRecorded DEF Die
  <2>2. CASE UNCHANGED log
    BY <1>18, <2>2 DEF Die
  <2>3. QED
    BY <1>18, <2>1, <2>2 DEF Die
<1>19. ASSUME NEW s \in Sides, PeerCloses(s) PROVE IdInv'
  BY <1>19 DEF PeerCloses
<1>20. CASE UNCHANGED vars
  BY <1>20 DEF vars
<1>21. QED
  BY <1>1, <1>2, <1>3, <1>4, <1>5, <1>6, <1>7, <1>8, <1>9, <1>10, <1>11,
     <1>12, <1>13, <1>14, <1>15, <1>16, <1>17, <1>18, <1>19, <1>20
     DEF Next, Main, Step, Proceed, Handle, Returned

LEMMA IdsCorrect == Spec => []IdInv
BY TypeCorrect, ShutdownCorrect, IdInit, IdStep, PTL DEF Spec

\* The ids of a capture order the records of its two files totally.
THEOREM IdsOrderTheCaptureAlways == Spec => []IdsOrderTheCapture
<1>1. IdInv => IdsOrderTheCapture
  BY DEF IdInv
<1>2. QED
  BY <1>1, IdsCorrect, PTL

-----------------------------------------------------------------------------
(* Chunks.                                                                 *)

\* How many chunks a listener received, recorded and forwarded at each point,
\* and which one it has in hand.
Progress(s) ==
  /\ pc[s] \in {"unborn", "recv", "hangup"} =>
       /\ Len(received[s]) = Len(log[s])
       /\ Len(received[s]) = Len(forwarded[s])
  /\ pc[s] \in {"lock", "load", "store", "unlock", "write"} =>
       /\ Len(received[s]) = Len(log[s]) + 1
       /\ Len(received[s]) = Len(forwarded[s]) + 1
       /\ packet[s].data = received[s][Len(received[s])]
  /\ pc[s] \in {"plugins", "send"} =>
       /\ Len(received[s]) = Len(log[s])
       /\ Len(received[s]) = Len(forwarded[s]) + 1
  /\ pc[s] = "plugins" => packet[s].data = received[s][Len(received[s])]
  /\ pc[s] = "send" => packet[s].data \in Rewrites[received[s][Len(received[s])]]

Lengths(s) ==
  /\ Len(received[s]) \in {Len(log[s]), Len(log[s]) + 1}
  /\ Len(forwarded[s]) <= Len(log[s])
  /\ Len(received[s]) <= Len(forwarded[s]) + 1

RecordsMatch(s) == \A i \in DOMAIN log[s] : log[s][i].data = received[s][i]

DataInv == \A s \in Sides : Progress(s) /\ Lengths(s) /\ RecordsMatch(s)

LEMMA DataInit == Init => DataInv
BY DEF Init, DataInv, Progress, Lengths, RecordsMatch, Sides

\* Recording the chunk in hand keeps the invariant, wherever the listener goes
\* on, provided it still has the chunk to rewrite or is leaving.
LEMMA DataRecorded ==
  ASSUME TypeInv, DataInv, NEW s \in Sides, pc[s] = "write",
         NEW whole \in BOOLEAN, AppendRecord(s, whole),
         UNCHANGED <<packet, received, forwarded>>,
         NEW label \in {"plugins", "cleanup", "cancelled"},
         pc' = [pc EXCEPT ![s] = label]
  PROVE  DataInv'
<1> DEFINE Records == [id : Nat, data : Payload, whole : BOOLEAN]
<1>1. /\ pc \in [Sides -> Labels]
      /\ log \in [Sides -> Seq(Records)]
      /\ received \in [Sides -> Seq(Payload)]
      /\ forwarded \in [Sides -> Seq(Payload)]
  BY DEF TypeInv, TypeOK
<1> HIDE DEF Records
<1>2. /\ log'[s] = Append(log[s], Record(s, whole))
      /\ \A t \in Sides : t # s => log'[t] = log[t] /\ pc'[t] = pc[t]
      /\ pc'[s] = label
  BY <1>1 DEF AppendRecord
<1>3. /\ Len(log'[s]) = Len(log[s]) + 1
      /\ DOMAIN log'[s] = DOMAIN log[s] \cup {Len(log[s]) + 1}
      /\ \A i \in DOMAIN log[s] : log'[s][i] = log[s][i]
      /\ log'[s][Len(log[s]) + 1] = Record(s, whole)
      /\ Len(log[s]) \in Nat
  BY <1>1, <1>2
<1>4. \A t \in Sides : t # s => Progress(t)' /\ Lengths(t)' /\ RecordsMatch(t)'
  BY <1>2 DEF DataInv, Progress, Lengths, RecordsMatch
<1>5. Progress(s)' /\ Lengths(s)'
  BY <1>1, <1>2, <1>3 DEF DataInv, Progress, Lengths
<1>6. RecordsMatch(s)'
  BY <1>3 DEF DataInv, Progress, RecordsMatch, Record
<1>7. QED
  BY <1>4, <1>5, <1>6 DEF DataInv

\* A step of one listener leaves the chunks of the other alone.
LEMMA DataElsewhere ==
  ASSUME DataInv, NEW s \in Sides, Progress(s)', Lengths(s)', RecordsMatch(s)',
         \A t \in Sides : t # s =>
           /\ pc'[t] = pc[t] /\ packet'[t] = packet[t] /\ log'[t] = log[t]
           /\ received'[t] = received[t] /\ forwarded'[t] = forwarded[t]
  PROVE  DataInv'
<1> SUFFICES ASSUME NEW t \in Sides
             PROVE  Progress(t)' /\ Lengths(t)' /\ RecordsMatch(t)'
  BY DEF DataInv
<1>1. CASE t = s
  BY <1>1 DEF Progress, Lengths, RecordsMatch
<1>2. CASE t # s
  <2>1. /\ pc'[t] = pc[t] /\ packet'[t] = packet[t] /\ log'[t] = log[t]
        /\ received'[t] = received[t] /\ forwarded'[t] = forwarded[t]
    BY <1>2
  <2>2. Progress(t) /\ Lengths(t) /\ RecordsMatch(t)
    BY DEF DataInv
  <2>3. Progress(t)'
    BY <2>1, <2>2 DEF Progress
  <2>4. Lengths(t)' /\ RecordsMatch(t)'
    BY <2>1, <2>2 DEF Lengths, RecordsMatch
  <2>5. QED
    BY <2>3, <2>4
<1>3. QED
  BY <1>1, <1>2

\* The types of a listener's streams and of the chunk it is about to use.
LEMMA StreamTypes ==
  ASSUME TypeInv, NEW s \in Sides
  PROVE  /\ log[s] \in Seq([id : Nat, data : Payload, whole : BOOLEAN])
         /\ received[s] \in Seq(Payload)
         /\ forwarded[s] \in Seq(Payload)
         /\ pc[s] \in {"write", "plugins", "send"} => packet[s].data \in Payload
BY DEF TypeInv, TypeOK, PacketInHand, Drawn

\* What Append does to a sequence.
LEMMA AppendFacts ==
  ASSUME NEW S, NEW q \in Seq(S), NEW e \in S
  PROVE  /\ Append(q, e) \in Seq(S)
         /\ Len(Append(q, e)) = Len(q) + 1
         /\ Len(q) \in Nat
         /\ Append(q, e)[Len(q) + 1] = e
         /\ \A i \in 1 .. Len(q) : Append(q, e)[i] = q[i]
         /\ DOMAIN q = 1 .. Len(q)
OBVIOUS

LEMMA DataStep == TypeInv /\ ShutdownInv /\ DataInv /\ [Next]_vars => DataInv'
<1> SUFFICES ASSUME TypeInv, StartupInv, DataInv, [Next]_vars PROVE DataInv'
  BY DEF ShutdownInv
<1> USE DEF TypeInv, TypeOK, DataInv, Progress, Lengths, RecordsMatch, Goto,
            Sides, Other, Labels, Ended, Critical, threadVars, streamVars
<1>1. ASSUME NEW s \in Sides, Create(s) PROVE DataInv'
  BY <1>1 DEF Create, StartupInv
<1>2. ASSUME NEW s \in Sides, Join(s) PROVE DataInv'
  BY <1>2 DEF Join
<1>3. ASSUME NEW s \in Sides, Receive(s) PROVE DataInv'
  <2>1. PICK p \in Payload :
          /\ received' = [received EXCEPT ![s] = Append(@, p)]
          /\ packet' = [packet EXCEPT ![s] = [id |-> -1, data |-> p]]
    BY <1>3 DEF Receive
  <2>2. received'[s] = Append(received[s], p) /\ packet'[s].data = p
    BY <2>1
  <2>3. /\ pc[s] = "recv" /\ pc'[s] = "lock"
        /\ log'[s] = log[s] /\ forwarded'[s] = forwarded[s]
    BY <1>3 DEF Receive
  <2>4. /\ log[s] \in Seq([id : Nat, data : Payload, whole : BOOLEAN])
        /\ received[s] \in Seq(Payload)
    OBVIOUS
  <2>5. /\ Len(received'[s]) = Len(received[s]) + 1
        /\ received'[s][Len(received[s]) + 1] = p
        /\ \A i \in 1 .. Len(received[s]) : received'[s][i] = received[s][i]
        /\ DOMAIN log[s] = 1 .. Len(log[s])
        /\ Len(received[s]) \in Nat
    BY <2>2, <2>4, AppendFacts
  <2>6. Progress(s)' /\ Lengths(s)'
    BY <2>2, <2>3, <2>5
  <2>7. RecordsMatch(s)'
    BY <2>3, <2>5
  <2>8. QED
    BY <1>3, <2>1, <2>6, <2>7, DataElsewhere DEF Receive
<1>4. ASSUME NEW s \in Sides, ReceiveFails(s) PROVE DataInv'
  BY <1>4 DEF ReceiveFails
<1>5. ASSUME NEW s \in Sides, EndOfStream(s) PROVE DataInv'
  BY <1>5 DEF EndOfStream
<1>6. ASSUME NEW s \in Sides, Lock(s) PROVE DataInv'
  BY <1>6 DEF Lock
<1>7. ASSUME NEW s \in Sides, LoadId(s) PROVE DataInv'
  BY <1>7 DEF LoadId
<1>8. ASSUME NEW s \in Sides, StoreId(s) PROVE DataInv'
  BY <1>8 DEF StoreId
<1>9. ASSUME NEW s \in Sides, Unlock(s) PROVE DataInv'
  BY <1>9 DEF Unlock
<1>10. ASSUME NEW s \in Sides, Write(s) PROVE DataInv'
  <2>1. PICK whole \in BOOLEAN : AppendRecord(s, whole)
    BY <1>10 DEF Write
  <2>2. QED
    BY <1>10, <2>1, DataRecorded DEF Write
<1>11. ASSUME NEW s \in Sides, WriteFails(s) PROVE DataInv'
  BY <1>11, DataRecorded DEF WriteFails
<1>12. ASSUME NEW s \in Sides, CallPlugins(s) PROVE DataInv'
  <2>1. PICK p \in Rewrites[packet[s].data] :
          packet' = [packet EXCEPT ![s].data = p]
    BY <1>12 DEF CallPlugins
  <2>2. packet'[s].data \in Rewrites[received[s][Len(received[s])]]
    BY <1>12, <2>1 DEF CallPlugins
  <2>3. /\ pc[s] = "plugins" /\ pc'[s] = "send"
        /\ log'[s] = log[s] /\ received'[s] = received[s]
        /\ forwarded'[s] = forwarded[s]
    BY <1>12 DEF CallPlugins
  <2>4. Progress(s)' /\ Lengths(s)' /\ RecordsMatch(s)'
    BY <2>2, <2>3
  <2>5. QED
    BY <1>12, <2>1, <2>4, DataElsewhere DEF CallPlugins
<1>13. ASSUME NEW s \in Sides, PluginFails(s) PROVE DataInv'
  BY <1>13 DEF PluginFails
<1>14. ASSUME NEW s \in Sides, Send(s) PROVE DataInv'
  <2>1. /\ pc[s] = "send" /\ pc'[s] = "recv"
        /\ log'[s] = log[s] /\ received'[s] = received[s]
        /\ forwarded'[s] = Append(forwarded[s], packet[s].data)
    BY <1>14 DEF Send
  <2>2. forwarded[s] \in Seq(Payload) /\ packet[s].data \in Payload
    BY <2>1, StreamTypes
  <2>3. Len(forwarded'[s]) = Len(forwarded[s]) + 1 /\ Len(forwarded[s]) \in Nat
    BY <2>1, <2>2, AppendFacts
  <2>4. Progress(s)' /\ Lengths(s)' /\ RecordsMatch(s)'
    BY <2>1, <2>3
  <2>5. QED
    BY <1>14, <2>4, DataElsewhere DEF Send
<1>15. ASSUME NEW s \in Sides, SendFails(s) PROVE DataInv'
  BY <1>15 DEF SendFails
<1>16. ASSUME NEW s \in Sides, Hangup(s) PROVE DataInv'
  BY <1>16 DEF Hangup
<1>17. ASSUME NEW s \in Sides, Cleanup(s) PROVE DataInv'
  BY <1>17 DEF Cleanup
<1>18. ASSUME NEW s \in Sides, Die(s) PROVE DataInv'
  <2>1. CASE pc[s] = "write" /\ UNCHANGED forwarded
                /\ \E whole \in BOOLEAN : AppendRecord(s, whole)
    <3>1. PICK whole \in BOOLEAN : AppendRecord(s, whole)
      BY <2>1
    <3>2. QED
      BY <1>18, <2>1, <3>1, DataRecorded DEF Die
  <2>2. CASE pc[s] = "send" /\ UNCHANGED log
                /\ forwarded' = [forwarded EXCEPT ![s] = Append(@, packet[s].data)]
    <3>1. /\ pc'[s] = "cancelled"
          /\ log'[s] = log[s] /\ received'[s] = received[s]
          /\ forwarded'[s] = Append(forwarded[s], packet[s].data)
      BY <1>18, <2>2 DEF Die
    <3>2. forwarded[s] \in Seq(Payload) /\ packet[s].data \in Payload
      BY <2>2, StreamTypes
    <3>3. Len(forwarded'[s]) = Len(forwarded[s]) + 1 /\ Len(forwarded[s]) \in Nat
      BY <3>1, <3>2, AppendFacts
    <3>4. Progress(s)' /\ Lengths(s)' /\ RecordsMatch(s)'
      BY <2>2, <3>1, <3>3
    <3>5. QED
      BY <1>18, <2>2, <3>4, DataElsewhere DEF Die
  <2>3. CASE UNCHANGED <<log, forwarded>>
    BY <1>18, <2>3 DEF Die
  <2>4. QED
    BY <1>18, <2>1, <2>2, <2>3 DEF Die
<1>19. ASSUME NEW s \in Sides, PeerCloses(s) PROVE DataInv'
  BY <1>19 DEF PeerCloses
<1>20. CASE UNCHANGED vars
  BY <1>20 DEF vars
<1>21. QED
  BY <1>1, <1>2, <1>3, <1>4, <1>5, <1>6, <1>7, <1>8, <1>9, <1>10, <1>11,
     <1>12, <1>13, <1>14, <1>15, <1>16, <1>17, <1>18, <1>19, <1>20
     DEF Next, Main, Step, Proceed, Handle, Returned

LEMMA DataCorrect == Spec => []DataInv
BY TypeCorrect, ShutdownCorrect, DataInit, DataStep, PTL DEF Spec

-----------------------------------------------------------------------------
(* Cut records.                                                            *)

\* Where a record may be cut: at the end of the file of a listener that is
\* leaving or has left, and that did not forward the chunk.
Cuts(s) ==
  \A i \in DOMAIN log[s] :
    ~log[s][i].whole =>
      /\ i = Len(log[s])
      /\ i = Len(received[s])
      /\ pc[s] \in {"cleanup"} \cup Ended
      /\ Len(forwarded[s]) < i

CutInv == "flush" \notin Faults => \A s \in Sides : Cuts(s)

LEMMA CutInit == Init => CutInv
BY DEF Init, CutInv, Cuts, Sides

\* Recording a whole record, or one of a listener that leaves, keeps it.
LEMMA CutRecorded ==
  ASSUME TypeInv, DataInv, CutInv, "flush" \notin Faults,
         NEW s \in Sides, pc[s] = "write", UNCHANGED <<received, forwarded>>,
         NEW whole \in BOOLEAN, AppendRecord(s, whole),
         NEW label \in Labels, pc' = [pc EXCEPT ![s] = label],
         whole \/ label \in {"cleanup"} \cup Ended
  PROVE  CutInv'
<1> DEFINE Records == [id : Nat, data : Payload, whole : BOOLEAN]
<1>1. /\ pc \in [Sides -> Labels]
      /\ log \in [Sides -> Seq(Records)]
  BY DEF TypeInv, TypeOK
<1> HIDE DEF Records
<1>2. /\ log'[s] = Append(log[s], Record(s, whole))
      /\ \A t \in Sides : t # s => log'[t] = log[t] /\ pc'[t] = pc[t]
      /\ pc'[s] = label
  BY <1>1 DEF AppendRecord
<1>3. /\ Len(log'[s]) = Len(log[s]) + 1
      /\ DOMAIN log'[s] = DOMAIN log[s] \cup {Len(log[s]) + 1}
      /\ \A i \in DOMAIN log[s] : log'[s][i] = log[s][i]
      /\ log'[s][Len(log[s]) + 1] = Record(s, whole)
      /\ Len(log[s]) \in Nat
  BY <1>1, <1>2
<1>4. \A i \in DOMAIN log[s] : log[s][i].whole
  BY DEF CutInv, Cuts, Ended
<1>5. Len(forwarded[s]) = Len(log[s]) /\ Len(received[s]) = Len(log[s]) + 1
  BY <1>3, StreamTypes DEF DataInv, Progress
<1>6. Cuts(s)'
  BY <1>2, <1>3, <1>4, <1>5 DEF Cuts, Record
<1>7. \A t \in Sides : t # s => Cuts(t)'
  BY <1>2 DEF CutInv, Cuts
<1>8. QED
  BY <1>6, <1>7 DEF CutInv

LEMMA CutStep ==
  TypeInv /\ ShutdownInv /\ DataInv /\ CutInv /\ [Next]_vars => CutInv'
<1> SUFFICES ASSUME TypeInv, StartupInv, DataInv, CutInv, "flush" \notin Faults, [Next]_vars PROVE CutInv'
  BY DEF ShutdownInv, CutInv
<1> USE DEF TypeInv, TypeOK, CutInv, Cuts, Goto,
            Sides, Other, Labels, Ended, Critical, threadVars, streamVars
<1>1. ASSUME NEW s \in Sides, Create(s) PROVE CutInv'
  BY <1>1 DEF Create, StartupInv
<1>2. ASSUME NEW s \in Sides, Join(s) PROVE CutInv'
  BY <1>2 DEF Join
<1>3. ASSUME NEW s \in Sides, Receive(s) PROVE CutInv'
  BY <1>3 DEF Receive
<1>4. ASSUME NEW s \in Sides, ReceiveFails(s) PROVE CutInv'
  BY <1>4 DEF ReceiveFails
<1>5. ASSUME NEW s \in Sides, EndOfStream(s) PROVE CutInv'
  BY <1>5 DEF EndOfStream
<1>6. ASSUME NEW s \in Sides, Lock(s) PROVE CutInv'
  BY <1>6 DEF Lock
<1>7. ASSUME NEW s \in Sides, LoadId(s) PROVE CutInv'
  BY <1>7 DEF LoadId
<1>8. ASSUME NEW s \in Sides, StoreId(s) PROVE CutInv'
  BY <1>8 DEF StoreId
<1>9. ASSUME NEW s \in Sides, Unlock(s) PROVE CutInv'
  BY <1>9 DEF Unlock
<1>10. ASSUME NEW s \in Sides, Write(s) PROVE CutInv'
  <2>1. PICK whole \in BOOLEAN : AppendRecord(s, whole) /\ whole
    BY <1>10 DEF Write
  <2>2. QED
    BY <1>10, <2>1, CutRecorded DEF Write
<1>11. ASSUME NEW s \in Sides, WriteFails(s) PROVE CutInv'
  BY <1>11, CutRecorded DEF WriteFails
<1>12. ASSUME NEW s \in Sides, CallPlugins(s) PROVE CutInv'
  BY <1>12 DEF CallPlugins
<1>13. ASSUME NEW s \in Sides, PluginFails(s) PROVE CutInv'
  BY <1>13 DEF PluginFails
<1>14. ASSUME NEW s \in Sides, Send(s) PROVE CutInv'
  <2>1. /\ pc[s] = "send" /\ pc'[s] = "recv" /\ log' = log /\ received' = received
        /\ \A t \in Sides : t # s => pc'[t] = pc[t] /\ forwarded'[t] = forwarded[t]
    BY <1>14 DEF Send
  <2>2. QED
    BY <2>1 DEF Cuts
<1>15. ASSUME NEW s \in Sides, SendFails(s) PROVE CutInv'
  BY <1>15 DEF SendFails
<1>16. ASSUME NEW s \in Sides, Hangup(s) PROVE CutInv'
  BY <1>16 DEF Hangup
<1>17. ASSUME NEW s \in Sides, Cleanup(s) PROVE CutInv'
  BY <1>17 DEF Cleanup
<1>18. ASSUME NEW s \in Sides, Die(s) PROVE CutInv'
  <2>1. CASE pc[s] = "write" /\ UNCHANGED forwarded
                /\ \E whole \in BOOLEAN : AppendRecord(s, whole)
    <3>1. PICK whole \in BOOLEAN : AppendRecord(s, whole)
      BY <2>1
    <3>2. QED
      BY <1>18, <2>1, <3>1, CutRecorded DEF Die
  <2>2. CASE UNCHANGED log
    BY <1>18, <2>2 DEF Die
  <2>3. QED
    BY <1>18, <2>1, <2>2 DEF Die
<1>19. ASSUME NEW s \in Sides, PeerCloses(s) PROVE CutInv'
  BY <1>19 DEF PeerCloses
<1>20. CASE UNCHANGED vars
  BY <1>20 DEF vars
<1>21. QED
  BY <1>1, <1>2, <1>3, <1>4, <1>5, <1>6, <1>7, <1>8, <1>9, <1>10, <1>11,
     <1>12, <1>13, <1>14, <1>15, <1>16, <1>17, <1>18, <1>19, <1>20
     DEF Next, Main, Step, Proceed, Handle, Returned

LEMMA CutsCorrect == Spec => []CutInv
BY TypeCorrect, ShutdownCorrect, DataCorrect, CutInit, CutStep, PTL DEF Spec

\* Unless closing a file may fail unnoticed, only the last record of a file can
\* be cut.
THEOREM CutRecordIsLastAlways == Spec => []CutRecordIsLast
<1>1. CutInv => CutRecordIsLast
  BY DEF CutInv, Cuts, CutRecordIsLast, MayBeCut
<1>2. QED
  BY <1>1, CutsCorrect, PTL

\* The capture files hold the chunks as they were received, in order, each of
\* them entirely but the last one of a side or one that fclose lost.
THEOREM CaptureIsUnmodifiedAlways == Spec => []CaptureIsUnmodified
<1>1. TypeInv /\ DataInv /\ CutInv => CaptureIsUnmodified
  BY DEF TypeInv, TypeOK, DataInv, Lengths, RecordsMatch, CutInv, Cuts,
         CaptureIsUnmodified
<1>2. QED
  BY <1>1, TypeCorrect, DataCorrect, CutsCorrect, PTL

\* A chunk goes to the other peer only after its record went to the capture.
THEOREM LoggedBeforeForwardedAlways == Spec => []LoggedBeforeForwarded
<1>1. TypeInv /\ DataInv /\ CutInv => LoggedBeforeForwarded
  <2> SUFFICES ASSUME TypeInv, DataInv, CutInv, NEW s \in Sides
               PROVE  /\ Len(forwarded[s]) <= Len(log[s])
                      /\ \A i \in DOMAIN forwarded[s] :
                           log[s][i].whole \/ "flush" \in Faults
    BY DEF LoggedBeforeForwarded
  <2>1. Len(forwarded[s]) <= Len(log[s])
    BY DEF DataInv, Lengths
  <2>2. /\ DOMAIN forwarded[s] = 1 .. Len(forwarded[s])
        /\ DOMAIN log[s] = 1 .. Len(log[s])
        /\ Len(forwarded[s]) \in Nat /\ Len(log[s]) \in Nat
    BY StreamTypes
  <2>3. ASSUME NEW i \in DOMAIN forwarded[s], "flush" \notin Faults
        PROVE  log[s][i].whole
    BY <2>1, <2>2, <2>3 DEF CutInv, Cuts
  <2>4. QED
    BY <2>1, <2>3
<1>2. QED
  BY <1>1, TypeCorrect, DataCorrect, CutsCorrect, PTL

-----------------------------------------------------------------------------
(* Each direction is a pipe.                                               *)

Open(r) == pc[r] \notin Ended

HandsOn(r) ==
  /\ Len(forwarded[r]) < Len(received[r])
  /\ \E p \in Rewrites[received[r][Len(forwarded[r]) + 1]] :
       forwarded'[r] = Append(forwarded[r], p)

\* The step of the pipe a step of the proxy is, for the direction of side r.
Forwards(r) ==
  \/ /\ Open(r) /\ Open(r)'
     /\ Len(received[r]) = Len(forwarded[r])
     /\ \E p \in Payload : received'[r] = Append(received[r], p)
     /\ forwarded'[r] = forwarded[r]
  \/ /\ Open(r) /\ Open(r)'
     /\ HandsOn(r)
     /\ received'[r] = received[r]
  \/ /\ Open(r) /\ ~Open(r)'
     /\ HandsOn(r) \/ forwarded'[r] = forwarded[r]
     /\ received'[r] = received[r]
  \/ /\ Open(r)' = Open(r)
     /\ received'[r] = received[r]
     /\ forwarded'[r] = forwarded[r]

\* Sending the packet in hand hands on the chunk the pipe holds.
LEMMA HandsOnWhatItHas ==
  ASSUME TypeInv, DataInv, NEW r \in Sides, pc[r] = "send",
         forwarded'[r] = Append(forwarded[r], packet[r].data)
  PROVE  HandsOn(r)
<1>1. /\ Len(received[r]) = Len(forwarded[r]) + 1
      /\ packet[r].data \in Rewrites[received[r][Len(received[r])]]
  BY DEF DataInv, Progress
<1>2. Len(forwarded[r]) \in Nat
  BY StreamTypes
<1>3. QED
  BY <1>1, <1>2 DEF HandsOn

LEMMA ForwardsStep ==
  ASSUME TypeInv, DataInv, ShutdownInv, NEW r \in Sides, [Next]_vars
  PROVE  Forwards(r)
<1>a. /\ pc \in [Sides -> Labels] /\ StartupInv
      /\ received \in [Sides -> Seq(Payload)]
      /\ forwarded \in [Sides -> Seq(Payload)]
  BY DEF TypeInv, TypeOK, ShutdownInv
<1> USE DEF Forwards, Open, Goto, Sides, Other, Labels, Ended, Critical,
            threadVars, streamVars
<1>1. ASSUME NEW s \in Sides, Create(s) PROVE Forwards(r)
  BY <1>a, <1>1 DEF Create, StartupInv
<1>2. ASSUME NEW s \in Sides, Join(s) PROVE Forwards(r)
  BY <1>a, <1>2 DEF Join
<1>3. ASSUME NEW s \in Sides, Receive(s) PROVE Forwards(r)
  <2>1. CASE s = r
    BY <1>a, <1>3, <2>1 DEF Receive, DataInv, Progress
  <2>2. CASE s # r
    BY <1>a, <1>3, <2>2 DEF Receive
  <2>3. QED
    BY <2>1, <2>2
<1>4. ASSUME NEW s \in Sides, ReceiveFails(s) PROVE Forwards(r)
  BY <1>a, <1>4 DEF ReceiveFails
<1>5. ASSUME NEW s \in Sides, EndOfStream(s) PROVE Forwards(r)
  BY <1>a, <1>5 DEF EndOfStream
<1>6. ASSUME NEW s \in Sides, Lock(s) PROVE Forwards(r)
  BY <1>a, <1>6 DEF Lock
<1>7. ASSUME NEW s \in Sides, LoadId(s) PROVE Forwards(r)
  BY <1>a, <1>7 DEF LoadId
<1>8. ASSUME NEW s \in Sides, StoreId(s) PROVE Forwards(r)
  BY <1>a, <1>8 DEF StoreId
<1>9. ASSUME NEW s \in Sides, Unlock(s) PROVE Forwards(r)
  BY <1>a, <1>9 DEF Unlock
<1>10. ASSUME NEW s \in Sides, Write(s) PROVE Forwards(r)
  BY <1>a, <1>10 DEF Write
<1>11. ASSUME NEW s \in Sides, WriteFails(s) PROVE Forwards(r)
  BY <1>a, <1>11 DEF WriteFails
<1>12. ASSUME NEW s \in Sides, CallPlugins(s) PROVE Forwards(r)
  BY <1>a, <1>12 DEF CallPlugins
<1>13. ASSUME NEW s \in Sides, PluginFails(s) PROVE Forwards(r)
  BY <1>a, <1>13 DEF PluginFails
<1>14. ASSUME NEW s \in Sides, Send(s) PROVE Forwards(r)
  <2>1. CASE s = r
    <3>1. /\ forwarded'[r] = Append(forwarded[r], packet[r].data)
          /\ pc[r] = "send"
      BY <1>a, <1>14, <2>1 DEF Send
    <3>2. HandsOn(r)
      BY <3>1, HandsOnWhatItHas
    <3>3. QED
      BY <1>a, <1>14, <2>1, <3>2 DEF Send
  <2>2. CASE s # r
    BY <1>a, <1>14, <2>2 DEF Send
  <2>3. QED
    BY <2>1, <2>2
<1>15. ASSUME NEW s \in Sides, SendFails(s) PROVE Forwards(r)
  BY <1>a, <1>15 DEF SendFails
<1>16. ASSUME NEW s \in Sides, Hangup(s) PROVE Forwards(r)
  BY <1>a, <1>16 DEF Hangup
<1>17. ASSUME NEW s \in Sides, Cleanup(s) PROVE Forwards(r)
  BY <1>a, <1>17 DEF Cleanup
<1>18. ASSUME NEW s \in Sides, Die(s) PROVE Forwards(r)
  <2>1. CASE s = r
    <3>1. pc[r] \notin Ended /\ pc'[r] \in Ended /\ received'[r] = received[r]
      BY <1>a, <1>18, <2>1 DEF Die
    <3>2. CASE pc[s] = "send"
                  /\ forwarded' = [forwarded EXCEPT ![s] = Append(@, packet[s].data)]
      <4>1. forwarded'[r] = Append(forwarded[r], packet[r].data) /\ pc[r] = "send"
        BY <1>a, <2>1, <3>2
      <4>2. HandsOn(r)
        BY <4>1, HandsOnWhatItHas
      <4>3. QED
        BY <3>1, <4>2
    <3>3. CASE forwarded' = forwarded
      BY <3>1, <3>3
    <3>4. QED
      BY <1>a, <1>18, <3>2, <3>3 DEF Die
  <2>2. CASE s # r
    BY <1>a, <1>18, <2>2 DEF Die
  <2>3. QED
    BY <2>1, <2>2
<1>19. ASSUME NEW s \in Sides, PeerCloses(s) PROVE Forwards(r)
  BY <1>a, <1>19 DEF PeerCloses
<1>20. CASE UNCHANGED vars
  BY <1>a, <1>20 DEF vars
<1>21. QED
  BY <1>a, <1>1, <1>2, <1>3, <1>4, <1>5, <1>6, <1>7, <1>8, <1>9, <1>10, <1>11,
     <1>12, <1>13, <1>14, <1>15, <1>16, <1>17, <1>18, <1>19, <1>20
     DEF Next, Main, Step, Proceed, Handle, Returned

LEMMA PipeInitially ==
  ASSUME Init
  PROVE  PipeOfClient!PipeInit /\ PipeOfServer!PipeInit
BY DEF Init, PipeOfClient!PipeInit, PipeOfServer!PipeInit, Sides, Ended

\* What the server is sent is what the client sent, as the plugins rewrote it.
THEOREM RelaysClientAlways == Spec => RelaysClient
<1>1. TypeInv /\ DataInv /\ ShutdownInv /\ [Next]_vars
        => [PipeOfClient!PipeNext]_(PipeOfClient!pipeVars)
  <2> SUFFICES ASSUME TypeInv, DataInv, ShutdownInv, [Next]_vars
               PROVE  [PipeOfClient!PipeNext]_(PipeOfClient!pipeVars)
    OBVIOUS
  <2>1. Forwards("client")
    BY ForwardsStep DEF Sides
  <2>2. QED
    BY <2>1 DEF Forwards, Open, HandsOn, PipeOfClient!PipeNext, PipeOfClient!Take,
       PipeOfClient!Give, PipeOfClient!Shut, PipeOfClient!HandOn,
       PipeOfClient!pipeVars
<1>2. QED
  BY <1>1, PipeInitially, TypeCorrect, DataCorrect, ShutdownCorrect, PTL
     DEF Spec, RelaysClient, PipeOfClient!PipeSpec

\* What the client is sent is what the server sent, as the plugins rewrote it.
THEOREM RelaysServerAlways == Spec => RelaysServer
<1>1. TypeInv /\ DataInv /\ ShutdownInv /\ [Next]_vars
        => [PipeOfServer!PipeNext]_(PipeOfServer!pipeVars)
  <2> SUFFICES ASSUME TypeInv, DataInv, ShutdownInv, [Next]_vars
               PROVE  [PipeOfServer!PipeNext]_(PipeOfServer!pipeVars)
    OBVIOUS
  <2>1. Forwards("server")
    BY ForwardsStep DEF Sides
  <2>2. QED
    BY <2>1 DEF Forwards, Open, HandsOn, PipeOfServer!PipeNext, PipeOfServer!Take,
       PipeOfServer!Give, PipeOfServer!Shut, PipeOfServer!HandOn,
       PipeOfServer!pipeVars
<1>2. QED
  BY <1>1, PipeInitially, TypeCorrect, DataCorrect, ShutdownCorrect, PTL
     DEF Spec, RelaysServer, PipeOfServer!PipeSpec

-----------------------------------------------------------------------------
(* Gaps.                                                                   *)

Accounted(n) ==
  \/ \E s \in Sides : \E i \in DOMAIN log[s] : log[s][i].id = n
  \/ \E s \in Sides : Unrecorded(s, n)

GapInv == \A n \in 0 .. packetId - 1 : Accounted(n)

LEMMA GapInit == Init => GapInv
BY DEF Init, GapInv

\* The id a side records was its own unrecorded one.
LEMMA GapRecorded ==
  ASSUME TypeInv, GapInv, NEW s \in Sides, pc[s] = "write",
         NEW whole \in BOOLEAN, AppendRecord(s, whole),
         UNCHANGED <<packet, packetId, received>>,
         NEW label \in Labels, pc' = [pc EXCEPT ![s] = label]
  PROVE  GapInv'
<1> DEFINE Records == [id : Nat, data : Payload, whole : BOOLEAN]
<1>1. /\ pc \in [Sides -> Labels]
      /\ log \in [Sides -> Seq(Records)]
  BY DEF TypeInv, TypeOK
<1> HIDE DEF Records
<1>2. /\ log'[s] = Append(log[s], Record(s, whole))
      /\ \A t \in Sides : t # s => log'[t] = log[t] /\ pc'[t] = pc[t]
  BY <1>1 DEF AppendRecord
<1>3. /\ DOMAIN log'[s] = DOMAIN log[s] \cup {Len(log[s]) + 1}
      /\ \A i \in DOMAIN log[s] : log'[s][i] = log[s][i]
      /\ log'[s][Len(log[s]) + 1].id = packet[s].id
  BY <1>1, <1>2 DEF Record
<1>4. SUFFICES ASSUME NEW n \in 0 .. packetId - 1, Accounted(n)
               PROVE  Accounted(n)'
  BY DEF GapInv
<1>5. ASSUME NEW t \in Sides, NEW i \in DOMAIN log[t], log[t][i].id = n
      PROVE  Accounted(n)'
  BY <1>2, <1>3, <1>5 DEF Accounted
<1>6. ASSUME NEW t \in Sides, Unrecorded(t, n)
      PROVE  Accounted(n)'
  <2>1. CASE t = s
    BY <1>3, <1>6, <2>1 DEF Accounted, Unrecorded
  <2>2. CASE t # s
    BY <1>2, <1>6, <2>2 DEF Accounted, Unrecorded
  <2>3. QED
    BY <2>1, <2>2
<1>7. QED
  BY <1>4, <1>5, <1>6 DEF Accounted

LEMMA GapStep ==
  ASSUME TypeInv, ShutdownInv, IdInv, DataInv, GapInv, [Next]_vars
  PROVE  GapInv'
<1>a. pc \in [Sides -> Labels] /\ packetId \in Nat /\ StartupInv
  BY DEF TypeInv, TypeOK, ShutdownInv
<1> USE DEF Goto, Sides, Other, Labels, Ended, Critical, threadVars, streamVars
<1>1. ASSUME NEW s \in Sides, Create(s) PROVE GapInv'
  BY <1>a, <1>1 DEF Create, StartupInv, GapInv, Accounted, Unrecorded
<1>2. ASSUME NEW s \in Sides, Join(s) PROVE GapInv'
  BY <1>a, <1>2 DEF Join, GapInv, Accounted, Unrecorded
<1>3. ASSUME NEW s \in Sides, Receive(s) PROVE GapInv'
  BY <1>a, <1>3 DEF Receive, GapInv, Accounted, Unrecorded
<1>4. ASSUME NEW s \in Sides, ReceiveFails(s) PROVE GapInv'
  BY <1>a, <1>4 DEF ReceiveFails, GapInv, Accounted, Unrecorded
<1>5. ASSUME NEW s \in Sides, EndOfStream(s) PROVE GapInv'
  BY <1>a, <1>5 DEF EndOfStream, GapInv, Accounted, Unrecorded
<1>6. ASSUME NEW s \in Sides, Lock(s) PROVE GapInv'
  BY <1>a, <1>6 DEF Lock, GapInv, Accounted, Unrecorded
<1>7. ASSUME NEW s \in Sides, LoadId(s) PROVE GapInv'
  BY <1>a, <1>7 DEF LoadId, GapInv, Accounted, Unrecorded
<1>8. ASSUME NEW s \in Sides, StoreId(s) PROVE GapInv'
  <2>1. /\ packet[s].id = packetId /\ packetId' = packetId + 1
        /\ pc[s] = "store" /\ pc'[s] = "unlock"
        /\ UNCHANGED <<log, packet, received>>
        /\ \A t \in Sides : t # s => pc'[t] = pc[t]
    BY <1>a, <1>8 DEF StoreId, IdInv, IdFresh
  <2>2. ASSUME NEW n \in Nat, n = packetId PROVE Accounted(n)'
    <3>1. Len(received[s]) = Len(log[s]) + 1
      BY <2>1 DEF DataInv, Progress
    <3>2. \A i \in DOMAIN log[s] : log[s][i].id < n
      BY <2>2 DEF IdInv, IdsDrawn
    <3>3. Unrecorded(s, n)'
      BY <2>1, <2>2, <3>1, <3>2 DEF Unrecorded
    <3>4. QED
      BY <3>3 DEF Accounted
  <2>3. ASSUME NEW n \in 0 .. packetId - 1 PROVE Accounted(n)'
    <3>1. CASE \E t \in Sides : \E i \in DOMAIN log[t] : log[t][i].id = n
      BY <2>1, <3>1 DEF Accounted
    <3>2. CASE \E t \in Sides : Unrecorded(t, n)
      <4>1. PICK t \in Sides : Unrecorded(t, n)
        BY <3>2
      <4>2. t # s
        BY <2>1, <4>1 DEF Unrecorded
      <4>3. Unrecorded(t, n)'
        BY <2>1, <4>1, <4>2 DEF Unrecorded
      <4>4. QED
        BY <4>3 DEF Accounted
    <3>3. QED
      BY <3>1, <3>2 DEF GapInv, Accounted
  <2>4. \A n \in 0 .. packetId' - 1 :
          n \in 0 .. packetId - 1 \/ (n = packetId /\ n \in Nat)
    BY <1>a, <2>1
  <2>5. QED
    BY <2>2, <2>3, <2>4 DEF GapInv
<1>9. ASSUME NEW s \in Sides, Unlock(s) PROVE GapInv'
  BY <1>a, <1>9 DEF Unlock, GapInv, Accounted, Unrecorded
<1>10. ASSUME NEW s \in Sides, Write(s) PROVE GapInv'
  <2>1. PICK whole \in BOOLEAN : AppendRecord(s, whole)
    BY <1>10 DEF Write
  <2>2. QED
    BY <1>a, <1>10, <2>1, GapRecorded DEF Write
<1>11. ASSUME NEW s \in Sides, WriteFails(s) PROVE GapInv'
  BY <1>a, <1>11, GapRecorded DEF WriteFails
<1>12. ASSUME NEW s \in Sides, CallPlugins(s) PROVE GapInv'
  BY <1>a, <1>12 DEF CallPlugins, GapInv, Accounted, Unrecorded
<1>13. ASSUME NEW s \in Sides, PluginFails(s) PROVE GapInv'
  BY <1>a, <1>13 DEF PluginFails, GapInv, Accounted, Unrecorded
<1>14. ASSUME NEW s \in Sides, Send(s) PROVE GapInv'
  BY <1>a, <1>14 DEF Send, GapInv, Accounted, Unrecorded
<1>15. ASSUME NEW s \in Sides, SendFails(s) PROVE GapInv'
  BY <1>a, <1>15 DEF SendFails, GapInv, Accounted, Unrecorded
<1>16. ASSUME NEW s \in Sides, Hangup(s) PROVE GapInv'
  BY <1>a, <1>16 DEF Hangup, GapInv, Accounted, Unrecorded
<1>17. ASSUME NEW s \in Sides, Cleanup(s) PROVE GapInv'
  BY <1>a, <1>17 DEF Cleanup, GapInv, Accounted, Unrecorded
<1>18. ASSUME NEW s \in Sides, Die(s) PROVE GapInv'
  <2>1. CASE pc[s] = "write" /\ \E whole \in BOOLEAN : AppendRecord(s, whole)
    <3>1. PICK whole \in BOOLEAN : AppendRecord(s, whole)
      BY <2>1
    <3>2. QED
      BY <1>a, <1>18, <2>1, <3>1, GapRecorded DEF Die
  <2>2. CASE UNCHANGED log
    BY <1>a, <1>18, <2>2 DEF Die, GapInv, Accounted, Unrecorded
  <2>3. QED
    BY <1>18, <2>1, <2>2 DEF Die
<1>19. ASSUME NEW s \in Sides, PeerCloses(s) PROVE GapInv'
  BY <1>a, <1>19 DEF PeerCloses, GapInv, Accounted, Unrecorded
<1>20. CASE UNCHANGED vars
  BY <1>20 DEF vars, GapInv, Accounted, Unrecorded
<1>21. QED
  BY <1>1, <1>2, <1>3, <1>4, <1>5, <1>6, <1>7, <1>8, <1>9, <1>10, <1>11,
     <1>12, <1>13, <1>14, <1>15, <1>16, <1>17, <1>18, <1>19, <1>20
     DEF Next, Main, Step, Proceed, Handle, Returned

\* A hole in the ids of a capture is the last thing its side left, unless fclose
\* lost the record.
THEOREM GapsAreFinalAlways == Spec => []GapsAreFinal
<1>1. GapInv /\ CutInv => GapsAreFinal
  <2> SUFFICES ASSUME GapInv, CutInv, NEW n \in 0 .. packetId - 1
               PROVE  \/ \E s \in Sides : \E i \in DOMAIN log[s] :
                           log[s][i].id = n /\ (log[s][i].whole \/ MayBeCut(s, i))
                      \/ \E s \in Sides : Unrecorded(s, n)
    BY DEF GapsAreFinal
  <2>1. \A s \in Sides : \A i \in DOMAIN log[s] : log[s][i].whole \/ MayBeCut(s, i)
    BY DEF CutInv, Cuts, MayBeCut
  <2>2. QED
    BY <2>1 DEF GapInv, Accounted
<1>2. TypeInv /\ ShutdownInv /\ IdInv /\ DataInv /\ GapInv /\ [Next]_vars => GapInv'
  BY GapStep
<1>3. QED
  BY <1>1, <1>2, GapInit, TypeCorrect, ShutdownCorrect, IdsCorrect, DataCorrect,
     CutsCorrect, PTL DEF Spec

=============================================================================
