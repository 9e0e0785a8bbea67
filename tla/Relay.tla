-------------------------------- MODULE Relay -------------------------------
(***************************************************************************)
(* One running Floana proxy (src/src/Floana-Proxy/Floana.c): the thread    *)
(* that runs startProxy and the two listener threads it creates.           *)
(*                                                                         *)
(* The "client" listener reads what the game client sent and forwards it   *)
(* to the server, the "server" listener does the opposite.  For every      *)
(* chunk recv returns, a listener draws an id from the counter they share  *)
(* under a mutex, appends the chunk to the capture file of its side, runs  *)
(* the plugins on it and sends what they left.  A listener that stops      *)
(* cancels the other one, with the asynchronous cancellation type: the     *)
(* cancelled thread dies at whatever point it has reached.                 *)
(***************************************************************************)
EXTENDS Integers, Sequences

CONSTANTS
  Payload,    \* what a chunk read from a socket can carry
  Rewrites,   \* payload -> the payloads the plugins may make of it
  Empty,      \* the contents of a packet nothing was received into yet
  Faults,     \* which of the failures below can happen
  MaxChunks   \* bound: the chunks received from each peer

FaultKinds == {"recv", "write", "flush", "plugins", "send"}

ASSUME RelayAssumption ==
  /\ Rewrites \in [Payload -> SUBSET Payload]
  /\ Faults \subseteq FaultKinds
  /\ MaxChunks \in Nat

Sides == {"client", "server"}
Other(s) == IF s = "client" THEN "server" ELSE "client"

VARIABLES
  mainPc,     \* where startProxy is
  pc,         \* where each listener is
  handle,     \* params.hClientListener, params.hServerListener are set
  cancel,     \* a cancellation of the listener is pending
  mutex,      \* the owner of params.mutex, or "none"
  packetId,   \* params.packetId
  packet,     \* the RawPacket on each listener's stack
  log,        \* the records whose writing to client.bin and server.bin began
  closed,     \* the peer of this side has closed its connection
  received,   \* history: the payloads the listener received
  forwarded   \* history: the payloads it sent to the other peer

threadVars == <<mainPc, handle>>
streamVars == <<closed, received, forwarded>>
vars == <<mainPc, pc, handle, cancel, mutex, packetId, packet, log,
          closed, received, forwarded>>

Ended    == {"done", "cancelled"}
Critical == {"load", "store", "unlock"}      \* between the two mutex calls
Labels   == {"unborn", "recv", "lock", "write", "plugins", "send",
             "hangup", "cleanup"} \cup Critical \cup Ended

Blank == [id |-> 0, data |-> Empty]

Init ==
  /\ mainPc = "createClient"
  /\ pc = [s \in Sides |-> "unborn"]
  /\ handle = [s \in Sides |-> FALSE]
  /\ cancel = [s \in Sides |-> FALSE]
  /\ mutex = "none"
  /\ packetId = 0
  /\ packet = [s \in Sides |-> Blank]
  /\ log = [s \in Sides |-> << >>]
  /\ closed = [s \in Sides |-> FALSE]
  /\ received = [s \in Sides |-> << >>]
  /\ forwarded = [s \in Sides |-> << >>]

Goto(s, label) == pc' = [pc EXCEPT ![s] = label]

-----------------------------------------------------------------------------
(* startProxy: two pthread_create, two pthread_join, return.               *)

\* pthread_create stores the handle before the new thread runs, and the
\* client listener runs before the handle of the server listener exists.
Create(s) ==
  /\ mainPc = IF s = "client" THEN "createClient" ELSE "createServer"
  /\ mainPc' = IF s = "client" THEN "createServer" ELSE "joinClient"
  /\ handle' = [handle EXCEPT ![s] = TRUE]
  /\ Goto(s, "recv")
  /\ UNCHANGED <<cancel, mutex, packetId, packet, log, streamVars>>

\* Mutant: both calls join the client listener.
JoinsClientTwice(s) ==
  /\ mainPc = IF s = "client" THEN "joinClient" ELSE "joinServer"
  /\ pc["client"] \in Ended
  /\ mainPc' = IF s = "client" THEN "joinServer" ELSE "returned"
  /\ UNCHANGED <<pc, handle, cancel, mutex, packetId, packet, log, streamVars>>

Join(s) ==
  /\ mainPc = IF s = "client" THEN "joinClient" ELSE "joinServer"
  /\ pc[s] \in Ended
  /\ mainPc' = IF s = "client" THEN "joinServer" ELSE "returned"
  /\ UNCHANGED <<pc, handle, cancel, mutex, packetId, packet, log, streamVars>>

-----------------------------------------------------------------------------
(* The loop of a listener.                                                 *)

\* rawPacketRecv returns 1.
Receive(s) ==
  /\ pc[s] = "recv"
  /\ ~closed[s]
  /\ Len(received[s]) < MaxChunks
  /\ \E p \in Payload :
       /\ received' = [received EXCEPT ![s] = Append(@, p)]
       /\ packet' = [packet EXCEPT ![s] = [id |-> -1, data |-> p]]
  /\ Goto(s, "lock")
  /\ UNCHANGED <<threadVars, cancel, mutex, packetId, log, closed, forwarded>>

\* rawPacketRecv returns 0: recv fails, or the chunk fills the whole buffer.
ReceiveFails(s) ==
  /\ "recv" \in Faults
  /\ pc[s] = "recv"
  /\ Goto(s, "cleanup")
  /\ UNCHANGED <<threadVars, cancel, mutex, packetId, packet, log, streamVars>>

\* Mutant: the server listener returns without going through its cleanup.
EndsWithoutCleanup(s) ==
  /\ pc[s] = "recv"
  /\ closed[s]
  /\ Goto(s, IF s = "client" THEN "hangup" ELSE "done")
  /\ UNCHANGED <<threadVars, cancel, mutex, packetId, packet, log, streamVars>>

\* rawPacketRecv returns -1.  Only the client listener cancels here as well.
EndOfStream(s) ==
  /\ pc[s] = "recv"
  /\ closed[s]
  /\ Goto(s, IF s = "client" THEN "hangup" ELSE "cleanup")
  /\ UNCHANGED <<threadVars, cancel, mutex, packetId, packet, log, streamVars>>

\* Mutant: the wait on the mutex does not wait.
LockWithoutWaiting(s) ==
  /\ pc[s] = "lock"
  /\ mutex' = s
  /\ Goto(s, "load")
  /\ UNCHANGED <<threadVars, cancel, packetId, packet, log, streamVars>>

\* A mutex whose owner died is granted to the next waiter (WAIT_ABANDONED).
Lock(s) ==
  /\ pc[s] = "lock"
  /\ mutex \in {"none"} \cup {d \in Sides : pc[d] = "cancelled"}
  /\ mutex' = s
  /\ Goto(s, "load")
  /\ UNCHANGED <<threadVars, cancel, packetId, packet, log, streamVars>>

\* Mutant: the packet keeps the id rawPacketRecv gave it.
LoadNoId(s) ==
  /\ pc[s] = "load"
  /\ Goto(s, "store")
  /\ UNCHANGED <<threadVars, cancel, mutex, packetId, packet, log, streamVars>>

\* packet.id = params->packetId++ reads the counter, then writes it.
LoadId(s) ==
  /\ pc[s] = "load"
  /\ packet' = [packet EXCEPT ![s].id = packetId]
  /\ Goto(s, "store")
  /\ UNCHANGED <<threadVars, cancel, mutex, packetId, log, streamVars>>

StoreId(s) ==
  /\ pc[s] = "store"
  /\ packetId' = packet[s].id + 1
  /\ Goto(s, "unlock")
  /\ UNCHANGED <<threadVars, cancel, mutex, packet, log, streamVars>>

Unlock(s) ==
  /\ pc[s] = "unlock"
  /\ mutex' = "none"
  /\ Goto(s, "write")
  /\ UNCHANGED <<threadVars, cancel, packetId, packet, log, streamVars>>

\* Of a record that is not whole only a first part of the bytes reached the file,
\* possibly none: what a file holds is what its records say, in their order.
Record(s, whole) == [id |-> packet[s].id, data |-> packet[s].data, whole |-> whole]
AppendRecord(s, whole) == log' = [log EXCEPT ![s] = Append(@, Record(s, whole))]

\* rawPacketWriteToFile returns 1.  It does not look at what fclose returns,
\* so a record whose buffered bytes cannot be flushed counts as written.
Write(s) ==
  /\ pc[s] = "write"
  /\ \E whole \in BOOLEAN :
       /\ whole \/ "flush" \in Faults
       /\ AppendRecord(s, whole)
  /\ Goto(s, "plugins")
  /\ UNCHANGED <<threadVars, cancel, mutex, packetId, packet, streamVars>>

\* Mutants: after a failed write the listener forwards the packet all the same,
\* drops it and goes on with the next one, or writes it again.
WriteFailureIsIgnored(s) ==
  /\ "write" \in Faults
  /\ pc[s] = "write"
  /\ AppendRecord(s, FALSE)
  /\ Goto(s, "plugins")
  /\ UNCHANGED <<threadVars, cancel, mutex, packetId, packet, streamVars>>
WriteFailureSkipsPacket(s) ==
  /\ "write" \in Faults
  /\ pc[s] = "write"
  /\ Goto(s, "recv")
  /\ UNCHANGED <<threadVars, cancel, mutex, packetId, packet, log, streamVars>>
WriteFailureIsRetried(s) ==
  /\ "write" \in Faults
  /\ pc[s] = "write"
  /\ Len(log[s]) <= MaxChunks
  /\ AppendRecord(s, FALSE)
  /\ UNCHANGED <<threadVars, pc, cancel, mutex, packetId, packet, streamVars>>

\* One of its fwrite calls fails.
WriteFails(s) ==
  /\ "write" \in Faults
  /\ pc[s] = "write"
  /\ AppendRecord(s, FALSE)
  /\ Goto(s, "cleanup")
  /\ UNCHANGED <<threadVars, cancel, mutex, packetId, packet, streamVars>>

\* The loop over the plugins, all of which let the packet through.
CallPlugins(s) ==
  /\ pc[s] = "plugins"
  /\ \E p \in Rewrites[packet[s].data] :
       packet' = [packet EXCEPT ![s].data = p]
  /\ Goto(s, "send")
  /\ UNCHANGED <<threadVars, cancel, mutex, packetId, log, streamVars>>

\* Mutant: a packet a plugin refuses is not sent, and the listener goes on.
PluginFailureSkipsPacket(s) ==
  /\ "plugins" \in Faults
  /\ pc[s] = "plugins"
  /\ Goto(s, "recv")
  /\ UNCHANGED <<threadVars, cancel, mutex, packetId, packet, log, streamVars>>

\* One of the plugins returns 0.
PluginFails(s) ==
  /\ "plugins" \in Faults
  /\ pc[s] = "plugins"
  /\ Goto(s, "cleanup")
  /\ UNCHANGED <<threadVars, cancel, mutex, packetId, packet, log, streamVars>>

\* rawPacketSend, rawPacketFree, and rawPacketInit of the next round.
Send(s) ==
  /\ pc[s] = "send"
  /\ forwarded' = [forwarded EXCEPT ![s] = Append(@, packet[s].data)]
  /\ packet' = [packet EXCEPT ![s] = Blank]
  /\ Goto(s, "recv")
  /\ UNCHANGED <<threadVars, cancel, mutex, packetId, log, closed, received>>

\* Mutant: a packet that cannot be sent is dropped, and the listener goes on.
SendFailureSkipsPacket(s) ==
  /\ "send" \in Faults
  /\ pc[s] = "send"
  /\ Goto(s, "recv")
  /\ UNCHANGED <<threadVars, cancel, mutex, packetId, packet, log, streamVars>>

SendFails(s) ==
  /\ "send" \in Faults
  /\ pc[s] = "send"
  /\ Goto(s, "cleanup")
  /\ UNCHANGED <<threadVars, cancel, mutex, packetId, packet, log, streamVars>>

-----------------------------------------------------------------------------
(* Stopping and being stopped.                                             *)

\* pthread_cancel with a handle that is still zero, or of a thread that has
\* ended, does nothing.
RequestCancel(s) ==
  cancel' = [cancel EXCEPT ![s] = @ \/ (handle[s] /\ pc[s] \notin Ended)]

\* Mutant: the end-of-stream branch does not leave the loop.
HangupAndStay(s) ==
  /\ pc[s] = "hangup"
  /\ RequestCancel(Other(s))
  /\ Goto(s, "recv")
  /\ UNCHANGED <<threadVars, mutex, packetId, packet, log, streamVars>>

\* The pthread_cancel of the client listener's end-of-stream branch.
Hangup(s) ==
  /\ pc[s] = "hangup"
  /\ RequestCancel(Other(s))
  /\ Goto(s, "cleanup")
  /\ UNCHANGED <<threadVars, mutex, packetId, packet, log, streamVars>>

\* Mutant: the cleanup does not cancel the other listener.
CleanupCancelsNobody(s) ==
  /\ pc[s] = "cleanup"
  /\ Goto(s, "done")
  /\ UNCHANGED <<threadVars, cancel, mutex, packetId, packet, log, streamVars>>

\* The cleanup label: cancel the other listener and return.
Cleanup(s) ==
  /\ pc[s] = "cleanup"
  /\ RequestCancel(Other(s))
  /\ Goto(s, "done")
  /\ UNCHANGED <<threadVars, mutex, packetId, packet, log, streamVars>>

\* An asynchronous cancellation takes effect anywhere: in the middle of a
\* write it may cut the record, in the middle of a send the chunk may be gone.
Die(s) ==
  /\ cancel[s]
  /\ pc[s] \notin Ended
  /\ Goto(s, "cancelled")
  /\ \/ /\ pc[s] = "write"
        /\ \E whole \in BOOLEAN : AppendRecord(s, whole)
        /\ UNCHANGED forwarded
     \/ /\ pc[s] = "send"
        /\ forwarded' = [forwarded EXCEPT ![s] = Append(@, packet[s].data)]
        /\ UNCHANGED log
     \/ UNCHANGED <<log, forwarded>>
  /\ UNCHANGED <<threadVars, cancel, mutex, packetId, packet, closed, received>>

\* The game client or the server closes its connection.
PeerCloses(s) ==
  /\ ~closed[s]
  /\ closed' = [closed EXCEPT ![s] = TRUE]
  /\ UNCHANGED <<threadVars, pc, cancel, mutex, packetId, packet, log,
                 received, forwarded>>

-----------------------------------------------------------------------------

\* The steps of a listener that wait for nothing but the other listener.
Proceed(s) ==
  \/ EndOfStream(s) \/ Lock(s) \/ LoadId(s) \/ StoreId(s) \/ Unlock(s)
  \/ Hangup(s) \/ Cleanup(s)

\* What a listener does with a chunk.  None of it has to end: the file is opened
\* in a loop until that succeeds (RawPacket.c:99-102), a plugin need not return,
\* and send blocks while the peer does not read (RawPacket.c:81).
Handle(s) ==
  \/ Write(s) \/ WriteFails(s) \/ CallPlugins(s) \/ PluginFails(s)
  \/ Send(s) \/ SendFails(s)

Handling(s) == pc[s] \in {"write", "plugins", "send"}

Step(s) == Proceed(s) \/ Handle(s)

Main == \E s \in Sides : Create(s) \/ Join(s)

Returned == mainPc = "returned" /\ UNCHANGED vars

Next ==
  \/ Main
  \/ \E s \in Sides : \/ Receive(s) \/ ReceiveFails(s)
                      \/ Step(s) \/ Die(s) \/ PeerCloses(s)
  \/ Returned

Spec == Init /\ [][Next]_vars

\* The operating system runs every thread and delivers cancellations; it makes
\* no peer send, read or close, no plugin return and no file open.
Fairness ==
  /\ WF_vars(Main)
  /\ \A s \in Sides : WF_vars(Proceed(s)) /\ WF_vars(Die(s))

FairSpec == Spec /\ Fairness

-----------------------------------------------------------------------------
(* Correctness.                                                            *)

TypeOK ==
  /\ mainPc \in {"createClient", "createServer", "joinClient", "joinServer",
                 "returned"}
  /\ pc \in [Sides -> Labels]
  /\ handle \in [Sides -> BOOLEAN]
  /\ cancel \in [Sides -> BOOLEAN]
  /\ mutex \in Sides \cup {"none"}
  /\ packetId \in Nat
  /\ packet \in [Sides -> [id : Nat \cup {-1}, data : Payload \cup {Empty}]]
  /\ log \in [Sides -> Seq([id : Nat, data : Payload, whole : BOOLEAN])]
  /\ closed \in [Sides -> BOOLEAN]
  /\ received \in [Sides -> Seq(Payload)]
  /\ forwarded \in [Sides -> Seq(Payload)]

\* The ids order the whole capture: they ascend in each file and no id occurs
\* in both, whatever the interleaving of the two listeners and the deaths in
\* the middle of packet.id = params->packetId++ (Floana.c:190-192, 263-265).
IdsOrderTheCapture ==
  /\ \A s \in Sides : \A i, j \in DOMAIN log[s] :
       i < j => log[s][i].id < log[s][j].id
  /\ \A s, t \in Sides : s # t =>
       \A i \in DOMAIN log[s], j \in DOMAIN log[t] : log[s][i].id # log[t][j].id

\* A side has drawn n and not begun its record: the chunk is the last it received.
Unrecorded(s, n) ==
  /\ packet[s].id = n
  /\ pc[s] \in {"unlock", "write"} \cup Ended
  /\ Len(received[s]) = Len(log[s]) + 1
  /\ \A i \in DOMAIN log[s] : log[s][i].id < n

\* A record can be cut only as the last one of a listener that is on its way
\* out, unless closing the file may fail unnoticed.
MayBeCut(s, i) ==
  \/ "flush" \in Faults
  \/ i = Len(log[s]) /\ pc[s] \in {"cleanup"} \cup Ended

\* An id drawn from the counter is in a capture file with its whole record, or
\* on its way to one, or went with the end of a listener, which records nothing
\* after it: a capture has no hole that a later record of the same side follows,
\* except where fclose lost the record unnoticed (RawPacket.c:126-131).
GapsAreFinal ==
  \A n \in 0 .. packetId - 1 :
    \/ \E s \in Sides : \E i \in DOMAIN log[s] :
         log[s][i].id = n /\ (log[s][i].whole \/ MayBeCut(s, i))
    \/ \E s \in Sides : Unrecorded(s, n)

\* The capture holds the chunks as they were received, before the plugins
\* changed them, in the order they came (the write of Floana.c:195 precedes the
\* callbacks of 201-209): each of them entirely but the last one of a side, or
\* one that fclose lost unnoticed.
CaptureIsUnmodified ==
  \A s \in Sides :
    /\ Len(log[s]) \in {Len(received[s]) - 1, Len(received[s])}
    /\ \A i \in DOMAIN log[s] :
         /\ log[s][i].data = received[s][i]
         /\ log[s][i].whole \/ i = Len(received[s]) \/ "flush" \in Faults

\* Nothing reaches the other peer before its record is in the capture file,
\* entirely unless closing the file may fail unnoticed (RawPacket.c:125-129).
LoggedBeforeForwarded ==
  \A s \in Sides :
    /\ Len(forwarded[s]) <= Len(log[s])
    /\ \A i \in DOMAIN forwarded[s] : log[s][i].whole \/ "flush" \in Faults

\* Only the end of a listener cuts a record, so a cut record is the last of
\* its file, unless closing the file may fail unnoticed.
CutRecordIsLast ==
  \A s \in Sides : \A i \in DOMAIN log[s] : log[s][i].whole \/ MayBeCut(s, i)

\* A cancelled listener may take the mutex with it (Floana.c:190-192 under
\* asynchronous cancellation), but the other one never needs it again: it is
\* on its way out.
NobodyNeedsADeadOwnersMutex ==
  \A s \in Sides :
    mutex = s /\ pc[s] = "cancelled" => pc[Other(s)] \in {"cleanup"} \cup Ended

\* startProxy returns, and its stack with the ProxyParameters on it goes away,
\* only when no listener uses them any more (Floana.c:444-459).
ParamsOutliveTheListeners ==
  mainPc = "returned" => \A s \in Sides : pc[s] \in Ended

\* The client listener is gone and nobody will stop the server listener.
Orphaned ==
  /\ pc["client"] = "done"
  /\ ~cancel["server"]
  /\ pc["server"] \notin {"cleanup"} \cup Ended

\* The cancellation of the other listener can be lost only by the client
\* listener, and only while startProxy has not created the server listener
\* (Floana.c:454-455): afterwards no end of a listener leaves the other alone.
OrphansComeFromStartup ==
  [][~Orphaned /\ Orphaned' => pc["server"] = "unborn"]_vars

\* The direction of each listener is a pipe.
PipeOfClient ==
  INSTANCE Pipe WITH taken <- received["client"], given <- forwarded["client"],
                     open <- pc["client"] \notin Ended
PipeOfServer ==
  INSTANCE Pipe WITH taken <- received["server"], given <- forwarded["server"],
                     open <- pc["server"] \notin Ended

\* What each peer is sent is what the other one sent, chunk by chunk as the
\* plugins rewrote it, in order, without loss or duplication up to the end.
RelaysClient == PipeOfClient!PipeSpec
RelaysServer == PipeOfServer!PipeSpec

\* When a listener has run to its end, by an error or a disconnection, the
\* other one is taken down and startProxy returns, except for the orphan of
\* the start-up window (Floana.c:220-222, 293-295, 456-459).
OneEndStopsTheProxy ==
  \A s \in Sides : pc[s] = "done" ~> (mainPc = "returned" \/ Orphaned)

\* When the server disconnects the proxy comes down, orphan or not, unless the
\* server listener stays for ever with a chunk it received before: while it
\* writes, runs plugins or sends, it does not see the end of its stream
\* (Floana.c:244-254, 293-295).
ServerHangupStopsTheProxy ==
  []<>~Handling("server") => (closed["server"] ~> mainPc = "returned")

=============================================================================
