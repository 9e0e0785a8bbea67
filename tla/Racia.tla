-------------------------------- MODULE Racia -------------------------------
(***************************************************************************)
(* Racia, the bootstrapper (src/src/Racia-Bootstrapper/Racia.py).  It makes *)
(* the game's client ask it for the server list: it writes a list of its   *)
(* own, keeps a backup of the client's client.xml, replaces client.xml by  *)
(* one that names http://127.0.0.1/serverlist.xml, answers one request on  *)
(* port 80 and puts the backup back when the user is done.                 *)
(*                                                                         *)
(* The three files outlive the instances.  A file is opened, which empties *)
(* it, and then written: an instance that dies in between leaves it torn,  *)
(* and a torn file does not parse.  An instance may be started again, or   *)
(* twice at a time.                                                        *)
(***************************************************************************)
CONSTANTS
  Procs,    \* bound: the instances that may run at a time
  Nobody    \* the owner of port 80 when there is none

ASSUME RaciaAssumption == Nobody \notin Procs

VARIABLES
  client,      \* release/client.xml
  backup,      \* release/client.xml.backup
  list,        \* serverlist.xml, in the directory Racia is started from
  port,        \* the instance whose http_server listens on port 80
  pc,          \* where the main thread of each instance is
  url,         \* serverListUrl, as the instance has read it
  thread,      \* the thread of http_server: "none", "begun" or "done"
  caught,      \* whether the SystemExit of signal_handler reaches the try
  overlapped   \* history: two instances were under way with a list each

vars == <<client, backup, list, port, pc, url, thread, caught, overlapped>>
files == <<client, backup, list>>
locals == <<url, thread, caught>>

ClientFiles == {"original", "proxied", "torn"}
Urls == {"official", "local"}

\* The places up to the replacement of client.xml, those from the start of
\* the replacement to the end of the restoring, and the last one.
Before == {"read", "ask", "list", "listing", "backup", "backingUp"}
Replaced == {"replace", "replacing", "hook", "hooked", "wait",
             "handle", "handling", "restore", "restoring"}
PCs == {"off"} \cup Before \cup Replaced \cup {"restored"}

TypeOK ==
  /\ client \in ClientFiles
  /\ backup \in ClientFiles \cup {"absent"}
  /\ list \in {"absent", "torn", "whole"}
  /\ port \in Procs \cup {Nobody}
  /\ pc \in [Procs -> PCs]
  /\ url \in [Procs -> Urls]
  /\ thread \in [Procs -> {"none", "begun", "done"}]
  /\ caught \in [Procs -> BOOLEAN]
  /\ overlapped \in BOOLEAN

\* A freshly installed client.  The repository comes with a serverlist.xml.
Init ==
  /\ client = "original"
  /\ backup = "absent"
  /\ list \in {"absent", "whole"}
  /\ port = Nobody
  /\ pc = [p \in Procs |-> "off"]
  /\ url = [p \in Procs |-> "official"]
  /\ thread = [p \in Procs |-> "none"]
  /\ caught = [p \in Procs |-> FALSE]
  /\ overlapped = FALSE

-----------------------------------------------------------------------------
\* p goes from one place to the next.
At(p, places) == pc[p] \in places
Goes(p, place) == pc' = [pc EXCEPT ![p] = place]

\* The end of a process: its threads are daemons, its sockets are closed.
Gone(p, owner) ==
  /\ Goes(p, "off")
  /\ port' = IF owner = p THEN Nobody ELSE owner
  /\ thread' = [thread EXCEPT ![p] = "none"]
  /\ caught' = [caught EXCEPT ![p] = FALSE]
  /\ UNCHANGED url

\* client.xml is read and parsed.  A torn one raises an exception, and the
\* instance ends without having changed anything.
Start(p) ==
  /\ At(p, {"off"})
  /\ client # "torn"
  /\ Goes(p, "read")
  /\ url' = [url EXCEPT ![p] = IF client = "original" THEN "official"
                                                      ELSE "local"]
  /\ overlapped' = \/ overlapped
                    \/ /\ client = "original"
                       /\ \E q \in Procs \ {p} : pc[q] # "off"
  /\ UNCHANGED <<files, port, thread, caught>>

\* requests.get at the official address: the list, or an exception (Dies).
RetrieveOfficial(p) ==
  /\ At(p, {"read"})
  /\ url[p] = "official"
  /\ Goes(p, "ask")
  /\ UNCHANGED <<files, port, locals, overlapped>>

\* Mutant: without an answer, the list file of the last time is taken.
RetrieveLocalOrFile(p) ==
  /\ At(p, {"read"})
  /\ url[p] = "local"
  /\ list = "whole"
  /\ Goes(p, "ask")
  /\ UNCHANGED <<files, port, locals, overlapped>>

\* requests.get at Racia's own address: only another instance answers there,
\* with the file it has just now, and only once.  No answer, or a file that
\* does not parse, is an exception.
RetrieveLocal(p) ==
  /\ At(p, {"read"})
  /\ url[p] = "local"
  /\ UNCHANGED files
  /\ \/ /\ port # Nobody
        /\ list = "whole"
        /\ port' = Nobody
        /\ overlapped' = TRUE
        /\ Goes(p, "ask")
        /\ UNCHANGED locals
     \/ /\ port = Nobody \/ list # "whole"
        /\ Gone(p, Nobody)
        /\ UNCHANGED overlapped

\* The number of the server to listen to.  Anything else than a number, one
\* that is too high and srvCount, which the check lets through and which is
\* no index of barracks, end the instance (Dies).
Choose(p) ==
  /\ At(p, {"ask"})
  /\ Goes(p, "list")
  /\ UNCHANGED <<files, port, locals, overlapped>>

\* The list of the proxy is written for the http server.
OpenList(p) ==
  /\ At(p, {"list"})
  /\ list' = "torn"
  /\ Goes(p, "listing")
  /\ UNCHANGED <<client, backup, port, locals, overlapped>>

WriteList(p) ==
  /\ At(p, {"listing"})
  /\ list' = "whole"
  /\ Goes(p, "backup")
  /\ UNCHANGED <<client, backup, port, locals, overlapped>>

\* shutil.copy of client.xml to its backup.
OpenBackup(p) ==
  /\ At(p, {"backup"})
  /\ backup' = "torn"
  /\ Goes(p, "backingUp")
  /\ UNCHANGED <<client, list, port, locals, overlapped>>

CopyToBackup(p) ==
  /\ At(p, {"backingUp"})
  /\ backup' = client
  /\ Goes(p, "replace")
  /\ UNCHANGED <<client, list, port, locals, overlapped>>

\* The client.xml of the proxy is written.
OpenClient(p) ==
  /\ At(p, {"replace"})
  /\ client' = "torn"
  /\ Goes(p, "replacing")
  /\ UNCHANGED <<backup, list, port, locals, overlapped>>

WriteClient(p) ==
  /\ At(p, {"replacing"})
  /\ client' = "proxied"
  /\ Goes(p, "hook")
  /\ UNCHANGED <<backup, list, port, locals, overlapped>>

\* signal(SIGINT, signal_handler): from here on Ctrl+C restores the client.
Hook(p) ==
  /\ At(p, {"hook"})
  /\ Goes(p, "hooked")
  /\ UNCHANGED <<files, port, locals, overlapped>>

\* The try is entered, the thread of the http server begun.
BeginThread(p) ==
  /\ At(p, {"hooked"})
  /\ Goes(p, "wait")
  /\ thread' = [thread EXCEPT ![p] = "begun"]
  /\ UNCHANGED <<files, port, url, caught, overlapped>>

\* The thread binds port 80, or fails to and ends, alone.
Bind(p) ==
  /\ thread[p] = "begun"
  /\ thread' = [thread EXCEPT ![p] = "done"]
  /\ \/ port = Nobody /\ port' = p
     \/ UNCHANGED port
  /\ UNCHANGED <<files, pc, url, caught, overlapped>>

\* The client fetches the server list: handle_request answers one request.
AnswerClient ==
  /\ port # Nobody
  /\ port' = Nobody
  /\ UNCHANGED <<files, pc, locals, overlapped>>

\* The user presses Enter.
Enter(p) ==
  /\ At(p, {"wait"})
  /\ Goes(p, "restore")
  /\ UNCHANGED <<files, port, locals, overlapped>>

\* Mutant: signal comes before the backup has been made.
InterruptAtAnyTime(p) ==
  /\ ~At(p, {"off"})
  /\ Goes(p, "handle")
  /\ UNCHANGED <<files, port, locals, overlapped>>

\* Mutant: the handler does nothing when the client is being restored.
InterruptOnce(p) ==
  /\ At(p, {"hooked", "wait", "handling", "restoring"})
  /\ Goes(p, IF At(p, {"handling", "restoring"}) THEN "restored" ELSE "handle")
  /\ UNCHANGED <<files, port, locals, overlapped>>

\* The user presses Ctrl+C after signal: the main thread enters
\* signal_handler, from wherever it is, itself included.  At "hooked" it may be
\* before the try or in it, with the thread of the http server not begun.
Interrupt(p) ==
  /\ At(p, {"hooked", "wait", "handle", "handling",
            "restore", "restoring", "restored"})
  /\ Goes(p, "handle")
  /\ \E inTry \in {At(p, {"wait"}), At(p, {"hooked", "wait"})} :
       caught' = [caught EXCEPT
         ![p] = inTry \/ (At(p, {"handle", "handling"}) /\ caught[p])]
  /\ UNCHANGED <<files, port, url, thread, overlapped>>

\* shutil.copy of the backup to client.xml: in the handler, and at the end.
OpenRestore(p) ==
  /\ At(p, {"handle", "restore"})
  /\ client' = "torn"
  /\ Goes(p, IF At(p, {"handle"}) THEN "handling" ELSE "restoring")
  /\ UNCHANGED <<backup, list, port, locals, overlapped>>

\* The handler has restored the client and raises SystemExit, which the try
\* swallows, so that the end of the program restores it once more.
CopyInHandler(p) ==
  /\ At(p, {"handling"})
  /\ client' = backup
  /\ Goes(p, IF caught[p] THEN "restore" ELSE "restored")
  /\ UNCHANGED <<backup, list, port, locals, overlapped>>

CopyAtEnd(p) ==
  /\ At(p, {"restoring"})
  /\ client' = backup
  /\ Goes(p, "restored")
  /\ UNCHANGED <<backup, list, port, locals, overlapped>>

\* "Everything has been restored" has been printed; sys.exit.
Exit(p) ==
  /\ At(p, {"restored"})
  /\ Gone(p, port)
  /\ UNCHANGED <<files, overlapped>>

\* An instance ends where it is: it is killed, it raises an exception, its
\* input is refused, or Ctrl+C comes before signal.
Dies(p) ==
  /\ ~At(p, {"off"})
  /\ Gone(p, port)
  /\ UNCHANGED <<files, overlapped>>

Retrieve(p) == RetrieveOfficial(p) \/ RetrieveLocal(p)
Writes(p) ==
  \/ OpenList(p) \/ WriteList(p) \/ OpenBackup(p) \/ CopyToBackup(p)
  \/ OpenClient(p) \/ WriteClient(p)
Waits(p) == Hook(p) \/ BeginThread(p) \/ Bind(p) \/ Enter(p) \/ Interrupt(p)
Restores(p) ==
  OpenRestore(p) \/ CopyInHandler(p) \/ CopyAtEnd(p)

Next ==
  \/ \E p \in Procs :
       \/ Start(p) \/ Retrieve(p) \/ Choose(p)
       \/ Writes(p) \/ Waits(p) \/ Restores(p)
       \/ Exit(p) \/ Dies(p)
  \/ AnswerClient

Spec == Init /\ [][Next]_vars

-----------------------------------------------------------------------------
\* The client.xml the game came with is never lost: wherever the instances
\* are killed, client.xml or its backup is the original.  Nothing in the code
\* compares the two: it rests on the request to Racia's own address failing,
\* before the backup, when no instance answers it.  overlapped leaves out two
\* instances begun with the original client.xml, and one that got its list
\* from another; one begun by mistake while another waits may be there.
OriginalSurvives == ~overlapped => "original" \in {client, backup}

\* When an instance says that everything has been restored, it has been,
\* Ctrl+C in the middle of restoring included.
RestoredIsOriginal ==
  ~overlapped => \A p \in Procs : pc[p] = "restored" => client = "original"
=============================================================================
