---------------------------- MODULE FloanaSession ---------------------------
(***************************************************************************)
(* The Floana processes of a capture session, from main to exit            *)
(* (src/src/Floana-Proxy/Floana.c).  The user starts one process per proxy *)
(* type; they know of each other only through the file "session_id", the   *)
(* metadata file of the session, the ports they bind and the list of       *)
(* running processes.  The relaying itself is the module Relay; here it is *)
(* one stay at "relay".                                                    *)
(***************************************************************************)
EXTENDS Integers, FiniteSets

CONSTANTS
  Procs,    \* bound: the processes started
  Action,   \* process -> "new" or "continue" (argv[5])
  Type,     \* process -> its proxy type (argv[4])
  Types,    \* the proxy types
  Gui,      \* the processes started with GUI.dll
  Faulty,   \* those whose command line may be wrong, or a plugin fail to load
  Junk,     \* what the uninitialised sessionId happens to hold
  Kills     \* whether the user may kill a process

ASSUME SessionAssumption ==
  /\ IsFiniteSet(Procs)
  /\ Action \in [Procs -> {"new", "continue"}]
  /\ Type \in [Procs -> Types]
  /\ Gui \subseteq Procs
  /\ Faulty \subseteq Procs
  /\ Junk \in Nat
  /\ Kills \in BOOLEAN

Sessions == -1 .. Junk + Cardinality(Procs)
Nobody == "nobody"

VARIABLES
  pc,        \* where each process is
  idState,   \* the file session_id: "absent", "empty" or holding a "number"
  idNumber,  \* the number it holds
  drawn,     \* sessionId of parserCommandLine, 0 outside it
  session,   \* sessionId of main, or -2 as long as it has none
  metadata,  \* session -> its metadata.bin
  scratch,   \* the RawPacketMetadata of updateMetadata: the types it names
  guiPort,   \* the process that has bound port 8088
  proxyPort, \* type -> the process that has bound the port of this type
  newest,          \* history: the session begun last
  updated,         \* history: the processes that have updated the metadata
  idDisturbed,     \* history: two processes were at session_id, or one died creating it
  metaDisturbed    \* history: the same of the metadata of a session

idVars == <<idState, idNumber, drawn, session, newest, idDisturbed>>
metaVars == <<metadata, scratch, updated, metaDisturbed>>
portVars == <<guiPort, proxyPort>>
vars == <<pc, idVars, metaVars, portVars>>

Parsing == {"openId", "createId", "fillId", "rewriteId"}
Updating == {"readMeta", "truncateMeta", "writeMeta"}
Labels == {"off", "bindGui", "acceptGui", "listen", "acceptClient", "relay",
           "unload", "waitOthers", "exitPlugins", "gone"} \cup Parsing \cup Updating

Running == {p \in Procs : pc[p] \notin {"off", "gone"}}

Init ==
  /\ pc = [p \in Procs |-> "off"]
  /\ idState = "absent"
  /\ idNumber = 0
  /\ drawn = [p \in Procs |-> 0]
  /\ session = [p \in Procs |-> -2]
  /\ metadata = [n \in Sessions |-> [state |-> "absent", has |-> {}]]
  /\ scratch = [p \in Procs |-> {}]
  /\ guiPort = Nobody
  /\ proxyPort = [t \in Types |-> Nobody]
  /\ newest = -1
  /\ updated = {}
  /\ idDisturbed = FALSE
  /\ metaDisturbed = [n \in Sessions |-> FALSE]

Goto(p, label) == pc' = [pc EXCEPT ![p] = label]

\* The ports of a process go with it.
Release(p) ==
  /\ guiPort' = IF guiPort = p THEN Nobody ELSE guiPort
  /\ proxyPort' = [t \in Types |-> IF proxyPort[t] = p THEN Nobody ELSE proxyPort[t]]

-----------------------------------------------------------------------------
(* parserCommandLine.                                                      *)

\* The user starts a process, maybe while another one is still at its command
\* line.
Launch(p) ==
  /\ pc[p] = "off"
  /\ Goto(p, "openId")
  /\ idDisturbed' = (idDisturbed \/ \E q \in Procs : pc[q] \in Parsing)
  /\ UNCHANGED <<idState, idNumber, drawn, session, newest, metaVars, portVars>>

\* fopen "rb+", and fscanf: of an empty file it leaves sessionId uninitialised.
OpenId(p) ==
  /\ pc[p] = "openId"
  /\ IF idState = "absent"
       THEN Goto(p, "createId") /\ UNCHANGED drawn
       ELSE /\ Goto(p, "rewriteId")
            /\ drawn' = [drawn EXCEPT ![p] =
                           IF idState = "empty" THEN Junk ELSE idNumber]
  /\ UNCHANGED <<idState, idNumber, session, newest, idDisturbed, metaVars, portVars>>

\* fopen "wb+" truncates; the "0" that follows stays in the buffer.
CreateId(p) ==
  /\ pc[p] = "createId"
  /\ idState' = "empty"
  /\ drawn' = [drawn EXCEPT ![p] = 0]
  /\ Goto(p, "fillId")
  /\ UNCHANGED <<idNumber, session, newest, idDisturbed, metaVars, portVars>>

AfterParsing(p) == Goto(p, IF p \in Gui THEN "bindGui" ELSE "listen")

\* Mutants: a new session does not count, counts twice; continue takes the id
\* of the next session.
NewDoesNotCount(p) ==
  /\ pc[p] \in {"fillId", "rewriteId"}
  /\ IF pc[p] = "fillId"
       THEN idState' = "number" /\ idNumber' = 0
       ELSE UNCHANGED <<idState, idNumber>>
  /\ session' = [session EXCEPT ![p] =
                   IF Action[p] = "new" THEN drawn[p] ELSE drawn[p] - 1]
  /\ newest' = IF Action[p] = "new" THEN drawn[p] ELSE newest
  /\ AfterParsing(p)
  /\ drawn' = [drawn EXCEPT ![p] = 0]
  /\ UNCHANGED <<idDisturbed, metaVars, portVars>>
NewCountsTwice(p) ==
  /\ pc[p] \in {"fillId", "rewriteId"}
  /\ \/ Action[p] = "new" /\ idState' = "number" /\ idNumber' = drawn[p] + 2
     \/ Action[p] = "continue" /\ pc[p] = "fillId" /\ idState' = "number" /\ idNumber' = 0
     \/ Action[p] = "continue" /\ pc[p] = "rewriteId" /\ UNCHANGED <<idState, idNumber>>
  /\ session' = [session EXCEPT ![p] =
                   IF Action[p] = "new" THEN drawn[p] ELSE drawn[p] - 1]
  /\ newest' = IF Action[p] = "new" THEN drawn[p] ELSE newest
  /\ AfterParsing(p)
  /\ drawn' = [drawn EXCEPT ![p] = 0]
  /\ UNCHANGED <<idDisturbed, metaVars, portVars>>
ContinueKeepsTheId(p) ==
  /\ pc[p] \in {"fillId", "rewriteId"}
  /\ \/ Action[p] = "new" /\ idState' = "number" /\ idNumber' = drawn[p] + 1
     \/ Action[p] = "continue" /\ pc[p] = "fillId" /\ idState' = "number" /\ idNumber' = 0
     \/ Action[p] = "continue" /\ pc[p] = "rewriteId" /\ UNCHANGED <<idState, idNumber>>
  /\ session' = [session EXCEPT ![p] = drawn[p]]
  /\ newest' = IF Action[p] = "new" THEN drawn[p] ELSE newest
  /\ AfterParsing(p)
  /\ drawn' = [drawn EXCEPT ![p] = 0]
  /\ UNCHANGED <<idDisturbed, metaVars, portVars>>

\* "new" takes the number and writes the next one over it, "continue" takes the
\* one before; fclose puts what was printed into the file.
RewriteId(p) ==
  /\ pc[p] \in {"fillId", "rewriteId"}
  /\ \/ Action[p] = "new" /\ idState' = "number" /\ idNumber' = drawn[p] + 1
     \/ Action[p] = "continue" /\ pc[p] = "fillId" /\ idState' = "number" /\ idNumber' = 0
     \/ Action[p] = "continue" /\ pc[p] = "rewriteId" /\ UNCHANGED <<idState, idNumber>>
  /\ session' = [session EXCEPT ![p] =
                   IF Action[p] = "new" THEN drawn[p] ELSE drawn[p] - 1]
  /\ newest' = IF Action[p] = "new" THEN drawn[p] ELSE newest
  /\ AfterParsing(p)
  /\ drawn' = [drawn EXCEPT ![p] = 0]
  /\ UNCHANGED <<idDisturbed, metaVars, portVars>>

\* parserCommandLine has failed: main goes to its cleanup with plugins it has
\* never set.  Unloading them is a crash, unless their number happens not to be
\* positive; then main goes on as always, with the ports it has.
Abandon(p, waits) ==
  \/ Goto(p, "gone") /\ Release(p)
  \/ Goto(p, IF waits THEN "waitOthers" ELSE "exitPlugins") /\ UNCHANGED portVars

\* The proxy type is not one.
RefuseType(p) ==
  /\ p \in Faulty
  /\ pc[p] = "openId"
  /\ Abandon(p, Action[p] = "new")
  /\ UNCHANGED <<idVars, metaVars>>

\* argv[5] is neither "new" nor "continue": the file is closed, so that the "0"
\* of a new one gets there, and main does not wait.
RefuseAction(p) ==
  /\ p \in Faulty
  /\ pc[p] \in {"fillId", "rewriteId"}
  /\ IF pc[p] = "fillId"
       THEN idState' = "number" /\ idNumber' = 0
       ELSE UNCHANGED <<idState, idNumber>>
  /\ Abandon(p, FALSE)
  /\ drawn' = [drawn EXCEPT ![p] = 0]
  /\ UNCHANGED <<session, newest, idDisturbed, metaVars>>

\* main asks for five arguments and needs six: strcmp crashes on argv[5].
MissAction(p) ==
  /\ p \in Faulty
  /\ pc[p] \in {"fillId", "rewriteId"}
  /\ Goto(p, "gone")
  /\ Release(p)
  /\ idDisturbed' = (idDisturbed \/ pc[p] = "fillId")
  /\ UNCHANGED <<idState, idNumber, drawn, session, newest, metaVars>>

\* pluginLoad fails for a plugin before, after, or for GUI.dll itself.  The id
\* of the session has been used up, and port 8088 stays bound.
LoadingFails(p) ==
  /\ p \in Faulty
  /\ pc[p] \in {"bindGui", "acceptGui", "listen"}
  /\ Abandon(p, Action[p] = "new")
  /\ UNCHANGED <<idVars, metaVars>>

\* waitForClient of GUI.dll: the loop around bind, then accept, which returns
\* when somebody opens the page in a browser.
BindGui(p) ==
  /\ pc[p] = "bindGui"
  /\ guiPort = Nobody
  /\ guiPort' = p
  /\ Goto(p, "acceptGui")
  /\ UNCHANGED <<idVars, metaVars, proxyPort>>

AcceptGui(p) ==
  /\ pc[p] = "acceptGui"
  /\ Goto(p, "listen")
  /\ UNCHANGED <<idVars, metaVars, portVars>>

-----------------------------------------------------------------------------
(* startProxy.                                                             *)

\* serverListen gives up when the port is taken.
Listen(p) ==
  /\ pc[p] = "listen"
  /\ IF proxyPort[Type[p]] = Nobody
       THEN /\ proxyPort' = [proxyPort EXCEPT ![Type[p]] = p]
            /\ Goto(p, "acceptClient")
       ELSE Goto(p, "unload") /\ UNCHANGED proxyPort
  /\ UNCHANGED <<idVars, metaVars, guiPort>>

\* serverAccept returns when the game client connects; clientConnect may fail.
AcceptClient(p) ==
  /\ pc[p] = "acceptClient"
  /\ \/ /\ Goto(p, "readMeta")
        /\ metaDisturbed' = [metaDisturbed EXCEPT ![session[p]] =
             @ \/ \E q \in Procs : pc[q] \in Updating /\ session[q] = session[p]]
     \/ Goto(p, "unload") /\ UNCHANGED metaDisturbed
  /\ UNCHANGED <<idVars, metadata, scratch, updated, portVars>>

\* Mutant: the metadata begins anew with every process.
IgnoreMetadata(p) ==
  /\ pc[p] = "readMeta"
  /\ scratch' = [scratch EXCEPT ![p] = {}]
  /\ Goto(p, "truncateMeta")
  /\ UNCHANGED <<idVars, metadata, updated, metaDisturbed, portVars>>

\* updateMetadata: what is read of a file that is being written is not looked
\* at, and the rest of the structure is whatever was on the stack.
ReadMetadata(p) ==
  /\ pc[p] = "readMeta"
  /\ \E has \in SUBSET Types :
       /\ metadata[session[p]].state # "torn" => has = metadata[session[p]].has
       /\ scratch' = [scratch EXCEPT ![p] = has]
  /\ Goto(p, "truncateMeta")
  /\ UNCHANGED <<idVars, metadata, updated, metaDisturbed, portVars>>

TruncateMetadata(p) ==
  /\ pc[p] = "truncateMeta"
  /\ metadata' = [metadata EXCEPT ![session[p]] = [state |-> "torn", has |-> {}]]
  /\ scratch' = [scratch EXCEPT ![p] = @ \cup {Type[p]}]
  /\ Goto(p, "writeMeta")
  /\ UNCHANGED <<idVars, updated, metaDisturbed, portVars>>

WriteMetadata(p) ==
  /\ pc[p] = "writeMeta"
  /\ metadata' = [metadata EXCEPT ![session[p]] =
                    [state |-> "whole", has |-> scratch[p]]]
  /\ updated' = updated \cup {p}
  /\ scratch' = [scratch EXCEPT ![p] = {}]
  /\ Goto(p, "relay")
  /\ UNCHANGED <<idVars, metaDisturbed, portVars>>

\* The listeners have ended and startProxy returns.
EndRelay(p) ==
  /\ pc[p] = "relay"
  /\ Goto(p, "unload")
  /\ UNCHANGED <<idVars, metaVars, portVars>>

-----------------------------------------------------------------------------
(* The end of main.                                                        *)

\* pluginUnload of GUI.dll closes the connection to the page, and no port.
Unload(p) ==
  /\ pc[p] = "unload"
  /\ Goto(p, IF Action[p] = "new" THEN "waitOthers" ELSE "exitPlugins")
  /\ UNCHANGED <<idVars, metaVars, portVars>>

\* Mutant: the process does not count itself.
WaitForZero(p) ==
  /\ pc[p] = "waitOthers"
  /\ Cardinality(Running) = 0
  /\ Goto(p, "exitPlugins")
  /\ UNCHANGED <<idVars, metaVars, portVars>>

\* The loop around countProcessRunning, of a process started by the name the
\* list of processes has for it, "Floana.exe": by another name it counts none.
WaitForOthers(p) ==
  /\ pc[p] = "waitOthers"
  /\ Cardinality(Running) = 1
  /\ Goto(p, "exitPlugins")
  /\ UNCHANGED <<idVars, metaVars, portVars>>

Exit(p) ==
  /\ pc[p] = "exitPlugins"
  /\ Goto(p, "gone")
  /\ Release(p)
  /\ UNCHANGED <<idVars, metaVars>>

Kill(p) ==
  /\ Kills
  /\ p \in Running
  /\ Goto(p, "gone")
  /\ Release(p)
  /\ idDisturbed' = (idDisturbed \/ pc[p] = "fillId")
  /\ metaDisturbed' = [n \in Sessions |->
                         metaDisturbed[n] \/ (pc[p] \in Updating /\ session[p] = n)]
  /\ UNCHANGED <<idState, idNumber, drawn, session, newest, metadata, scratch, updated>>

\* Bind and wait loops sleep, and a session may be over.
Sleep ==
  /\ \A p \in Procs : pc[p] \in {"bindGui", "waitOthers", "gone"}
  /\ UNCHANGED vars

Step(p) ==
  \/ OpenId(p) \/ CreateId(p) \/ RewriteId(p) \/ BindGui(p) \/ AcceptGui(p)
  \/ Listen(p) \/ AcceptClient(p)
  \/ ReadMetadata(p) \/ TruncateMetadata(p) \/ WriteMetadata(p) \/ EndRelay(p)
  \/ Unload(p) \/ WaitForOthers(p) \/ Exit(p)

Fail(p) == RefuseType(p) \/ RefuseAction(p) \/ MissAction(p) \/ LoadingFails(p)

Next == (\E p \in Procs : Launch(p) \/ Step(p) \/ Fail(p) \/ Kill(p)) \/ Sleep

Spec == Init /\ [][Next]_vars

\* The processes are scheduled, and the user goes through with what is started:
\* opens the page, connects the game client, ends the game.
FairSpec == Spec /\ \A p \in Procs : WF_vars(Step(p))

-----------------------------------------------------------------------------
(* Correctness.                                                            *)

TypeOK ==
  /\ pc \in [Procs -> Labels]
  /\ idState \in {"absent", "empty", "number"}
  /\ idNumber \in Sessions
  /\ drawn \in [Procs -> Sessions]
  /\ session \in [Procs -> Sessions \cup {-2}]
  /\ metadata \in [Sessions -> [state : {"absent", "torn", "whole"},
                                has : SUBSET Types]]
  /\ scratch \in [Procs -> SUBSET Types]
  /\ guiPort \in Procs \cup {Nobody}
  /\ proxyPort \in [Types -> Procs \cup {Nobody}]
  /\ newest \in Sessions
  /\ updated \subseteq Procs
  /\ idDisturbed \in BOOLEAN
  /\ metaDisturbed \in [Sessions -> BOOLEAN]

\* No two captures share a folder by accident: sessions begun with "new" have
\* different ids, as long as no two command lines were parsed at the same time
\* and none died with session_id empty (Floana.c:484-515).
SessionsAreDistinct ==
  ~idDisturbed =>
    \A p, q \in Procs :
      /\ p # q
      /\ Action[p] = "new" /\ Action[q] = "new"
      /\ session[p] # -2
      => session[p] # session[q]

\* "continue" joins the session that was begun last, whatever became of the
\* process that began it, under the same condition (Floana.c:502-507).
ContinueJoinsTheNewest ==
  [][\A p \in Procs :
       /\ Action[p] = "continue"
       /\ session'[p] # session[p]
       /\ ~idDisturbed
       => session'[p] = newest]_vars

\* Updates of the metadata of a session that neither overlap nor are cut short
\* add up: the file names exactly the types that have a capture (Floana.c:352-393).
SeparateUpdatesAddUp ==
  \A n \in Sessions :
    /\ ~metaDisturbed[n]
    /\ \A p \in Procs : session[p] = n => pc[p] \notin Updating
    => metadata[n].has = {Type[p] : p \in {q \in updated : session[q] = n}}

\* A process waits for others that do not leave: another one that waits as well,
\* or one in the bind loop for port 8088, which a waiting one keeps.
WaitsInVain(p) ==
  /\ pc[p] = "waitOthers"
  /\ \E q \in Procs \ {p} :
       \/ pc[q] = "waitOthers"
       \/ pc[q] = "bindGui" /\ guiPort = p

\* Every process that is through with its proxy, or whose plugins could not be
\* loaded, leaves in the end, the one that began the session as well: "Don't
\* exit until all other proxies haven't finished" (Floana.c:600-612).  Nothing
\* keeps it but another process that began a session and waits, too, or one that
\* cannot start because the waiting one has port 8088.
FinishedProxiesLeave ==
  \A p \in Procs :
    pc[p] \in {"unload", "waitOthers"} ~> (pc[p] = "gone" \/ WaitsInVain(p))

\* A process that has been started gets as far as listening for the game client,
\* or leaves.
StartedProxiesListen ==
  \A p \in Procs : pc[p] = "openId" ~> pc[p] \in {"acceptClient", "gone"}

=============================================================================
