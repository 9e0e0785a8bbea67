# A TLA+ model of Cyrenia

Cyrenia sits between the client of the game *Tree of Savior* and its servers.
`Racia.py` rewrites the client's configuration so that it connects to the local
machine; `Floana` is the proxy it then talks to, records every chunk of the two
byte streams and lets plugins look at it or change it; `Leticia` reads the
recorded chunks back and decrypts them.  This directory holds TLA+ modules of
that program, the TLC configurations that check them, and the TLAPS proofs about
them.  Paths below are relative to `src/src/`.

## 1. Inventory

| Part | Source | State it keeps | Operations |
|---|---|---|---|
| Relay of Floana | `Floana-Proxy/Floana.c` 150-296, 443-460; `common/RawPacket/RawPacket.c` | two listener threads, their handles, `packetId` and its mutex, a packet on each stack, `client.bin` and `server.bin` | receive, number, record, call the plugins, send, stop, cancel the other listener, create and join |
| Lifecycle of Floana | `Floana.c` 299-442, 463-622 | the session id file, `metadata.bin`, the plugins, the other Floana processes, the listening port | parse the command line (or refuse it), read and write the session id, update the metadata, load and unload plugins, wait for the other proxies |
| Leticia | `Leticia-Decryptor/Leticia.c`, `RawPacket.c` 134-266 | current file, offset in each file, last id read, the end-of-file flag | read metadata, find the file with the next id, read a record, decrypt and write packets |
| Packet processor | `common/PacketProcessor/PacketProcessor.c` | `packetQueue`, one packet cut by the end of a chunk | split a chunk into packets, decrypt or decompress, queue the rest, copy modifications back |
| Zone proxy plugin | `Plugins/ZoneProxy/ZoneProxy.c` | none of its own, starts the zone Floana | rewrite the zone address of `BC_START_GAMEOK` |
| GUI plugin | `Plugins/GUI/gui.c`, `GUI/client` | a listening socket on port 8088, a browser | wait for the browser, push packets to it |
| WebSocket library | `common/cwebsocket` | handshake fields | parse a handshake, build and parse frames |
| Crypto | `common/crypto/crypto.c` | the key schedule | unwrap a header, decrypt, encrypt |
| Packet types | `common/PacketType` | name and size tables | look up a name, a size |
| BbQueue | `common/BbQueue` | a doubly linked list | the list operations |
| Racia | `Racia-Bootstrapper/Racia.py` | `client.xml`, its backup, a one-request web server | back up, rewrite, serve the server list, restore |
| Not the program's own logic | `common/zlib`, `common/crypto/bf`, `common/dbg`, `GUI/client/jquery.js` | | wrappers, vendored Blowfish, logging, vendored JavaScript |

The two listeners of one Floana share memory: the counter, the two thread
handles, and, inside a plugin, whatever the plugin keeps in global variables
(`packetQueue`).  Several Floana processes share files: the session id, the
metadata and, when a proxy is started again in the same session, the capture
files.  Leticia shares the capture files and the metadata with Floana, without
any lock.  The GUI plugin of each Floana binds the same port.


### What is hard

* **Two threads, one counter, one mutex, asynchronous cancellation.**  A listener
  can be cancelled at any instruction: owning the mutex, between drawing an id
  and recording it, in the middle of the four writes of a record, before its
  sibling exists.
* **A capture spread over two files without an order of its own.**  Leticia
  restores the order from the ids alone, possibly while the proxy is writing.
* **Packets that do not end where chunks end.**  The processor keeps a fragment
  in a queue that both directions share without a lock, works on a copy, and
  uses offsets in the copy to write into the chunk.
* **Processes that coordinate by files and ports.**  The session id and the
  metadata are read, changed and written back without a lock; one process waits
  for the others to be gone, and one for a port.
* **A user's file replaced for a while.**  Racia puts its own `client.xml` in the
  place of the client's and may be interrupted, killed or started again before it
  has put the original back.

`PROJECT.json` lists every such place with its line under `hazards`, and the
properties that look after it.  Some of these places the code does not look after: a
property could only say that the code is wrong there, and no doc or comment claims
otherwise.  Such a hazard is in the model, has no property of its own, and a note says
which property holds up to it.

### What makes each part correct

| Part | It is correct if |
|---|---|
| Relay | each direction is a pipe; the ids of a capture are unique and ascend per file; ids go missing only at the end of a file (or where `fclose` lost a record unnoticed); the capture holds the chunks as received, and before they are sent on; a cut record is the last one; the end of one listener ends the other, and startProxy outlives both |
| Leticia | the records come out in the order of the ids, each once; it never takes the "can't find packet ID" branch; it reports what it has read truthfully; it ends, unless a packet crashes or hangs it |
| Both at once | what is on disk at any moment has the form Leticia assumes |
| Lifecycle | sessions have different ids; "continue" joins the newest; updates of the metadata add up; processes that are through leave; processes that are started get to listen |
| Packet processor | the plugin sees each packet whole, once, in order and as soon as it has arrived, and where it does not, it is for one of eight reasons (section 2); the stream goes out as it came except for what the plugin changed; every chunk is sent on |
| BbQueue | it implements a sequence |
| Racia | the client's own `client.xml` is never lost, and is back when Racia says so |
| GUI plugin | the texts of a packet fit the buffers made for them |

## 2. The modules

    Pipe  <- refined twice -  Relay  <- EXTENDS -  LiveCapture  - INSTANCE -> CaptureReader
                                                   SecondRun    - INSTANCE -> CaptureReader
                              FloanaSession ("relay" stands for a run of Relay)
                              PacketProcessor (what the plugins of Relay do to a chunk)
                              BbQueue (the queue of PacketProcessor, link by link)
                              GuiText (what the GUI plugin makes of a packet)
    Racia

A definition has the name of the function, or of the variable, it comes from
where there is one; `map` in `PROJECT.json` gives the lines of each.  In every
module the definitions called "Mutant" in their comments are plausible mistakes
in the code.  They are in no specification; each is there to be swapped for the
definition it follows or precedes, to see that a property notices.

**Pipe** is the abstract specification of one direction: chunks are taken one at
a time, given in the same order, each possibly rewritten, none lost as long as
the pipe is open.

**Relay** is `startProxy` from its two `pthread_create` on, and the two listeners.
`pc[s]` is the call a listener is at: `recv`, `lock`, `load` and `store` (of
`packet.id = params->packetId++`, two steps), `unlock`, `write`, `plugins`,
`send`, `cleanup` (the cancellation of the other one), and the ways to end.
`RequestCancel` only sets a flag; `Die` may follow at any later step, as
`PTHREAD_CANCEL_ASYNCHRONOUS` allows.  `log[s]` has a record for each one whose writing
began, `whole` or not: one whose writer died or failed is not, nor one of which `fclose`
lost bytes (fault `flush`), be it all of them.  The steps of a listener are `Proceed`,
which wait for nothing but the other listener, and `Handle`, what it does with a chunk.
What the plugins do is the relation `Rewrites`.  The client listener cancels a
handle that is not set yet if it ends before the second `pthread_create`; the
cancellation is then lost.

**CaptureReader** is main's loop over the folders, `read_packets` with its two
looks for the next id (`peek`, turn to the other file, `peekAgain`), and the file
functions of `RawPacket.c`, among them the static `eofDisplayed`.  Files are
given: any that satisfy `WellFormed`.  Decryption succeeds, refuses, crashes
(`rawPacketCopy` uses a `bufferSize` and a `cursor` nobody sets on this path) or never
comes back (`DecryptHangs`, a packet of size 0 in `foreachDecryptedPacket`).

**LiveCapture** puts the two together.  The reader's files are defined by the
proxy's log, to which `Flush` adds the part of a record that is being written.
That `WellFormed` holds at every moment (`CaptureIsWellFormed`) is what the reader
assumes and the proxy must guarantee.  A file shows the records that `Written` counts:
all of its log but one that is not whole, of which it shows what was flushed.

**SecondRun** is Leticia on a folder in which a zone proxy ran twice in one session.
The second run numbers its chunks from 0 again and appends to the same files
(`fopen "ab+"`), so `WellFormed` does not hold; `Drawn` is who drew which id in each
run, `Appended` what the two files then hold, and `first` where the second run begins in
each.

**FloanaSession** is `main` for several processes: the session id file (which
`fopen "wb+"` leaves empty until `fclose`), the read-modify-write of the
metadata, port 8088 of the GUI, the port of each proxy type, the wait for the
other processes, and the user killing any of them at any step.  One
process (`Faulty`) may be started with a command line that is refused
(`RefuseType`, `RefuseAction`) or one argument short (`MissAction`: `main` asks for
five arguments and reads a sixth), or with a plugin that does not load
(`LoadingFails`); `main` then goes to its cleanup with a table of plugins it never
set, and crashes there or goes on (`Abandon`).  History variables note whether two
processes were at a file at once or one died there.

**PacketProcessor** is `foreachDecryptedPacket` with `getPacketQueue` and
`addPacketQueue`, run by both listeners on one `packetQueue`.  Bytes are cells
that know where in the stream they come from, so a property can tell which bytes
went where.  A type is one cell and so is a size.  Headers read at the start of
a packet are what the stream says; headers read anywhere else are any value up to
`MaxMisread`; headers read behind the end of a chunk are zero, since
`rawPacketInit` allocates with `calloc`.  Looking at the queue's length and taking
from it are two steps.  `memcpy` with overlapping areas has either outcome
(`Memcpy`).  Decompressing garbage leaves nondeterministic calls and a
nondeterministic fragment.  The history variable `mishaps` notes the two things that can bring packets
out of order: a `memcpy` that repeated a chunk, and two fragments in the queue at once.
`losses` notes what first made the processor lose or misread packets, one of the eight
`Losses`: the client's listener took a fragment of the server, or two listeners raced for
one; a fragment did not fit the buffer, or `memcpy` repeated the chunk behind it; a chunk
ended inside a packet of the client, inside a compressed one, or before a size; a callback
refused.  `EveryLossHasACause` says that the list is complete.  Each of the eight can be
the first and only one in `ProcessorAnything`.
`CleanChunks` and `CleanChanges` are conditions on the streams, the chunks and the
plugin's changes, not on what happens; section 6 says what they are for.

What is abstracted in it: a queue operation is one step; a chunk does not end
between the two bytes of a type or of a size, or inside a client header; the
plugin leaves garbage alone; one plugin uses the processor.

**BbQueue** has the three operations of the list that the program calls,
`bb_queue_local_decl`, `bb_queue_add` and `bb_queue_get_first`, as functions on the
cells and their `prev`, `next` and `data`, link by link as the code sets them.  It has
no run of its own: what matters about it is proved.

**GuiText** follows `sendPacketToGui` over the bytes of one packet, keeping the lengths
of the three texts and of the frame instead of their characters, up to the check
that stops filling them.

**Racia** is `main` of `Racia.py` for several instances: the retrieval of the server
list, the choice of a server, the list file, the backup, the rewriting, the web
server on port 80, the SIGINT handler, which can be entered from anywhere in the
main thread, and death at every step.  A file is the original, Racia's own, or
torn: `open(..., 'wb')` empties it before anything is written.

The `MC*` modules give the constants values.

## 3. The runs

Every passing run is exhaustive.  The distinct states are in brackets.

| Run | Question | Bounds |
|---|---|---|
| `RelaySafety` (296,566) | ids, capture without holes, forwarding and shutdown under every interleaving, failure and cancellation; each direction implements `Pipe` | two chunks a side, a payload the plugins rewrite and one they do not, faults in recv, write, plugins, send |
| `RelayLiveness` (117,850) | does the end of one listener, or of the server's connection, bring the proxy down | two chunks a side, one payload, all faults, an `fclose` that loses a record among them |
| `ReaderTwoFolders` (277,990) | order, completeness, truthful reports, termination, and what one folder leaves behind for the next | two folders, each any with up to three ids spread over two files, the last record of each whole, cut in two ways, empty or missing; decryption refused, crashing or hanging |
| `LiveCapture` (415,219) | the same while the proxy writes | two chunks a side, failing writes, any flush |
| `SecondRun` (2,507) | what the test of the ids still guarantees when every id is there twice | two runs of up to three chunks each in the same files |
| `Sessions` (81,672) | session ids, metadata, who leaves | two processes that begin a session, one with the GUI and one that may fail to start, and one with the GUI that continues; kills anywhere |
| `ProcessorServer` (489) | reassembly, calls, changes that go out, progress | 18 cells, seven packets of all kinds, chunks that end at 12 of the cells |
| `ProcessorAnything` (3,373,853) | what survives misreading, the race for the queue, failing callbacks, overlapping `memcpy`, a small buffer; and that nothing else does harm | both directions, 7 and 2 cells, four packets, chunks that end behind and in each of them |
| `Racia` (1,187,657) | is the client's own `client.xml` safe | three instances, started, interrupted and killed at any step, any number of times |
| `ReaderEverything` | violated: "Everything has been read" | undamaged folders, four ids |
| `SessionGuiPort` | violated: the command lines of the README and of ZoneProxy, one after the other | a barrack and a zone process, both with the GUI |
| `ProcessorServerChange` | violated: a change to a packet that began in the chunk before | as `ProcessorServer`, but the chunks may cut the changed packets |

Why these bounds are enough to be interesting: the mistakes a relay can make are
about one chunk overtaking, replacing or following another of its own side or of
the other, so two a side show them, and the shutdown needs only to find each
listener at each of its calls.  Three ids give every pattern of turning between two
files, including both files running dry first, and two folders are the fewest in
which `eofDisplayed` matters; what the reader does with more of either is proved.
Three processes are the fewest
with two sessions and one that joins.  Seven packets in 18 cells have a fragment
that grows over four chunks, two fragments in one stream and packets of every
kind next to a fragment.  The streams of `ProcessorAnything` are the shortest found in
which each of the eight losses can come first: a fragment of two cells, a chunk of three
behind it for `memcpy` to repeat, one of four that does not fit, a packet in front that
would be passed twice, and a compressed one behind.

Each property of each passing run has a mutant in `PROJECT.json`: a plausible
mistake in one mapped definition that the run then finds.

`CHECK_DEADLOCK FALSE` is said in the runs of `PacketProcessor`, whose peers may have
nothing more to send, and whose listeners may hang or crash, and in `Racia`: after a
kill in the middle of writing `client.xml` no instance starts any more, because the
file does not parse, until the user copies the backup.

## 4. What the violated runs show

* `ReaderEverything`: `read_packets` returns -1 at the end of the file it happens
  to be at, and main prints that everything has been read, while the other file
  still has records.  `StopsWhenAFileRunsDry` says, and the proof shows, what the
  message does mean.
* `SessionGuiPort`: followed literally, the README's command line and the one
  `ZoneProxy` prints leave the zone proxy in the bind loop for port 8088, which
  the barrack proxy holds until it exits, which it does only when the zone proxy
  is gone.
* `ProcessorServerChange`: the offset of a changed packet is one in the copy,
  which has the fragment in front of it, and is used in the chunk, which has not.

The models contain other behaviour that limits what a passing run can claim.  It
can be seen by changing a configuration as said here:

* A client chunk takes the fragment of a server packet (`PacketProcessor.c:20`, the
  comparison of the types is commented out), so `PacketsComeOutWhole` is checked
  for one direction at a time; with both directions and server chunks that end in
  a packet it fails.
* With two runs in one folder the reader can go over to the second while records of the
  first are left.  If the first run's only chunk, 0, came from the server and the second
  run's 0 and 1 came from the client, the reader, which begins with the client's file,
  processes the second run alone and then says that everything has been read;
  `SilentlyReadIdsFollow` allows that.
* The second of two listeners that both saw one fragment gets NULL: `PopNothing`,
  in `ProcessorAnything`.
* A chunk that ends between the type and the size of a packet of variable size
  makes the loop run for ever: add cell 1 or 8 to `BodyEnds`.
* A client packet that a plugin changes is written back shifted by its header, and
  changes in a compressed packet are thrown away: add one to `Modified`.  No
  plugin of the repository changes a client packet.
* With a `memcpy` that copies forward, a fragment shorter than the chunk destroys
  the chunk's copy: `Memcpy = {"moves", "repeats"}` in `ProcessorServer`.
* Two processes begun with "new" wait for each other when both are through, and one that
  is through waits for one that cannot start because it still has port 8088: `WaitsInVain`,
  which `FinishedProxiesLeave` excepts.  In `Sessions` both happen.
* A capture file may be missing a record, with later ones of the same side behind it, if
  `fclose` failed: its result is not looked at (`RawPacket.c:126-131`).  The properties of
  the capture name it as their exception; RelaySafety has no such fault.
* A folder whose client file is empty, which a proxy killed before its first flush
  leaves behind, is "the end of the file" (a comment at `RawPacket.c:156` says "It's
  ok") if it comes first, and is reported as one that cannot be read if the folder
  before it ended at the end of a file: `eofDisplayed` is static and only a record
  resets it.  `EndShownBefore` is that case.  Without it `UnreadableMeansDamaged` is
  violated in `ReaderTwoFolders`.
* An empty `session_id`, left by a process that `main` let crash on its missing sixth
  argument, makes the next process use an id nobody initialised: `Junk`.

## 5. Fairness

* Relay: weak fairness of main, of what a listener does besides handling a chunk
  (`Proceed`), and of the delivery of a pending cancellation.  The operating system
  schedules runnable threads, delivers what `pthread_cancel` asked for, and serves those
  who wait for a Windows mutex in the order they came.  Nothing makes a peer send, read or
  close.  Nothing makes `Handle` end either: opening the file is retried for ever, a plugin
  may hang, `send` blocks.  So `ServerHangupStopsTheProxy` is about runs in which the
  server listener is not stuck with a chunk (`[]<>~Handling("server")`): only then
  does it get to see the end of its stream.  `OneEndStopsTheProxy` needs no such premise,
  since cancellation is asynchronous.
* CaptureReader: weak fairness of the one thread of Leticia.  `Finishes` counts a crash and
  an endless loop in the decryption as ends of the walk over the folders.
* FloanaSession: weak fairness of each process's next step.  This includes what the
  user does (open the page, connect the game, end the game), so
  `FinishedProxiesLeave` is about users who go through with what they started.
  Launching and killing are never forced.
* PacketProcessor: weak fairness of each listener while it has a chunk, none of
  receiving one.
* Racia and SecondRun: none; nothing about them is a liveness property, since a user
  may leave Racia waiting for ever.

## 6. The proofs

All theorems hold for every value of the constants that satisfies the
module's one assumption: `RelayAssumption`, `ReaderAssumption`, `SessionAssumption`,
`ProcessorAssumption`, `RaciaAssumption`, and for the composition `LiveAssumption` (that
`fclose` loses nothing) with the first two; those about `BbQueue` and `GuiText` assume
what they need where they are stated.  So they hold for any number of chunks, ids, folders,
processes and instances.

**RelayProofs.**  Five invariants, each inductive relative to the ones before it:

1. `TypeInv`: the types, and that a listener past `lock` holds a chunk.
2. `ShutdownInv`: a listener between `lock` and `unlock` owns the mutex (`MutexInv`);
   whoever is cancelled was cancelled by a sibling on its way out (`CancelInv`);
   what main's position says about both listeners (`StartupInv`).  From it follow
   `NobodyNeedsADeadOwnersMutex`, `ParamsOutliveTheListeners` and, as an action
   property, `OrphansComeFromStartup`.
3. `IdInv`: every id used is below the counter, an id about to be stored is the
   counter itself, and an id held and not yet recorded is neither in a file nor
   held by the other side.  `IdsOrderTheCapture` alone is not inductive: nothing in
   it says that the id a listener is about to record is larger than those recorded.
4. `DataInv`: how long `received`, `log` and `forwarded` are at each `pc`, and that
   the records are the received chunks.  It gives `CaptureIsUnmodified`, with
   `CutInv` `LoggedBeforeForwarded` and `CutRecordIsLast`, and the refinement:
   `RelaysClient` and `RelaysServer` map each step to a step of `Pipe` or to a
   stutter.
5. `GapInv`: each drawn id has a record or is held, or is lost with a listener that
   ended.  With `CutInv`, by which a record that is not whole is the last one of a side
   that ends (or one that `fclose` lost), it gives `GapsAreFinal`.

**CaptureReaderProofs.**  The heart is `OffsetsInv`: at every step the two offsets cut
the two files at one and the same id, all smaller ids before the cut and no
others.  With `WellFormed` this makes the second look find the next id or find the end
of the file, so the branch that has lost an id is never taken.  `PeekInv`, `ReadInv`,
`DecryptInv`, `PlaceInv`, `CountInv` and `ReportInv` say what each position adds.
`ReadsInOrder`, `NeverLosesAnId` and `StopsWhenAFileRunsDry` follow, for any number of
folders and records.  `EndInv` says what `eofShown` means while a folder is being read:
nothing has been read of it yet, and a folder before ended at the end of a file with
only empty client files since.  It gives `UnreadableMeansDamaged`.

**FloanaSessionProofs.**  `IdInv`: as long as nothing was disturbed, at most one
process is at its command line, the number in the file is one more than the newest
session, and the process at the command line has drawn it.  `SessionsAreDistinct` and
`ContinueJoinsTheNewest` follow for any number of processes.

`TypesAreCorrect` needs counting: that a session id stays in `Sessions` depends on no
process drawing twice, so `CountInv` bounds the number in the file by the number of
processes that have drawn (`Drew`), and the theorems on finite sets bound that by the
number of processes.  `SeparateUpdatesAddUp` rests on `MetaInv`: for a session nothing
has disturbed, either nobody is updating its metadata and the file names all those
done, or one process is, and the file, or what that process has read of it, names all
those done before it.

**LiveCaptureProofs.**  Three steps lead from the proofs about each program alone to the
two at once.

1. `LiveImplementsRelay`: the composition is a proxy of Relay with something beside it,
   so all invariants of RelayProofs hold in it (`RelayInv`).
2. `FileInv` adds what is on disk of a record that is being written: there is a part of
   one only while its side is writing or after it has stopped (`FlushedInv`), its id is beyond
   those of its own file and in no other (`PartInv`), and a record that is not whole is
   the one its side still holds (`CutInHandInv`).  With `IdInv` and `GapInv` it makes the
   files `WellFormed` at every moment: `CaptureIsWellFormed`.  That no id is missing in
   front of recorded ones is `EveryIdInv`, from `GapInv`.
3. The reader's invariant comes from CaptureReaderProofs by `INSTANCE`, with the proxy's
   log for its files; `LeticiaAssumption` discharges what that module assumes.  A step
   of the reader keeps it because the files are well formed.  A step of the proxy keeps
   it because a capture only grows, at the ends of its files (`Extends`), and by ids the
   reader cannot have passed (`NewIdsAreBeyond`).  The reader's invariant does not give
   this by itself: in files that may grow, the offsets can cut both at one id while a
   smaller one is still to come.  `PassedInv` excludes that: every id before the cut is
   in a file already.

`ReadsInOrderLive`, `NeverLosesAnIdLive` and, as an action property,
`UnreadableIsUnfinished` follow.

**RaciaProofs.** Both properties are about runs in which no two instances have had the
server list and were under way together (`~overlapped`): the second of two such makes its
backup from the first one's `client.xml`, and the original is gone. An instance is
*engaged* unless it is off or has just read a `client.xml` that names Racia's own address.
`FilesInv`: as long as no two got under way together, the engaged one is alone, so that
nobody changes the files behind its back; it knows which of the two files is the original;
and one of them is, engaged or not. An instance begun by mistake meanwhile finds Racia's
own address in `client.xml` and ends before it makes a backup, because nobody answers
there.

**BbQueueProofs.**  `Represents(q, cells)` says that the links of `q` lead through `cells`
from the first to the last and back.  The three theorems show that the three operations
keep it and do to the contents what `<< >>`, `Append`, `Head` and `Tail` do, which is
what PacketProcessor assumes of the queue between two threads that do not meet in it.

**GuiTextProofs.**  The texts of a packet of at most 4945 bytes, and the frame made of
them, fit their buffers, and the check that cuts them short never fires; 4945 is the
largest size of which this is true.

**PacketProcessorProofs.**  Two theorems hold of any streams, chunks, buffer sizes,
failures and races, and of whatever the plugin does.

* `TypesAreCorrect`, by `TypeInv`: no fragment in the queue is empty.  `Passes` sums up
  what the processing of any packet may do to the calls, the cursor and the queue, so
  that the later proofs need not look at each kind of packet again.
* `PacketsComeOnceAlways`, by `OnceInv`.  Cells know their place in the stream.  Behind
  the cursor of each listener they are all different and ascend (`Line`), as do those of
  the fragments kept (`Kept`), which come before what is left of the chunk in hand
  (`Meet`) and after the packets that were passed.  The invariant was not inductive at
  first, and twice it was the property that was too strong.  A `memcpy` that repeats a
  chunk longer than the fragment repeats the small packets in it.  And the call for a
  compressed packet that is cut keeps garbage, to which the caller adds the rest of the
  chunk: with two fragments in the queue the second is called behind the next chunk.
  `mishaps` names both, and the property excepts exactly them.

Four theorems say that the processor does its work on chunks it can handle,
`CleanChunks`: none cuts a packet of the client, a compressed one, or a type from its
size; what is cut fits the buffer; if a server packet is cut there is no client; `memcpy`
moves and callbacks succeed.  Each of these names something the code gets wrong
(section 4), and `BodyIsClean` in MCPacketProcessor has TLC confirm that the streams of
`ProcessorServer` satisfy them, with a fragment that grows over four chunks.

* `PacketsComeOutWholeAlways` and `NothingIsHeldBackAlways`, by `CleanInv`: between two
  chunks the plugin was called with exactly the packets that end with some cell b, and
  the queue is empty or holds the cells from there to the end of the last chunk
  (`UpTo`); in the loop the cursor is at the start of a packet or past the end of the
  chunk (`Looping`).
* `OnlyChangedPacketsDifferAlways` and `ChangesGoOutAlways`, by `ChangesInv`, which gives
  the value of every cell sent or held from the packets looked at so far.  They also
  assume `CleanChanges`: the plugin changes no packet that ends in a chunk which begins
  inside a packet (`ProcessorServerChange` is the counterexample), none inside a
  compressed one and none of the client.

**Only model-checked.**  The five liveness properties, which are beyond the prover:
`OneEndStopsTheProxy`, `ServerHangupStopsTheProxy`, `Finishes`, `FinishedProxiesLeave` and
`EveryChunkIsSentOn`.  And two invariants: `EveryLossHasACause`, of which the theorems on
clean chunks are the part that can be stated of the constants, and
`SilentlyReadIdsFollow`, which is about captures for which the invariant of the reader does
not hold.  Every other invariant and every action property of a passing run is stated by a
theorem, `OnlyChangedPacketsDiffer`, `PacketsComeOutWhole`, `NothingIsHeldBack` and
`ChangesGoOut` under the hypotheses above.

## 7. What is not modelled

* The ciphers, zlib's algorithm, the packet tables, logging: data.  That the last entry
  of the packet table has the largest type, on which the bound of the lookups rests,
  was checked by reading it.
* The name by which `countProcessRunning` counts its like: it is the end of `argv[0]`
  (`Floana.c:552-568, 609`), which is that of the process only if it was typed with
  ".exe", as the README does.  Typed without, it counts nobody, and the wait never ends.
* A short count from `send`, which the code does not look at.
* The links of BbQueue under two threads: `bb_queue_add` and `bb_queue_get_first` change
  them without a lock.  In PacketProcessor a queue operation is one step, and looking at
  the length is another.
* The operations of BbQueue the program never calls.  Read, not modelled: some differ
  from their names (`bb_queue_insert_before` inserts after, `bb_queue_add_nth` within
  the list inserts after the position, `bb_queue_pick_child_nth` of the length returns
  the last cell).
* The handshake of the WebSocket library, a text parsed and formatted without state,
  among it the lengths of its fields, kept in eight bits (`websocket.c:57`); its parser of
  frames, which the program does not call; that `wsMakeFrame`'s assertion reads a
  `frameSize` that `gui.c:53-55` has not set.
* What a packet of more than 4945 bytes does past the ends of the GUI's buffers: GuiText
  ends where they do.
* The browser's side of the GUI plugin, its socket, and `client.url`.
* `capture.txt` and the files of single packets that Leticia writes.  No code reads them.
  The packets of one type in one chunk, and those under one id of two runs, share a
  file name, and the last one stays (`Leticia.c:44`).
* Which server the user of Racia picks.  The check lets the number through that is one
  too high (`Racia.py:77`); the instance then ends with an exception, one of the deaths
  that are modelled.
* `cwebsocket/main.c`, the HTML page, Blowfish and jQuery: a sample, a view, vendored
  code.  The only JavaScript of the repository is the vendored `jquery.js`; everything
  modelled here is C and Python.

## 8. Plan

Done, in the order of importance: Relay, CaptureReader, LiveCapture, FloanaSession with
its failures, PacketProcessor, Racia, two runs in one folder, BbQueue, GuiText, and the
proofs about all of them.  What is left:

1. An abstract stream of packets, each passed once and in order, that PacketProcessor
   implements on clean chunks.
2. A proof of `EveryLossHasACause`: `CleanInv` as an invariant of `losses = {}` instead of
   `CleanChunks`, with both listeners at work, from which `PacketsComeOutWholeAlways` and
   `NothingIsHeldBackAlways` would follow as special cases.
3. BbQueue under two threads, assignment by assignment, for what can become of the list
   when `bb_queue_add` and `bb_queue_get_first` meet.
