------------------------------- MODULE BbQueue ------------------------------
(***************************************************************************)
(* The doubly linked list behind the packet queue                          *)
(* (src/src/common/BbQueue/BbQueue.c): what the program uses of it,        *)
(* bb_queue_local_decl, bb_queue_add and bb_queue_get_first, as operators  *)
(* on a list.  A list is a BbQueue together with the memory its children   *)
(* live in; bb_child_new takes a child that nobody uses.  PacketProcessor  *)
(* takes the list for a sequence: BbQueueProofs shows that it may.         *)
(***************************************************************************)
EXTENDS Integers, Sequences

CONSTANTS
  Children,   \* the addresses of BbChild structures
  NULL,
  Data        \* what the children point to

Pointers == Children \cup {NULL}

Lists == [first : Pointers, last : Pointers, len : Int,
          next : [Children -> Pointers], prev : [Children -> Pointers],
          data : [Children -> Data]]

\* Which cells a list consists of, from the first to the last.
Represents(q, cells) ==
  /\ q.len = Len(cells)
  /\ \A i, j \in DOMAIN cells : cells[i] = cells[j] => i = j
  /\ q.first = IF cells = << >> THEN NULL ELSE cells[1]
  /\ q.last = IF cells = << >> THEN NULL ELSE cells[Len(cells)]
  /\ \A i \in DOMAIN cells :
       /\ q.next[cells[i]] = IF i = Len(cells) THEN NULL ELSE cells[i + 1]
       /\ q.prev[cells[i]] = IF i = 1 THEN NULL ELSE cells[i - 1]

Contents(q, cells) == [i \in DOMAIN cells |-> q.data[cells[i]]]

-----------------------------------------------------------------------------
\* bb_queue_local_decl, with which packetQueue begins.
Initialised(q) == [q EXCEPT !.len = 0, !.first = NULL, !.last = NULL]

NewChild(q, c, d) ==
  [q EXCEPT !.next = [@ EXCEPT ![c] = NULL],
            !.prev = [@ EXCEPT ![c] = NULL],
            !.data = [@ EXCEPT ![c] = d]]

\* At the end: bb_queue_add.
AddChild(q, c) ==
  IF q.len = 0
    THEN [q EXCEPT !.first = c, !.last = c, !.len = @ + 1]
    ELSE [q EXCEPT !.next = [@ EXCEPT ![q.last] = c],
                   !.prev = [@ EXCEPT ![c] = q.last],
                   !.last = c,
                   !.len = @ + 1]

Add(q, c, d) == AddChild(NewChild(q, c, d), c)

\* The first data, or NULL; the cell is freed.
First(q) == IF q.len <= 0 THEN NULL ELSE q.data[q.first]

GetFirst(q) ==
  IF q.len <= 0 THEN q
  ELSE IF q.len = 1 THEN [q EXCEPT !.first = NULL, !.last = NULL, !.len = @ - 1]
  ELSE [q EXCEPT !.prev = [@ EXCEPT ![q.next[q.first]] = NULL],
                 !.first = q.next[q.first],
                 !.len = @ - 1]

=============================================================================
