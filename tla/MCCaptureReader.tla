--------------------------- MODULE MCCaptureReader --------------------------
(***************************************************************************)
(* CaptureReader on every folder a proxy can leave after drawing at most   *)
(* MaxIds ids: who drew which id, and for each side what became of the     *)
(* record of its last one.                                                 *)
(***************************************************************************)
EXTENDS CaptureReader, SequencesExt

CONSTANT MaxIds    \* bound: the ids drawn by a proxy

\* The last record of a side: whole, cut, not written at all, or not even a
\* file made for it.
Tails == {"none", "beforeId", "afterId", "empty", "unopened"}

Written(mine, tail) ==
  LET q == SetToSortSeq(mine, <)
      records == [i \in DOMAIN q |->
                    [id |-> q[i],
                     cut |-> IF i = Len(q) /\ tail \in Cuts THEN tail ELSE "none"]]
  IN  IF tail \in Cuts \/ q = << >> THEN records ELSE Front(records)

SideCapture(mine, tail) ==
  LET records == Written(mine, tail)
  IN  [exists |-> records # << >> \/ (mine # {} /\ tail = "empty"),
       records |-> records]

MCCaptures ==
  UNION {{[s \in Sides |-> SideCapture({n \in 0 .. k - 1 : drawer[n] = s}, tail[s])] :
            drawer \in [0 .. k - 1 -> Sides], tail \in [Sides -> Tails]} :
         k \in 0 .. MaxIds}

\* Of these, the ones in which nothing is missing or cut.
MCWholeCaptures ==
  UNION {{[s \in Sides |-> SideCapture({n \in 0 .. k - 1 : drawer[n] = s}, "none")] :
            drawer \in [0 .. k - 1 -> Sides]} :
         k \in 0 .. MaxIds}

=============================================================================
