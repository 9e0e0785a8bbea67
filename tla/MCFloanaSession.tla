-------------------------- MODULE MCFloanaSession ---------------------------
(* FloanaSession with the processes a user may start.                      *)
EXTENDS FloanaSession

CONSTANTS b1, b2, z

\* What is started: two sessions and a zone proxy that continues one of them; a
\* barrack proxy and a zone proxy.
TwoSessions == {b1, b2, z}
BarrackAndZone == {b1, z}

MCAction == [p \in Procs |-> IF p = z THEN "continue" ELSE "new"]
MCType == [p \in Procs |-> IF p = z THEN "zone" ELSE "barrack"]
MCTypes == {"barrack", "zone"}

=============================================================================
