-------------------------------- MODULE Pipe --------------------------------
(***************************************************************************)
(* What one direction of a Floana proxy promises: a pipe that holds at     *)
(* most one chunk, delivers the chunks in the order it took them, each at  *)
(* most once and each replaced by something the plugins may make of it,    *)
(* and that moves nothing any more once it is shut.                        *)
(***************************************************************************)
EXTENDS Naturals, Sequences

CONSTANTS
  Payload,   \* what a chunk of the byte stream can carry
  Rewrites   \* for each payload, the payloads the plugins may turn it into

VARIABLES
  taken,     \* the payloads taken in, oldest first
  given,     \* the payloads handed on, oldest first
  open       \* FALSE once the direction is shut

pipeVars == <<taken, given, open>>

PipeInit ==
  /\ taken = << >>
  /\ given = << >>
  /\ open = TRUE

Take(p) ==
  /\ open
  /\ Len(taken) = Len(given)
  /\ taken' = Append(taken, p)
  /\ UNCHANGED <<given, open>>

HandOn ==
  /\ Len(given) < Len(taken)
  /\ \E p \in Rewrites[taken[Len(given) + 1]] : given' = Append(given, p)

Give ==
  /\ open
  /\ HandOn
  /\ UNCHANGED <<taken, open>>

\* A direction is shut at any moment, possibly in the middle of handing on.
Shut ==
  /\ open
  /\ open' = FALSE
  /\ HandOn \/ UNCHANGED given
  /\ UNCHANGED taken

PipeNext == (\E p \in Payload : Take(p)) \/ Give \/ Shut

PipeSpec == PipeInit /\ [][PipeNext]_pipeVars

=============================================================================
