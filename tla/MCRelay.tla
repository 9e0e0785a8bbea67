------------------------------- MODULE MCRelay ------------------------------
(* Relay on payloads of which the plugins rewrite one.                     *)
EXTENDS Relay

CONSTANTS redirect, redirected

MCRewrites == [p \in Payload |-> IF p = redirect THEN {redirected} ELSE {p}]

=============================================================================
