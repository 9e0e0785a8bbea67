---------------------------- MODULE MCLiveCapture ---------------------------
(* LiveCapture on chunks the plugins leave alone.                          *)
EXTENDS LiveCapture

MCRewrites == [p \in Payload |-> {p}]

=============================================================================
