-------------------------- MODULE MCUpstreamLatency --------------------------
(* Three upstreams, of which lists show two; one answers in no measurable   *)
(* time.  Any two of them have a response with a duration.                  *)
EXTENDS UpstreamLatency

CONSTANTS tardy, steady, fast

Durations == [u \in Upstream |-> CASE u = tardy -> {3} [] u = steady -> {2} [] u = fast -> {0}]

=============================================================================
