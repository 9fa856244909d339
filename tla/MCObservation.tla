---------------------------- MODULE MCObservation ----------------------------
(* Three targets, two observed at a time, of which two must be complete.    *)
EXTENDS Observation

CONSTANTS t1, t2, t3

=============================================================================
