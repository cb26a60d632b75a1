-------------------------- MODULE MCDownstreamCalls --------------------------
(* One service, one call and two administrators' requests: a put or a      *)
(* rotate that loses to another, a call prepared across it, and the late   *)
(* answer of the call after the failures of probes.                        *)
EXTENDS DownstreamCalls, TLC

Symmetries == Permutations(Calls) \cup Permutations(Admins)

=============================================================================
