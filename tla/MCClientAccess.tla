--------------------------- MODULE MCClientAccess ---------------------------
(* Two requests, of which one may withdraw what the other is opening or    *)
(* presenting; two connections for one ticket.                             *)
EXTENDS ClientAccess, TLC

AccessSymmetry == Permutations(Requests) \cup Permutations(Connections)

=============================================================================
