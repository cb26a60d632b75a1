--------------------------- MODULE MCOAuthClients ---------------------------
(* Two requests for one document, so that one meets the other's half-done  *)
(* store, and a limit of one hit in a window.                              *)
EXTENDS OAuthClients, TLC

LimitOf == [k \in LimitKeys |-> 1]

ClientSymmetry == Permutations(Resolvers)

=============================================================================
