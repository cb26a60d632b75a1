--------------------------- MODULE MCOAuthGrants ----------------------------
(* Two requests and three pairs: a token, its successor, and the pair that *)
(* a replayed exchange or rotation would add; a code to exchange twice.    *)
EXTENDS OAuthGrants, TLC

GrantSymmetry == Permutations(Requests) \cup Permutations(Pairs) \cup Permutations(Keys)

=============================================================================
