-------------------------- MODULE MCStdioTransport --------------------------
(* Instances of StdioTransport for TLC.  Of three requests one can start   *)
(* the process, one find it running and one restart it; two share an id.   *)
(* Two requests are enough for the returns: they share an id, or one of    *)
(* them is one-way and is cancelled.                                       *)
EXTENDS StdioTransport, TLC

CONSTANTS c1, c2, c3, i1, i2

TwoShareAnId == c1 :> i1 @@ c2 :> i1 @@ c3 :> i2
OneId        == c1 :> i1 @@ c2 :> i1

Sharers == Permutations({c1, c2})

=============================================================================
