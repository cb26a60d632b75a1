--------------------------- MODULE MCToolGateway ---------------------------
(* Instances of ToolGateway for TLC.  Calls name one tool and, where it     *)
(* matters, one Idempotency-Key, so that they share every cached thing;     *)
(* a second tool of the same service is there for presets and for changes   *)
(* of a service, which touch both.                                          *)
EXTENDS ToolGateway, TLC

CONSTANTS c1, c2, t1, t2, s1, k1, i1

OneService == [t \in Tools |-> s1]
SameTool   == [c \in Calls |-> t1]
SameKey    == [c \in Calls |-> k1]
NoKey      == [c \in Calls |-> None]
OneId      == [c \in Calls |-> i1]
=============================================================================
