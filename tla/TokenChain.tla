----------------------------- MODULE TokenChain -----------------------------
(***************************************************************************)
(* What rotating refresh tokens owe their user, without tables or          *)
(* requests: each family is a baton.  At any time either one token holds   *)
(* it, or one request is passing it on, or nobody has it; a token that     *)
(* handed it over never gets it back, and a family that lost its baton     *)
(* never finds another.  OAuthGrants implements this.                      *)
(***************************************************************************)
CONSTANTS
  Tokens,
  Moving, Gone, Unborn  \* what a baton is when no token holds it

VARIABLES
  baton,  \* per family, named by its first token: who holds it
  spent   \* tokens that once held a baton and no longer do

vars == <<baton, spent>>

Init ==
  /\ baton = [f \in Tokens |-> Unborn]
  /\ spent = {}

Held == {baton[f] : f \in Tokens} \cap Tokens

Start(f) ==
  /\ baton[f] = Unborn
  /\ f \notin spent \cup Held
  /\ baton' = [baton EXCEPT ![f] = f]
  /\ UNCHANGED spent

Take(f) ==
  /\ baton[f] \in Tokens
  /\ baton' = [baton EXCEPT ![f] = Moving]
  /\ spent' = spent \cup {baton[f]}

Give(f) ==
  /\ baton[f] = Moving
  /\ baton'[f] \in Tokens \ (spent \cup Held)
  /\ baton' = [baton EXCEPT ![f] = baton'[f]]
  /\ UNCHANGED spent

Drop(f) ==
  /\ baton[f] \in Tokens
  /\ baton' = [baton EXCEPT ![f] = Gone]
  /\ spent' = spent \cup {baton[f]}

\* everything that was being passed on is lost at once
LoseMoving ==
  /\ baton' = [f \in Tokens |-> IF baton[f] = Moving THEN Gone ELSE baton[f]]
  /\ UNCHANGED spent

Next ==
  \/ \E f \in Tokens : Start(f) \/ Take(f) \/ Give(f) \/ Drop(f)
  \/ LoseMoving

Spec == Init /\ [][Next]_vars

=============================================================================
