--------------------------- MODULE BreakerPromise ---------------------------
(***************************************************************************)
(* What a circuit breaker owes its callers, said without the breaker's own *)
(* state: a call to a service is refused exactly while the last            *)
(* FailureThreshold outcomes or more were failures and the latest of them  *)
(* is less than Cooldown old.  CircuitBreaker implements this.             *)
(***************************************************************************)
EXTENDS Integers

CONSTANTS Services, Calls, NoService, FailureThreshold, Cooldown, MaxNow,
          MaxStreak

VARIABLES now, target, streak, lastFailure

vars == <<now, target, streak, lastFailure>>

Init ==
  /\ now = 0
  /\ target = [c \in Calls |-> NoService]
  /\ streak = [s \in Services |-> 0]
  /\ lastFailure = [s \in Services |-> -1]

Blocked(s) ==
  /\ streak[s] >= FailureThreshold
  /\ now < lastFailure[s] + Cooldown

Dispatch(c, s) ==
  /\ target[c] = NoService
  /\ ~Blocked(s)
  /\ target' = [target EXCEPT ![c] = s]
  /\ UNCHANGED <<now, streak, lastFailure>>

Return(c) ==
  /\ target[c] # NoService
  /\ target' = [target EXCEPT ![c] = NoService]

Good(s) ==
  /\ streak' = [streak EXCEPT ![s] = 0]
  /\ UNCHANGED <<now, lastFailure>>

Bad(s) ==
  /\ streak[s] < MaxStreak
  /\ streak' = [streak EXCEPT ![s] = @ + 1]
  /\ lastFailure' = [lastFailure EXCEPT ![s] = now]
  /\ UNCHANGED now

Tick ==
  /\ now < MaxNow
  /\ now' = now + 1
  /\ UNCHANGED <<target, streak, lastFailure>>

Next ==
  \/ \E c \in Calls, s \in Services : Dispatch(c, s)
  \/ \E c \in Calls :
       /\ Return(c)
       /\ \/ Good(target[c])
          \/ Bad(target[c])
          \/ UNCHANGED <<now, streak, lastFailure>>
  \/ \E s \in Services : (Good(s) \/ Bad(s)) /\ UNCHANGED target
  \/ Tick

Spec == Init /\ [][Next]_vars

=============================================================================
