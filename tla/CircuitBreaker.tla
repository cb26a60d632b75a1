--------------------------- MODULE CircuitBreaker ---------------------------
(***************************************************************************)
(* The in-memory circuit breaker (proxy/circuit_breaker.py) under the      *)
(* callers that use it: gateway tool calls that pass before_request and    *)
(* some time later record an outcome (mcp/tools_handlers.py), and health   *)
(* probes, which record outcomes without asking before_request first       *)
(* (mcp_gateway/health_probe.py).  Everything runs on one event loop, so   *)
(* each method of the breaker is one atomic step; what interleaves is the  *)
(* time between a call's admission and its outcome.                        *)
(***************************************************************************)
EXTENDS Integers

CONSTANTS
  Services,          \* service ids; each has its own entry
  Calls,             \* gateway calls that may be in flight
  NoService,         \* marks a call that is not in flight
  FailureThreshold,  \* failure_threshold
  Cooldown,          \* cooldown_seconds, in clock units
  MaxNow,            \* bound: the model's clock stops there
  MaxStreak          \* bound: failures in a row that the model records

ASSUME ThresholdAssumption == FailureThreshold \in Nat \ {0}
ASSUME CooldownAssumption  == Cooldown \in Nat
ASSUME MaxNowAssumption    == MaxNow \in Nat
ASSUME MaxStreakAssumption == MaxStreak \in Nat
ASSUME NoServiceAssumption == NoService \notin Services

Never == -1   \* opened_at is None; also "no failure yet"

VARIABLES
  now,          \* time.monotonic()
  state,        \* per service: entry.state
  failureCount, \* per service: entry.failure_count
  openedAt,     \* per service: entry.opened_at
  target,       \* per call: the service it was admitted to, or NoService
  streak,       \* history: failures recorded since the last success
  lastFailure   \* history: when the latest failure was recorded

entry   == <<state, failureCount, openedAt>>
history == <<streak, lastFailure>>
vars    == <<now, entry, target, history>>

TypeOK ==
  /\ now \in 0..MaxNow
  /\ state \in [Services -> {"closed", "open", "half-open"}]
  /\ failureCount \in [Services -> Nat]
  /\ openedAt \in [Services -> Nat \cup {Never}]
  /\ target \in [Calls -> Services \cup {NoService}]
  /\ streak \in [Services -> Nat]
  /\ lastFailure \in [Services -> Nat \cup {Never}]

Init ==
  /\ now = 0
  /\ state = [s \in Services |-> "closed"]
  /\ failureCount = [s \in Services |-> 0]
  /\ openedAt = [s \in Services |-> Never]
  /\ target = [c \in Calls |-> NoService]
  /\ streak = [s \in Services |-> 0]
  /\ lastFailure = [s \in Services |-> Never]

-----------------------------------------------------------------------------
(* The breaker's methods, as steps on the entry of one service.            *)

RetryAfter(s) ==
  IF openedAt[s] = Never THEN 0 ELSE Cooldown - (now - openedAt[s])

Rejects(s) == state[s] = "open" /\ RetryAfter(s) > 0

\* before_request when it lets the request through
Admit(s) ==
  /\ ~Rejects(s)
  /\ IF state[s] = "open"
     THEN /\ state' = [state EXCEPT ![s] = "half-open"]
          /\ openedAt' = [openedAt EXCEPT ![s] = Never]
          /\ UNCHANGED failureCount
     ELSE UNCHANGED entry

\* mistake: a success closes the circuit and leaves the count
SuccessKeepsCount(s) ==
  /\ state' = [state EXCEPT ![s] = "closed"]
  /\ openedAt' = [openedAt EXCEPT ![s] = Never]
  /\ streak' = [streak EXCEPT ![s] = 0]
  /\ UNCHANGED <<failureCount, lastFailure>>

RecordSuccess(s) ==
  /\ state' = [state EXCEPT ![s] = "closed"]
  /\ failureCount' = [failureCount EXCEPT ![s] = 0]
  /\ openedAt' = [openedAt EXCEPT ![s] = Never]
  /\ streak' = [streak EXCEPT ![s] = 0]
  /\ UNCHANGED lastFailure

\* failure_count after record_failure
CountedFailures(s) ==
  IF state[s] # "half-open" THEN failureCount[s] + 1
  ELSE IF failureCount[s] >= FailureThreshold THEN failureCount[s]
  ELSE FailureThreshold

\* mistake: a failure that arrives while the circuit is open does not count
\* against the cooldown
FailureKeepsDeadline(s) ==
  /\ streak[s] < MaxStreak
  /\ failureCount' = [failureCount EXCEPT ![s] = CountedFailures(s)]
  /\ IF CountedFailures(s) >= FailureThreshold /\ state[s] # "open"
     THEN /\ state' = [state EXCEPT ![s] = "open"]
          /\ openedAt' = [openedAt EXCEPT ![s] = now]
     ELSE UNCHANGED <<state, openedAt>>
  /\ streak' = [streak EXCEPT ![s] = @ + 1]
  /\ lastFailure' = [lastFailure EXCEPT ![s] = now]

RecordFailure(s) ==
  /\ streak[s] < MaxStreak
  /\ failureCount' = [failureCount EXCEPT ![s] = CountedFailures(s)]
  /\ IF CountedFailures(s) >= FailureThreshold
     THEN /\ state' = [state EXCEPT ![s] = "open"]
          /\ openedAt' = [openedAt EXCEPT ![s] = now]
     ELSE UNCHANGED <<state, openedAt>>
  /\ streak' = [streak EXCEPT ![s] = @ + 1]
  /\ lastFailure' = [lastFailure EXCEPT ![s] = now]

-----------------------------------------------------------------------------
(* The callers.                                                            *)

\* a tools/call passes the breaker and is sent downstream
Dispatch(c, s) ==
  /\ target[c] = NoService
  /\ Admit(s)
  /\ target' = [target EXCEPT ![c] = s]
  /\ UNCHANGED <<now, history>>

Settle(c) ==
  /\ target[c] # NoService
  /\ target' = [target EXCEPT ![c] = NoService]
  /\ UNCHANGED now

\* a result, or a tool's own error: the service answered
Succeed(c) == Settle(c) /\ RecordSuccess(target[c])

\* a timeout, a failure of the transport, or no room for the service's process
Fail(c) == Settle(c) /\ RecordFailure(target[c])

\* an outcome nobody records: its URL is blocked, its answer cannot be used, or
\* the connection fails while the body of the response is read
Abandon(c) == Settle(c) /\ UNCHANGED <<entry, history>>

\* a health probe records what it saw; it never asks before_request
ProbeSucceeds(s) == RecordSuccess(s) /\ UNCHANGED <<now, target>>
ProbeFails(s)    == RecordFailure(s) /\ UNCHANGED <<now, target>>

Tick ==
  /\ now < MaxNow
  /\ now' = now + 1
  /\ UNCHANGED <<entry, target, history>>

Next ==
  \/ \E c \in Calls :
       \/ \E s \in Services : Dispatch(c, s)
       \/ Succeed(c)
       \/ Fail(c)
       \/ Abandon(c)
  \/ \E s \in Services : ProbeSucceeds(s) \/ ProbeFails(s)
  \/ Tick

Spec == Init /\ [][Next]_vars

-----------------------------------------------------------------------------
(* What the breaker promises, in terms of the outcomes alone.              *)

Promise == INSTANCE BreakerPromise
             WITH now <- now, target <- target, streak <- streak,
                  lastFailure <- lastFailure

\* Whatever the order in which calls are admitted and their outcomes arrive,
\* state, failure_count and opened_at together let no call through that the
\* history of outcomes blocks (before_request, record_success, record_failure
\* against BreakerPromise).
PromiseKept == Promise!Spec

\* Nor do they refuse a call that the history lets through: a circuit that
\* opened closes again for callers when it has to, not later.
RefusesOnlyBlocked == \A s \in Services : Rejects(s) => Promise!Blocked(s)

\* The entry of a service mirrors the history of its outcomes: the circuit is
\* closed exactly while fewer than FailureThreshold failures arrived since the
\* last success, also when a late outcome of an earlier call arrives in the
\* open or half-open state; an open circuit's cooldown runs from the latest
\* failure; a half-open circuit has seen a full cooldown without a failure.
EntryMirrorsHistory ==
  \A s \in Services :
    /\ state[s] = "closed" =>
         /\ failureCount[s] = streak[s]
         /\ streak[s] < FailureThreshold
         /\ openedAt[s] = Never
    /\ state[s] # "closed" =>
         /\ FailureThreshold <= failureCount[s]
         /\ failureCount[s] <= streak[s]
    /\ state[s] = "open" => openedAt[s] = lastFailure[s]
    /\ state[s] = "half-open" =>
         /\ openedAt[s] = Never
         /\ lastFailure[s] + Cooldown <= now

\* The latest failure is a time that has passed, and there is one once a
\* failure was counted.
HistoryIsPast ==
  \A s \in Services :
    /\ lastFailure[s] <= now
    /\ streak[s] > 0 => lastFailure[s] # Never

=============================================================================
