----------------------------- MODULE RateLimiter ----------------------------
(***************************************************************************)
(* The fixed-window limiters (auth/rate_limit.py): the one in memory, and  *)
(* the one on Redis, which falls back to a count of its own in memory when *)
(* the wire fails, whether or not Redis had already counted the hit.  A    *)
(* check has no await in it, so it is one step.  Hits that Redis counts    *)
(* beyond the limit change no decision and are left out, and so is the     *)
(* advice how long a refused caller should wait.                           *)
(***************************************************************************)
EXTENDS Integers, Sequences

CONSTANTS
  LimitKeys,  \* bucket keys
  Limit,      \* per key: limit
  Window,     \* window_seconds, in ticks
  OnRedis,    \* COREMCP_RATE_LIMIT_BACKEND is redis
  MaxClock,   \* bound: the model's clock stops there
  MaxLost     \* bound: the process restarts while memory has let no more through

ASSUME LimitAssumption == Limit \in [LimitKeys -> Nat \ {0}]
ASSUME WindowAssumption == Window \in Nat \ {0}
ASSUME OnRedisAssumption == OnRedis \in BOOLEAN /\ MaxClock \in Nat /\ MaxLost \in Nat

Unset == -1   \* no bucket

Backends == {"memory", "redis"}

VARIABLES
  clock,     \* the limiter's clock
  count,     \* per backend and key: hits counted in the window
  resetAt,   \* per backend and key: when the window ends
  admitted,  \* history, per backend and key: the callers it let through, each with
             \* the clock and the number of those that an earlier process let through
  since      \* history, per backend and key: how many it had let through when
             \* its counts were last lost

limiterVars == <<count, resetAt, admitted, since>>

Admission == [at : 0..MaxClock, since : Nat]

LimiterTypeOK ==
  /\ clock \in 0..MaxClock
  /\ count \in [Backends -> [LimitKeys -> Nat]]
  /\ resetAt \in [Backends -> [LimitKeys -> Nat \cup {Unset}]]
  /\ admitted \in [Backends -> [LimitKeys -> Seq(Admission)]]
  /\ since \in [Backends -> [LimitKeys -> Nat]]

LimiterInit ==
  /\ clock = 0
  /\ count = [b \in Backends |-> [k \in LimitKeys |-> 0]]
  /\ resetAt = [b \in Backends |-> [k \in LimitKeys |-> Unset]]
  /\ admitted = [b \in Backends |-> [k \in LimitKeys |-> <<>>]]
  /\ since = [b \in Backends |-> [k \in LimitKeys |-> 0]]

\* the bucket is missing, or its window is over
Over(b, k) == clock >= resetAt[b][k]

Counted(b, k) == IF Over(b, k) THEN 0 ELSE count[b][k]

Allows(b, k) == Counted(b, k) < Limit[k]

\* mistake: a window that is over starts the count again and keeps its end
EndKept(b, k) == IF resetAt[b][k] = Unset THEN clock + Window ELSE resetAt[b][k]

End(b, k) == IF Over(b, k) THEN clock + Window ELSE resetAt[b][k]

\* the backends that see the hit, and the one whose answer counts: Redis, or
\* memory when there is no Redis or its answer did not arrive
Routes ==
  IF OnRedis
  THEN {<<{"redis"}, "redis">>, <<{"memory"}, "memory">>,
        <<{"redis", "memory"}, "memory">>}
  ELSE {<<{"memory"}, "memory">>}

\* check: ok says whether the caller is let through
Check(k, ok) ==
  \E route \in Routes :
    LET seen == route[1]
        judge == route[2]
    IN
    /\ ok = Allows(judge, k)
    /\ count' = [b \in Backends |-> [count[b] EXCEPT ![k] =
                  IF b \in seen /\ Allows(b, k) THEN Counted(b, k) + 1 ELSE @]]
    /\ resetAt' = [b \in Backends |-> [resetAt[b] EXCEPT ![k] =
                    IF b \in seen THEN End(b, k) ELSE @]]
    /\ admitted' = [admitted EXCEPT ![judge][k] =
                      IF ok THEN Append(@, [at |-> clock, since |-> since[judge][k]]) ELSE @]
    /\ UNCHANGED since

\* the process starts again with no buckets: memory forgets, Redis does not
Clear ==
  /\ \A k \in LimitKeys : Len(admitted["memory"][k]) <= MaxLost
  /\ count' = [count EXCEPT !["memory"] = [k \in LimitKeys |-> 0]]
  /\ resetAt' = [resetAt EXCEPT !["memory"] = [k \in LimitKeys |-> Unset]]
  /\ since' = [since EXCEPT !["memory"] = [k \in LimitKeys |-> Len(admitted["memory"][k])]]
  /\ UNCHANGED admitted

ClockTick ==
  /\ clock < MaxClock
  /\ clock' = clock + 1
  /\ UNCHANGED limiterVars

-----------------------------------------------------------------------------
\* However hits fall around the ends of windows, no stretch of Window ticks
\* sees more than twice the limit admitted by one backend while it keeps its
\* counts (count, reset_at): two admissions that close have fewer than that
\* many between them.  A restart in the stretch lets in at most one limit more:
\* so many at most come after it, or after the last one if there were several.
SlidingBound ==
  \A b \in Backends, k \in LimitKeys : \A i, j \in DOMAIN admitted[b][k] :
    LET first == admitted[b][k][i]
        last == admitted[b][k][j]
    IN  i <= j /\ last.at - first.at < Window =>
          IF last.since < i THEN j - i < 2 * Limit[k] ELSE j - last.since <= Limit[k]

=============================================================================
