------------------------------ MODULE StdioPool ------------------------------
(***************************************************************************)
(* The pool of stdio clients (mcp_gateway/stdio_pool.py), one per stdio    *)
(* service, with the calls that use it and the admin requests that change  *)
(* or remove services (api/services_crud.py), up to the gateway's shutdown *)
(* (main.py).  Of each client only what the pool can see is kept: whether  *)
(* it has a process, who is starting one, and who is waiting for a         *)
(* response; StdioTransport has the rest.                                  *)
(*                                                                         *)
(* A call creates at most one client and starts at most one process, so    *)
(* both are named after the call.                                          *)
(***************************************************************************)
EXTENDS Naturals, FiniteSets

CONSTANTS
  PoolCalls,     \* requests to stdio services
  Services,
  None,          \* no client, no process, no call, no service
  MaxProcesses,  \* stdio_max_concurrent_processes
  MaxConfig      \* bound: configuration changes per service

ASSUME NoneAssumption         == None \notin PoolCalls \cup Services
ASSUME MaxProcessesAssumption == MaxProcesses \in Nat
ASSUME MaxConfigAssumption    == MaxConfig \in Nat

VARIABLES
  clients,   \* app.state.stdio_clients: service -> client
  poolLock,  \* holder of stdio_clients_lock
  config,    \* per service: number of changes of its stdio signature
  removed,   \* services deleted or set to a status other than active
  closing,   \* services whose removal has still to close the client
  stage,     \* where each call is
  svc,       \* the service a call is for
  sig,       \* the signature the call computed from its copy of the service
  handle,    \* the client a call was given
  awaits,    \* the process whose exit a call waits for in aclose
  result,    \* how a call ended
  current,   \* per client: its _process
  proc,      \* per process: its life
  late,      \* history: calls that held a client when the pool dropped it
  down       \* the gateway has shut down

callVars   == <<stage, svc, sig, handle, awaits, result>>
adminVars  == <<config, removed, closing, down>>
clientVars == <<current, proc, late>>
poolVars   == <<clients, poolLock, callVars, adminVars, clientVars>>

PoolTypeOK ==
  /\ clients \in [Services -> PoolCalls \cup {None}]
  /\ poolLock \in PoolCalls \cup {None}
  /\ config \in [Services -> 0..MaxConfig]
  /\ removed \subseteq Services
  /\ closing \subseteq removed
  /\ stage \in [PoolCalls -> {"idle", "locking", "replacing", "making", "evicting",
                              "holding", "spawning", "writing", "pending", "done"}]
  /\ svc \in [PoolCalls -> Services \cup {None}]
  /\ sig \in [PoolCalls -> 0..MaxConfig]
  /\ handle \in [PoolCalls -> PoolCalls \cup {None}]
  /\ awaits \in [PoolCalls -> PoolCalls \cup {None}]
  /\ result \in [PoolCalls -> {"none", "ok", "failed", "closed", "capacity"}]
  /\ current \in [PoolCalls -> PoolCalls \cup {None}]
  /\ proc \in [PoolCalls -> {"none", "live", "stopping", "gone"}]
  /\ late \subseteq PoolCalls
  /\ down \in BOOLEAN

PoolInit ==
  /\ clients = [s \in Services |-> None]
  /\ poolLock = None
  /\ config = [s \in Services |-> 0]
  /\ removed = {}
  /\ closing = {}
  /\ stage = [c \in PoolCalls |-> "idle"]
  /\ svc = [c \in PoolCalls |-> None]
  /\ sig = [c \in PoolCalls |-> 0]
  /\ handle = [c \in PoolCalls |-> None]
  /\ awaits = [c \in PoolCalls |-> None]
  /\ result = [c \in PoolCalls |-> "none"]
  /\ current = [k \in PoolCalls |-> None]
  /\ proc = [p \in PoolCalls |-> "none"]
  /\ late = {}
  /\ down = FALSE

-----------------------------------------------------------------------------

Pooled == {clients[s] : s \in Services} \ {None}

\* a request whose future is registered: its line is being written, under the
\* client's write lock, or it waits for the response
IsPending(c)  == stage[c] \in {"writing", "pending"} /\ result[c] = "none"
PendingOn(k)  == {c \in PoolCalls : IsPending(c) /\ handle[c] = k}
StarterOf(k)  == {c \in PoolCalls : stage[c] = "spawning" /\ handle[c] = k}
HoldersOf(k)  == {c \in PoolCalls : stage[c] \in {"holding", "spawning"} /\ handle[c] = k}

\* mistake: the clients are dropped and their processes go on
DropClients(S) ==
  LET K == {clients[s] : s \in S} \ {None}
  IN /\ clients' = [s \in Services |-> IF s \in S THEN None ELSE clients[s]]
     /\ current' = [k \in PoolCalls |-> IF k \in K THEN None ELSE current[k]]
     /\ late' = late \cup UNION {HoldersOf(k) : k \in K}
     /\ UNCHANGED proc

\* pop the clients of the services S from the pool and start aclose on each:
\* what is pending fails, the process is told to stop; a client that is still
\* starting its process has none to stop
CloseClients(S) ==
  LET K == {clients[s] : s \in S} \ {None}
      P == {current[k] : k \in K} \ {None}
  IN /\ clients' = [s \in Services |-> IF s \in S THEN None ELSE clients[s]]
     /\ current' = [k \in PoolCalls |-> IF k \in K THEN None ELSE current[k]]
     /\ proc' = [p \in PoolCalls |-> IF p \in P THEN "stopping" ELSE proc[p]]
     /\ late' = late \cup UNION {HoldersOf(k) : k \in K}

\* the stages and results of calls whose futures fail: one that is still
\* writing learns of it when the write returns
FailedBy(S) == UNION {PendingOn(clients[s]) : s \in {t \in S : clients[t] # None}}

StageAfterFailing(D) ==
  [d \in PoolCalls |-> IF d \in D /\ stage[d] = "pending" THEN "done" ELSE stage[d]]

StageAfterClose(S) == StageAfterFailing(FailedBy(S))

ResultAfterClose(S) ==
  [d \in PoolCalls |-> IF d \in FailedBy(S) THEN "closed" ELSE result[d]]

Finish(c, r) ==
  /\ stage' = [stage EXCEPT ![c] = "done"]
  /\ result' = [result EXCEPT ![c] = r]

-----------------------------------------------------------------------------
(* stdio_client_for_config.                                                *)

\* a call reads its service, or the registry's copy of it
Begin(c, s) ==
  /\ stage[c] = "idle"
  /\ ~down
  /\ s \notin removed
  /\ stage' = [stage EXCEPT ![c] = "locking"]
  /\ svc' = [svc EXCEPT ![c] = s]
  /\ sig' = [sig EXCEPT ![c] = config[s]]
  /\ UNCHANGED <<clients, poolLock, handle, awaits, result, adminVars, clientVars>>

\* mistake: the signature is not compared
MatchesService(c) == clients[svc[c]] # None

\* a client is a signature and a transport; both belong to its creator
Matches(c) == clients[svc[c]] # None /\ sig[clients[svc[c]]] = sig[c]

Found(c) ==
  /\ stage[c] = "locking"
  /\ poolLock = None
  /\ Matches(c)
  /\ stage' = [stage EXCEPT ![c] = "holding"]
  /\ handle' = [handle EXCEPT ![c] = clients[svc[c]]]
  /\ UNCHANGED <<clients, poolLock, svc, sig, awaits, result, adminVars, clientVars>>

\* the service's client has another signature: drop it, wait for its process
Replace(c) ==
  /\ stage[c] = "locking"
  /\ poolLock = None
  /\ clients[svc[c]] # None
  /\ ~Matches(c)
  /\ poolLock' = c
  /\ awaits' = [awaits EXCEPT ![c] = current[clients[svc[c]]]]
  /\ CloseClients({svc[c]})
  /\ stage' = [StageAfterClose({svc[c]}) EXCEPT ![c] = "replacing"]
  /\ result' = ResultAfterClose({svc[c]})
  /\ UNCHANGED <<svc, sig, handle, adminVars>>

Missing(c) ==
  /\ stage[c] = "locking"
  /\ poolLock = None
  /\ clients[svc[c]] = None
  /\ poolLock' = c
  /\ stage' = [stage EXCEPT ![c] = "making"]
  /\ UNCHANGED <<clients, svc, sig, handle, awaits, result, adminVars, clientVars>>

\* aclose of the replaced or evicted client returns
ClosedOther(c) ==
  /\ stage[c] \in {"replacing", "evicting"}
  /\ awaits[c] # None => proc[awaits[c]] = "gone"
  /\ stage' = [stage EXCEPT ![c] = "making"]
  /\ awaits' = [awaits EXCEPT ![c] = None]
  /\ UNCHANGED <<clients, poolLock, svc, sig, handle, result, adminVars, clientVars>>

\* mistake: the client to be made is not counted
OverCapacity == Cardinality(Pooled) > MaxProcesses

AtCapacity == Cardinality(Pooled) >= MaxProcesses

\* mistake: a client with requests pending may be evicted
AnyCandidates(c) == {s \in Services \ {svc[c]} : clients[s] # None}

\* services whose client may be evicted for call c
Candidates(c) ==
  {s \in Services \ {svc[c]} : clients[s] # None /\ PendingOn(clients[s]) = {}}

\* which of the idle clients (the least recently used) is left open
Evict(c, s) ==
  /\ stage[c] = "making"
  /\ MaxProcesses >= 1
  /\ AtCapacity
  /\ s \in Candidates(c)
  /\ awaits' = [awaits EXCEPT ![c] = current[clients[s]]]
  /\ CloseClients({s})
  /\ stage' = [StageAfterClose({s}) EXCEPT ![c] = "evicting"]
  /\ result' = ResultAfterClose({s})
  /\ UNCHANGED <<poolLock, svc, sig, handle, adminVars>>

\* -32010
Refuse(c) ==
  /\ stage[c] = "making"
  /\ MaxProcesses < 1 \/ (AtCapacity /\ Candidates(c) = {})
  /\ poolLock' = None
  /\ Finish(c, "capacity")
  /\ UNCHANGED <<clients, svc, sig, handle, awaits, adminVars, clientVars>>

Create(c) ==
  /\ stage[c] = "making"
  /\ ~AtCapacity
  /\ clients' = [clients EXCEPT ![svc[c]] = c]
  /\ poolLock' = None
  /\ stage' = [stage EXCEPT ![c] = "holding"]
  /\ handle' = [handle EXCEPT ![c] = c]
  /\ UNCHANGED <<svc, sig, awaits, result, adminVars, clientVars>>

\* the command is not on the allowlist, which the client's constructor checks
\* after room was made for it
NotAllowed(c) ==
  /\ stage[c] = "making"
  /\ ~AtCapacity
  /\ poolLock' = None
  /\ Finish(c, "failed")
  /\ UNCHANGED <<clients, svc, sig, handle, awaits, adminVars, clientVars>>

-----------------------------------------------------------------------------
(* client.request, as far as the pool can tell.                            *)

UseProcess(c) ==
  /\ stage[c] = "holding"
  /\ StarterOf(handle[c]) = {}
  /\ current[handle[c]] # None
  /\ stage' = [stage EXCEPT ![c] = "writing"]
  /\ UNCHANGED <<clients, poolLock, svc, sig, handle, awaits, result, adminVars, clientVars>>

StartProcess(c) ==
  /\ stage[c] = "holding"
  /\ StarterOf(handle[c]) = {}
  /\ current[handle[c]] = None
  /\ stage' = [stage EXCEPT ![c] = "spawning"]
  /\ UNCHANGED <<clients, poolLock, svc, sig, handle, awaits, result, adminVars, clientVars>>

\* create_subprocess_exec returns; the request is registered at once
Started(c) ==
  /\ stage[c] = "spawning"
  /\ stage' = [stage EXCEPT ![c] = "writing"]
  /\ current' = [current EXCEPT ![handle[c]] = c]
  /\ proc' = [proc EXCEPT ![c] = "live"]
  /\ UNCHANGED <<clients, poolLock, svc, sig, handle, awaits, result, adminVars, late>>

StartFails(c) ==
  /\ stage[c] = "spawning"
  /\ Finish(c, "failed")
  /\ UNCHANGED <<clients, poolLock, svc, sig, handle, awaits, adminVars, clientVars>>

\* a reader fails every pending request, also one whose line is not drained yet
FailsWhileWriting(c) ==
  /\ stage[c] = "writing"
  /\ result[c] = "none"
  /\ result' = [result EXCEPT ![c] = "failed"]
  /\ UNCHANGED <<clients, poolLock, stage, svc, sig, handle, awaits, adminVars, clientVars>>

\* drain() returns, or fails because the process is gone: no time limit is on it
DrainEnds(c) ==
  /\ stage[c] = "writing"
  /\ stage' = [stage EXCEPT ![c] = IF result[c] = "none" THEN "pending" ELSE "done"]
  /\ UNCHANGED <<clients, poolLock, svc, sig, handle, awaits, result, adminVars, clientVars>>

\* a response, the timeout, or a transport failure
RequestEnds(c) ==
  /\ stage[c] = "pending"
  /\ \E r \in {"ok", "failed"} : Finish(c, r)
  /\ UNCHANGED <<clients, poolLock, svc, sig, handle, awaits, adminVars, clientVars>>

\* a process dies and its client notices
Crash(p) ==
  /\ proc[p] = "live"
  /\ proc' = [proc EXCEPT ![p] = "gone"]
  /\ current' = [k \in PoolCalls |-> IF current[k] = p THEN None ELSE current[k]]
  /\ LET failed == PendingOn(handle[p]) IN
       /\ stage' = StageAfterFailing(failed)
       /\ result' = [d \in PoolCalls |-> IF d \in failed THEN "failed" ELSE result[d]]
  /\ UNCHANGED <<clients, poolLock, svc, sig, handle, awaits, adminVars, late>>

\* a stopped process exits
Exit(p) ==
  /\ proc[p] = "stopping"
  /\ proc' = [proc EXCEPT ![p] = "gone"]
  /\ UNCHANGED <<clients, poolLock, callVars, adminVars, current, late>>

-----------------------------------------------------------------------------
(* Admin requests and the end of the gateway.                              *)

\* PATCH of the command, arguments, environment or directory: the pool is not
\* told
Reconfigure(s) ==
  /\ ~down
  /\ config[s] < MaxConfig
  /\ config' = [config EXCEPT ![s] = @ + 1]
  /\ UNCHANGED <<clients, poolLock, callVars, removed, closing, down, clientVars>>

\* DELETE, or PATCH to another status or transport: first the database ...
Remove(s) ==
  /\ ~down
  /\ s \notin removed
  /\ removed' = removed \cup {s}
  /\ closing' = closing \cup {s}
  /\ UNCHANGED <<clients, poolLock, callVars, config, down, clientVars>>

\* ... then close_stdio_client_for_service, which waits for the pool's lock
CloseForService(s) ==
  /\ s \in closing
  /\ poolLock = None
  /\ closing' = closing \ {s}
  /\ CloseClients({s})
  /\ stage' = StageAfterClose({s})
  /\ result' = ResultAfterClose({s})
  /\ UNCHANGED <<poolLock, svc, sig, handle, awaits, config, removed, down>>

\* the server has drained its requests; lifespan closes the pool's clients
Shutdown ==
  /\ ~down
  /\ closing = {}
  /\ \A c \in PoolCalls : stage[c] \in {"idle", "done"}
  /\ down' = TRUE
  /\ CloseClients(Services)
  /\ UNCHANGED <<poolLock, callVars, config, removed, closing>>

-----------------------------------------------------------------------------

Acquire(c)  == Found(c) \/ Replace(c) \/ Missing(c)
Make(c)     == Create(c) \/ NotAllowed(c) \/ Refuse(c) \/ \E s \in Services : Evict(c, s)
Request(c)  == UseProcess(c) \/ StartProcess(c)
StartEnds(c) == Started(c) \/ StartFails(c)

PoolNext ==
  \/ \E c \in PoolCalls :
       \/ \E s \in Services : Begin(c, s)
       \/ Acquire(c)
       \/ ClosedOther(c)
       \/ Make(c)
       \/ Request(c)
       \/ StartEnds(c)
       \/ FailsWhileWriting(c)
       \/ DrainEnds(c)
       \/ RequestEnds(c)
       \/ Crash(c)
       \/ Exit(c)
  \/ \E s \in Services : Reconfigure(s) \/ Remove(s) \/ CloseForService(s)
  \/ Shutdown

\* Every ready task runs, a start ends, a request that waits for its response
\* ends by its timeout, and a process that is told to stop exits (in the end it
\* is killed).  With finitely many calls the pool's lock is in the end free for
\* whoever still waits, so weak fairness is enough.
PoolFairness ==
  /\ \A c \in PoolCalls :
       /\ WF_poolVars(Acquire(c))
       /\ WF_poolVars(ClosedOther(c))
       /\ WF_poolVars(Make(c))
       /\ WF_poolVars(Request(c))
       /\ WF_poolVars(StartEnds(c))
       /\ WF_poolVars(RequestEnds(c))
       /\ WF_poolVars(Exit(c))
  /\ \A s \in Services : WF_poolVars(CloseForService(s))

\* Every child keeps reading its stdin, or dies.  The code does not ensure it: the
\* write is outside the request's timeout (proxy/stdio.py:227-246).
ChildrenRead == \A c \in PoolCalls : WF_poolVars(DrainEnds(c))

PoolSpec     == PoolInit /\ [][PoolNext]_poolVars
PoolFairSpec == PoolSpec /\ PoolFairness /\ ChildrenRead

-----------------------------------------------------------------------------
(* Properties.                                                             *)

\* The pool never holds more clients than the configured maximum
\* (ensure_stdio_client_capacity_locked), across the waits inside the lock.
PoolWithinLimit == Cardinality(Pooled) <= MaxProcesses

\* A call is only ever given a client made for its own service and its own
\* copy of the configuration.
ServedAsConfigured ==
  \A c \in PoolCalls : stage[c] \in {"holding", "spawning", "writing", "pending"} =>
    /\ handle[c] # None
    /\ svc[handle[c]] = svc[c]
    /\ sig[handle[c]] = sig[c]

\* Every running process is the one its client knows, and its client is in
\* the pool, so that eviction, removal and shutdown can find it -- except
\* when the pool dropped the client under a call that held it and had not
\* registered its request.
LiveProcessIsFindable ==
  \A p \in PoolCalls : proc[p] = "live" =>
    /\ current[handle[p]] = p
    /\ handle[p] \in Pooled \/ p \in late

\* Making room never fails a request of another service.
EvictionSparesPending ==
  [][\A c \in PoolCalls, s \in Services : Evict(c, s) =>
       \A d \in PoolCalls : IsPending(d) => IsPending(d)']_poolVars

\* Every call ends, provided that the children read what they are sent: nobody
\* keeps the pool's lock, also not while waiting for a process to exit, and no
\* call is forgotten by a replacement, an eviction, a removal or a crash.
CallEnds == \A c \in PoolCalls : stage[c] # "idle" ~> stage[c] = "done"

=============================================================================
