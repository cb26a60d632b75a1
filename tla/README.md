# CoreMCP, specified in TLA+

CoreMCP is a personal MCP gateway: one FastAPI process on one asyncio event
loop, with one SQLite file behind one `aiosqlite` connection. AI clients speak
MCP to it at one endpoint; it offers them the tools of many downstream MCP
servers, which it reaches over HTTP or as child processes over stdin/stdout,
and an owner administers it through a JSON API and a web console.

This directory specifies the parts of it in which several things happen at
once: TLA+ modules translated from the source (under `src/apps/api/coremcp/`
unless a path says otherwise), TLC configurations that check them on small
instances, and TLAPS proofs of the most important properties for every
instance. `PROJECT.json` lists the components, the hazards, the runs, and for
every definition the lines of code it stands for.

## 1. Inventory

Two rules of this program shape every module.

*The event loop is the unit of atomicity.* Whatever a coroutine does between
two `await`s that can pause, no other coroutine can interrupt; whatever it read
before may be stale after. There are three locks (the stdio pool's, and the two
of each stdio transport). Everything else relies on this rule.

*Nothing rolls back.* All handlers share one database connection. A statement
is visible to everybody at once, whoever commits next commits everybody's
statements, and a stop of the process goes back to the last commit. No code
path calls `rollback`.

### Parts with interesting state

| Component | Code | State | Operations | What makes it hard | What makes it correct |
|---|---|---|---|---|---|
| Circuit breaker | `proxy/circuit_breaker.py` | per service: closed/open/half-open, failure count, time of opening | `before_request`, `record_success`, `record_failure` | outcomes arrive long after admission, of calls admitted in another state; health probes record outcomes unasked | no call passes that the latest outcomes block |
| Credentials, vault, downstream sessions, HTTP calls | `credentials/vault.py`, `db/repository_credentials.py`, `api/services.py`, `mcp/session_proxy.py`, `proxy/downstream.py`, `main.py` | active row, secrets, session ids | put, rotate, delete; a call through row, secret, session id and body | two administrators at once; a call prepared across a change | an active row has its secret; a change ends the sessions stored before it; an undisturbed call carries the secret, if its header is forwarded |
| Stdio transport | `proxy/stdio.py` | child process, reader task, futures by JSON-RPC id, two locks | `request`, `_ensure_started`, `_stop_process`, `_record_process_failure`, `_read_stdout_loop`, `aclose`, `reap_idle` | start, restart, crash, end of file, timeout, cancellation and close interleave; ids come from callers | a response reaches its own request, or one that shares its id; nothing is forgotten or left unread; requests return |
| Stdio pool | `mcp_gateway/stdio_pool.py`, `api/services_crud.py` | client per service, one lock | lookup, replacement, capacity and eviction, removal, shutdown | the lock is held across waits for a process to exit; clients are dropped under calls that hold them | at most N clients; the right configuration; every process findable; calls end |
| Tool listing and calling | `mcp/tools_handlers.py` | registry (copy of the catalog), in-flight table | `tools/list`, `tools/call`, `refresh_tools`, forwarding of cancellations | a refresh stores what it read before an await; the registry is read twice | a blocked tool is not called once the change is published; a known tool is found |
| Idempotency cache | `mcp_gateway/idempotency.py` | finished replies by caller, tool and the client's key | `get`, `set`, `clear`, expiry | filled after awaits, cleared meanwhile | a blocked tool's reply is returned only after one race |
| Catalog changes | `api/services.py`, `api/toolboxes.py`, `api/services_crud.py`, `main.py` | overrides, toolbox items, service status | presets, overrides, items, status; `_publish_list_changed` | several statements per change; two requests publish out of order | copies agree with the catalog except while a change is unpublished |
| Services, validation, jobs, probe | `main.py`, `db/repository_services.py`, `db/repository_catalog.py`, `db/repository_jobs.py`, `mcp_gateway/health_probe.py` | status, tools, resources, jobs | `validate_service`, patch, delete, probe, the reaper of jobs | two validations; the shadow policy between awaits; stops between statements | a failed validation keeps the service; nothing stays `validating`; a job tells how it ended; one service per uri |
| OAuth grants | `auth/oauth.py`, `api/oauth.py`, `db/repository_credentials.py` | codes, refresh families, revocations, signing keys | exchange, rotate, replay, revoke, verify, start | replays and overlapping rotations; stops between statements | one working token per family; a code grants once; a withdrawn token stays out |
| OAuth clients, rate limits | `auth/oauth.py`, `auth/rate_limit.py` | client rows, metadata cache, windows per key | register, resolve, fetch; `check` on both backends | window edges, failover in the middle of a window, documents that go bad | at most twice the limit in a window's length; a client with a row is resolved from it |
| Client access | `api/connections.py`, `auth/client_tokens.py`, `db/repository_connections.py` | one-time tokens, connections, access tokens | issue, exchange, revoke, verify | a commit of anybody in between, stops | a ticket opens one connection; what was handed out is on disk; what was revoked stays out |
| list_changed events, client sessions | `mcp_gateway/events.py`, `api/mcp_endpoint.py`, `mcp_gateway/sessions.py`, `mcp_gateway/reaper.py` | ring, queue per stream, session table | publish, subscribe with `Last-Event-Id`, emit; initialize, POST, DELETE, reap | full queues, reconnects, restarts of ids; expiry against use | order, no repetition, no silent gap; a session in use stays |
| Demo servers | `src/apps/demo-mcp-suite` | eight sets of records | all their tools | long sequences of calls; repeated calls of tools called idempotent | lists agree with records; hints are true, with one exception |

### Parts without it

MCP dispatch is a table. Resources and prompts read the database on every
request. The audit log is appended to and never read back to decide anything.
Tool naming and schema comparison are pure functions. Settings, schemas, the
CLI wrappers, the web console, installation scripts and the companion servers
are configuration, presentation, or programs of their own that only read.

### How the parts interact

`tools/call` asks the idempotency cache, then the registry (refreshing it from
the catalog on a miss), then the permission, the plugins, the rate limit and
the breaker; it enters the call in the in-flight table, reads the service's
credential and obtains a transport (for stdio, from the pool, which may evict
another service's client), sends the request, removes the entry, records the
outcome with the breaker, and caches the reply. An admin request writes the
catalog or a credential in one or more statements, forgets downstream sessions,
and at its end `_publish_list_changed` empties registry and cache and puts
events into the ring and the open streams. A cancellation looks the call up in
the in-flight table by its JSON-RPC id and sends a one-way request through the
same transport, giving up after two seconds. Health probes record outcomes with
the breaker, may turn a service active again, and start a validation when they
find the tools changed. `/mcp` lets in whoever presents an access token of
client access or one that the OAuth server signed.

## 2. The modules

### CircuitBreaker, BreakerPromise

`CircuitBreaker` keeps the entry of `proxy/circuit_breaker.py` per service and
has one action for each way a caller uses it: `Dispatch` is `before_request`
letting a call through, `Succeed`/`Fail`/`Abandon` are the outcomes a call
records (`mcp/tools_handlers.py`), `ProbeSucceeds`/`ProbeFails` those of a
health probe, `Tick` is time. The methods are atomic, because they do not
await; what interleaves is admission and outcome. `streak` and `lastFailure`
are history variables: the failures since the last success, and when the latest
came.

`BreakerPromise` is the abstract specification. It has no breaker state at all,
only the history, and refuses a call exactly while at least `FailureThreshold`
failures came in a row and the latest is less than `Cooldown` old.
`PromiseKept` says that `CircuitBreaker` implements it; the refinement mapping
is the identity on the shared variables. It bounds what is let through;
`RefusesOnlyBlocked` adds that nothing else is refused.

### DownstreamCalls

The composition of `CircuitBreaker`, which it EXTENDS, with a service's
credential and its downstream session. Every action that asks the breaker or
records an outcome is an action of `CircuitBreaker` with more to it (`Ask` is
`Dispatch`, `Answered` is `Succeed`, and so on), so the breaker's promise is
stated of the whole.

| Action | Code |
|---|---|
| `Ask`, `ReadRow`, `Send` | breaker's gate, the SELECT of the credential, and secret and session id into the headers |
| `HeadersArrive`, `Answered`, `Failed`, `LeftUncounted` | session id stored or forgotten, body read, outcome recorded or not |
| `OtherAnswered`, `ProbeAnswered`, `ProbeFailed` | requests of other kinds and the probe |
| `PutSecret`, `RevokeOthers`, `InsertRow`, `InsertFails`, `DropPrevious`, `DropSecret`, `RevokeRow`, `Finish` | put, rotate and delete, by statement; the vault is used without pause |
| `WriteService`, `Finish` | a patch of the endpoint |

A secret reaches the request only if its row gives a header that
`downstream.py` lets through; `Headers` are the secret_refs of such rows. The
session id of an answer is stored whenever it comes, also when its request was
prepared before the last change. `stands` remembers that: an id is `fresh`,
`outdated` (stored before the change) or `late` (stored after it by what was
prepared before it). `given`, `stands`, `behind`, `changed` and `calm` are
history.

### StdioTransport

One `StdioMcpTransport`. Each action is a piece of code between two awaits:

| Action | Code |
|---|---|
| `UseRunning`, `StopBeforeRestart`, `StartFresh`, `StoppedBeforeRestart`, `Spawn`, `SpawnFails` | `_ensure_started` under `_start_lock` |
| `WriteLine`, `Drained`, `WriteBroken`, `FailureRecorded` | the write and `drain()` under `_write_lock`, and `_record_process_failure` |
| `AwaitReturns`, `TimeOut` | `asyncio.wait_for` on the future |
| `GiveUp` | a one-way request cancelled after two seconds by its caller (`main.py`) |
| `ReadResponse`, `ReadGarbage`, `ReadEof`, `ReadFails`, `ReaderEnds` | the reader task; `ReadFails` is an error of `readline` with the child alive |
| `Aclose`, `ReapIdle` | the owner |
| `Die`, `NoticeExit`, `Kill` | the child; the loop setting `returncode`; the SIGKILL at the end of `_wait_for_exit_or_terminate` |

The death of the child, the setting of `returncode`, and end of file on its
stdout are three steps, in the orders the operating system allows, because the
code tests them in different places. A child that is asked to terminate may exit
(`Die`) or not; then it is killed, and `returncode` is set later. A child
that closes its stdout is taken to close its stdin too, as an exit does.
`oneway` are the requests made with `expect_response=False`. A process is named
after the request that started it (a request starts at most one). `on` is the
process a request captured; `unread` are requests a child has received and not
answered; `answer` says whose response a request was given, and `before` is
history: the requests under the same id that were still under way when a request
registered.

### StdioPool

The pool, with calls (`Begin` ... `RequestEnds`) and admin requests
(`Reconfigure`, `Remove`, `CloseForService`, `Shutdown`). Of each client it
keeps what the pool can see: its process, who is starting one, who is waiting
for a response. `writing` is the time in `drain()`, which no timeout covers, and
`pending` the wait for the response, which one does. The pool's lock is
explicit, as are the waits inside it (`replacing`, `evicting`). `stage` is how
far a call is; names that `StdioTransport` has too begin with `Pool`
(`PoolInit`, `PoolNext`, `PoolCalls`), so that one module can prove things about
both. Which idle client is evicted is left open, which includes the least
recently used. `late` is a history variable: calls that held a client without
being registered when the pool dropped it.

### ToolGateway

`tools/list`, `tools/call`, the registry, the idempotency cache, the in-flight
table, and everything that changes the catalog. All SQL goes through one
connection whose thread runs statements in order and hands replies back in
order. So a statement and the piece of handler its reply resumes are one
action, the turn of the actor at the head of `db`. What happens between two
statements of one handler, of several handlers, and around them, is then every
interleaving the code has.

- A request goes `idle` → `reading` → `fetching` (rows read, registry not set:
  the await on unavailable services) → `rechecking` (registry set; the await
  that ends `refresh_tools`) → the second lookup. `falling` is the fallback to
  the demo server when the catalog is empty.
- A call then goes `permitted` → `sent` → `answered` → `done`, with an action
  for every exit: `Deny`, `Unknown`, `Refuse`, `Unreachable`, `Failed`,
  `Withheld`, `Store`, `Replay`, and `Escape`, the error that no handler
  catches.
- An admin request is `writing` for each statement; a preset returns there for
  each tool; a validation waits for the service in between (`asking`) and may
  break off there with an error that no handler catches (`ValidationBreaks`).
  `finishing` is the time between its last write and `_publish_list_changed`.
  `Misdirected` requests change an item of another toolbox and are refused
  after that; `Probes` recover a service; neither publishes.

`touched`, `dirty`, `late`, `steady`, `disturbed` record who changed what,
`overlapped` which calls met another one under their id, and serve the
properties; only `touched` also steers a preset. `IdOf` is any assignment of ids
to calls: clients choose them. The tools of a
service are a fixed set here, and one toolbox is modelled: `refresh_tools`
always reads the default one.

### ServiceRegistry

`validate_service` statement by statement, with the job that reports it. A
validation goes `created` → `read` → `marked` → `answered` (the service's
answer) → `wipedTools` → `toolsIn` → `rows`/`writing`/`stored` (one resource
after another: look up, then UPDATE or INSERT) → `claimed` → `replaced` →
`judged` → `active` → `claimedAgain` → `told` → `done`; the branches for a
service that is gone, a downstream error (`failing`), unsafe metadata and an
INSERT that fails leave from there. `AnswerBreaks` is an error while the body of
one of its five answers is read; like the failed INSERT it ends the validation
where it is (`BreakOff`). `Decide` and `Deprecate` are the two halves
of the shadow policy, which `repository_catalog.py` runs at the replacement and
again when the service becomes active. `Patch`, `Delete`, `ProbeAnswered` and
`ReapJob` are everybody else; `OtherCommit` is any commit of any request;
`Stop` restores `disk`. `alone`, `sound`, `cut`, `calm` and `outcome` are
history: whether another validation of the service ran beside this one, whether
it started from an active service with tools, which services had a validation
cut short and none ended since, whether validations only followed one another so
far, and how a validation ended. A PATCH may set any text as a status; the model
has the two that the code asks about, `active` and one that is not.

### OAuthGrants, TokenChain

Authorization codes, refresh families, access tokens and signing keys, where a
statement with its commit is one step and a request pauses after it. `Consume`,
`Connect`, `IssueFirst` are the exchange of a code; `Find`, `Rotate`,
`IssueNext`, `Reread`, `RevokeFamily` a refresh, with the branch on a rotation
that came too late; `Decode`, `Purge`, `LookUp`, `Serve` a verification;
`StoreKey`, `RecordKey`, `LoadKey` the start of the process, `Stop` its end at
any step. `RevokeAccess` overwrites the row of the token's jti with the end that
the presented text gives, which is any of `Says`; `NoteRevocation` keeps in
`withdrawn` the tokens whose latest revocation reaches to their end. What a
token must match besides (client, resource, PKCE, redirect) changes nothing and
is left out.

`TokenChain` is the abstract specification: each family is a baton that one
token holds, or that is moving, or gone; a token that handed it over never gets
it back. `ChainKept` is the refinement: the baton of a family is computed from
the rows and from which requests are between the two statements of a rotation.

### OAuthClients, RateLimiter

`RateLimiter` has the two limiters as one step each (`Check`, in which Redis may
count the hit and then fail, so that the memory of the fallback counts it too);
`OAuthClients` EXTENDS it with the requests that pass it: `Register` is DCR,
`Resolve`, `AskLimiter`, `ReadCache`, `Fetch`, `StoreRow`, `StoreCache` resolve
a client id that is a URL; `Publish` changes the document at that URL or makes
it one that is refused, `Restart` empties the memory's buckets. `admitted` and
`since` are history and survive it: per backend and key, who was let through at
what time, in order, and how many of them before the counts were last lost.

### ClientAccess

One-time tokens, connections and access tokens with the tables `db` and what of
them is on `disk`. `Consume`, `Claim`, `Open`, `Opened`, `InsertPat`, `Deliver`
are the exchange; `AskToken` and `CheckActive` another token for a connection;
`Disconnect`, `CutTokens`, `Disconnected`, `RevokePat`, `PatRevoked` the
revocations; `Match`, `Serve` a request to `/mcp`. Each statement is a step and
so is each commit, because another request's commit may come between.

### EventStream

`PublishListChanged` and `PublishNotification` put events into the ring and the
queues, `Reconnect` subscribes with the last id seen or with none, `Emit` takes
an event from the queue, yields it, and may lose it with the connection;
`Restart` starts ids again. Nothing makes a stream go on: a reader that keeps
its connection and reads nothing may hold a yield for ever. `Initialize`,
`Post`, `Delete`, `ReaperTick` keep the session table. `presented`, `sent`,
`joined`, `used` are history.

### DemoServers

The eight servers of the demo suite. They share nothing, so a behaviour is that
of one of them, chosen at the start. Every tool that changes records is an
action; what the reading tools answer is stated as operators on the records
(`BookmarkSearch`, `LedgerSummary`, `NoteSearch`, `OpenAlerts`, ...). Totals are
the community modules' sums over a set. A task has the length of its activity
log (`MaxActivity` bounds it), and its `updated_at` moves with it. `HintKept`
says what one step may do by the hints of the tool it runs.

### MC modules

`MCDownstreamCalls`, `MCStdioTransport`, `MCStdioPool`, `MCToolGateway`,
`MCOAuthGrants`, `MCOAuthClients`, `MCClientAccess` and `MCEventStream` only
name model values, assignments of ids, tools and keys to calls, and symmetry.
The other two runs use their modules directly. Definitions whose
comment begins with "mistake:" (`SuccessKeepsCount`, `PostReapsFirst`, ...) are
part of no specification: they are plausible bugs, each of which breaks the
property `PROJECT.json` lists it with.

## 3. The runs

| Run | Question | Properties |
|---|---|---|
| `DownstreamCalls_safety` | Do breaker, credentials and sessions stay consistent under calls, probes and two overlapping administrators? | `SecretBehindRow`, `ChangeEndsSession`, `CalmCallCarriesSecret`, `PromiseKept` |
| `StdioTransport_routing` | Of three requests of which two share an id, are responses routed and registrations kept, and what can the shared id take away? | `PendingIsWanted`, `WantedIsPending`, `OwnAnswer`, `NoUnreadWait` |
| `StdioTransport_returns` | With a shared id and a one-way request that is cancelled, is every process accounted for, does each request return, and does each stopped process exit? | `NoStrayProcess`, `RequestReturns`, `StoppedProcessExits` |
| `StdioPool_calls` | Is the limit kept, the right configuration served, every process findable, does eviction spare waiting requests, and does every call end although the lock is held while processes exit, if children read? | `PoolWithinLimit`, `ServedAsConfigured`, `LiveProcessIsFindable`, `EvictionSparesPending`, `CallEnds` |
| `ToolGateway_changes` | With two admin requests at once, is a published change final, and is every change published but that of a validation which breaks off? | `RegistryIsCurrent`, `BlockedIsDenied`, `ChangesArePublished` |
| `ToolGateway_staleness` | When may a cached reply, the registry and the in-flight table disagree with the catalog and the running calls, which share an id? | `ReplyStaleOnlyByRace`, `KnownToolIsFound`, `CancelFindsItsCall`, `InflightIsRunning` |
| `OAuthGrants_safety` | Do codes, families, revocations and the tables survive overlap, replay and stops? | `OneHolder`, `CodeGrantsOnce`, `WithdrawnStaysOut`, `ChainKept` |
| `OAuthClients_safety` | How much does a fixed window let through, also around restarts, and what can still go wrong with a client that has its row? | `SlidingBound`, `SettledForGood` |
| `ClientAccess_safety` | Does a ticket open one connection, and is what was handed out on disk? | `TicketOpensOne`, `DeliveredIsDurable` |
| `EventStream_streams` | Do streams deliver in order, once, without silent gaps, and do sessions in use stay? | `InOrderOnce`, `MissesOnlyOld`, `UsedSessionStays` |
| `ServiceRegistry_safety` | Do status, jobs and shadow policy agree with how validations ended? | `FailureKeepsActive`, `NothingStaysValidating`, `JobTellsOutcome`, `CalmKeepsUri` |
| `DemoServers_records` | Do lists agree with records, and are the tools' hints true but for `task_update_status`? | `ReadersAgree`, `HintsAreKept` |

All of them hold. Safety runs use a specification without fairness, liveness
runs one with it. Deadlock checking is off where every request may have ended,
which is where the model stops.

### Bounds

- *DownstreamCalls*: 1 service, 1 call, 2 administrators' requests, 2
  secret_refs of which one gives a header that is forwarded, threshold 2,
  cooldown 1, `MaxNow` = 1, `MaxStreak` = 3. Two
  failures open a circuit, a trial follows the cooldown, a third failure arrives
  late; two secrets are what a put and a rotate replace one another with.
  Services share nothing but the clock, so one is enough; the proofs are for
  any number.
- *Transport*: `routing` has 3 requests, two of them with one id: one starts the
  process, one finds it, one restarts it. `returns` has 2 requests with one id,
  of which one may be one-way and is then cancelled after its two seconds.
  `MaxStarts` = 2 processes are started; what tries later fails to. Each request
  can be the one that is starting, writing, waiting or failing while another is
  anywhere else.
- *Pool*: 2 services, room for 1 client, 2 calls, one configuration change per
  service (`MaxConfig`). A call for the other service has to evict, and a call
  finds a client of the configuration before.
- *Gateway*: 2 calls with one tool, one `Idempotency-Key` and one JSON-RPC id
  and two admin requests in `staleness`; 1 call, 1 list and two admin requests
  in `changes`. `staleness` has a second tool, so that a preset writes two rows
  and a status change touches two. Its second admin request never publishes. Two
  refreshes and two changes are the least with which publications can overtake
  each other and stale rows can meet them.
- *OAuthGrants*: 2 requests, 1 code, 3 pairs (a family of three, or two
  families), 2 keys, lifetimes of one tick for codes and access tokens and none
  for refresh tokens, `MaxNow` = 1, `Says` = {1, 2}: a revocation that ends with
  the token, before it, or after it. So everything can expire, and two requests can
  rotate, replay and verify the same token.
- *OAuthClients*: 1 address with limit 1, windows of 2 ticks, `MaxClock` = 4: two
  windows with hits at their ends; the process restarts while memory has let no
  more than `MaxLost` = 2 through, so several times in one window and after it;
  2 requests, 1 registered client, 1 document whose version may change once
  (`MaxVersion`) and go bad; a cache of 2 ticks, shorter than the time.
- *ClientAccess*: 2 requests, 1 ticket, 2 connections, 2 access tokens: the
  ticket can be asked for twice, and the second connection is there to be opened.
- *EventStream*: 1 client, 2 categories and progress, a ring of 2 and queues of
  2 (`QueueSize` is never below the ring's), 4 events per process (`MaxEvents`),
  one restart (`MaxLives`), 1 session with an idle time of 1, `MaxNow` = 2. Four
  events overrun ring and queue twice. Streams share only the ring.
- *ServiceRegistry*: 2 services that list one uri, one of them validated by an
  earlier process, 2 validations of which one has a job, `MaxEvents` = 2 admin
  changes, probe answers and stops. Two validations are the least that overlap,
  of one service or of two.
- *DemoServers*: `MaxNumber` = 4 records, two or more created besides the
  fixtures, so that one is deleted or archived among others; `MaxActivity` = 3
  entries of a task's log, so that a call can be repeated.

### Fairness

- *Transport*: `LoopFairness`: a ready task is run by the loop, timers fire
  (`wait_for` in `request`, in `_wait_for_exit_or_terminate`), and end of file is
  read. `KillIsFinal`: a child that was sent SIGKILL exits and the loop is told;
  one that was only asked to terminate may stay. `ChildReads` is an assumption
  on the child, not on the code: that `drain()` returns needs a child that reads
  or dies. `FairSpec` has all three. No request has to come, no child has to
  answer or crash. A request counts as started when it has the start lock's turn.
- *Pool*: `PoolFairness`: waiting calls take the lock when it is free, starts end
  with the operating system's answer, a wait for a response by its timeout,
  stopped processes exit, a removal goes on to close the client. `ChildrenRead`
  is `ChildReads` for the pool's children, separate for the same reason: the
  write is outside the timeout. Weak fairness is enough, since finitely many
  calls compete for the lock. Nothing forces crashes, removals or new calls.
- *Gateway*: a handler that has begun goes on; the database answers; a
  downstream request ends, at the latest by its timeout, or for stdio under the
  assumption above. Nothing forces requests, expiry or notifications.
- *EventStream* has none. The loop of a stream is held up by a reader that keeps
  its connection open and does not read (`api/mcp_endpoint.py:86-90`), so that
  an event is ever sent is not something the code promises.

## 4. Proofs

Proofs hold for every value of the constants that satisfies the named
assumptions of the modules (finite or infinite sets of requests, any assignment
of ids, shared or not, any threshold and cooldown, any size of ring and queue,
any limit and window). They are in the eight modules named `..._proofs`. Every
invariant and every action property that a run checks, and both refinements, are
stated by a theorem; what is left to TLC is at the end of this section. The type
invariants are `TypeOK`, `CallsTypeOK` (DownstreamCalls), `PoolTypeOK`
(StdioPool) and `ClientsTypeOK` (OAuthClients).

**DownstreamCalls_proofs, the breaker.** `EntryMirrorsHistory` alone is not
inductive: that an open circuit's cooldown started at the latest failure and has
passed in half-open needs to know that the latest failure is in the past
(`HistoryIsPast`). `BreakerInv` is their conjunction with `TypeOK`;
`AdmitKeeps`, `SuccessKeeps` and `FailureKeeps` are the lemmas about the three
methods, one per method instead of one per caller, and `BreakerStep` puts the
callers together. `RejectsIffBlocked` uses the invariant to show that the
breaker refuses exactly what `BreakerPromise` blocks; `RefusesNoOther` is one
half of that, and with the other `StepMaps` maps every step to a step of the
promise or a stutter, and `KeepsPromise` follows.

**DownstreamCalls_proofs, the composition.** `BreakerSteps` shows that every
step of the composition is a step of the breaker or leaves it alone, so
`CallsKeepPromise` is inherited. `RefInv` follows a secret_ref: given out once,
waiting with the request that stored it (`PendingInv`), active for one service
(`RowsInv`), and once replaced never back (`SeenInv`), from which dropping the
previous secret cannot hit an active row (`SecretsBehindRows`). `CalmInv` says
that beside a calm call nobody is at work on its service. `ForgetPending` says
which request will still forget an outdated session; the case that decides it is
a put that has revoked the row and will fail to insert its own. It says nothing
of a late session, which nobody is there to forget; the next change makes it
outdated.

**Stdio_proofs, the transport.** No assumption on ids is needed for `TypeCorrect`,
`NoPendingLeak` (a registered future belongs to a request that still wants it),
`ResultsFinal` (by that, late readers and failures only touch unfinished
requests), `LocksCorrect` and `ProcessesAccountedFor`. The last rests on
`StartInv`, whoever holds the start lock sees no process until it has made one,
and `FailingOnDead`, writes fail only on dead processes; from these, a start
never displaces a process or a reader (`NoStrayProcess`, `CurrentIsRead`).
`ResponsesRouted`, `RegistrationsKept` and `WaitsAreServed` need none either:
they say what a shared id can do. What decides the routing is `SharersKnown`:
whoever waits under an id has in `before` every other request of that id that is
still under way, so the response a reader hands out is its own or one of theirs.
Who has lost its entry is in somebody's `before` for good (`DisplacedStays`). A
stop that cancels a reader also fails
what it would have answered, unless it was displaced, and then it has only its
timeout.

**Stdio_proofs, the pool.** `PoolInv` is `PoolTypeOK` with `CallInv` (what a
client was made for does not change), `LockInv` (whoever makes room holds the
lock, and its service has no client), `StartInv` (one starter at a time, and a
process was started for its client) and `HoldInv` (a call finds its client in
the pool, or is late). Replacement, eviction, removal and shutdown all drop
clients with `CloseClients`, so they are one lemma, `CloseKeeps`, on what it
does (`CloseEffect`). `LimitKept` then needs only that the one action that adds
a client checks the capacity in the same step, with the lock.

**ToolGateway_proofs.** `RegistryIsCurrent` is not inductive: a request may hold
rows from before a change and store them later. What saves it is the order of
the database's queue. `QueueInv` says that exactly the actors who wait for the
database stand in `db`, each once; `RowsInv`, that a request whose rows differ
from the catalog stands ahead of an admin request that touched the tool, or that
change is never published (`SilentInv` describes those authors). A change sends
its author back behind every refresh that is reading (`Rejoins`), and the place
is kept while others move (`BeforeKept`); so stale rows reach the registry while
their author has yet to publish, and its publication removes them
(`RegistryStep`). The moves of the queue are treated once, as shapes (`Same`,
`Joined`, `Stayed`, `Left`), and what a step of a request or of an admin request
may change once, as `RequestEffect` and `AdminEffect`; the invariants then need
no split into the thirty actions, except `SteadyInv` for a call's own steps. A
validation that breaks off leaves its mark as a change whose author is at
`broken` and never publishes. `BlockedDenied` follows from `RegistryCurrent`,
since a call gets past the permission check only on the registry's word.
`RepliesStaleOnlyByRace` and `KnownFound` use the same effects.
`InflightRunning` and `CancelFinds` hold for any assignment of ids: a call whose
entry is gone met another call of its id (`overlapped`).

**OAuth_proofs, grants.** `RequestInv` ties each request to the rows it was given.
`ChainInv` strengthens `OneHolder`: rows that do not exist are untouched, a
family is named by its first row, and a family revoked while nobody rotated in
it is dead. `RefreshShape` sorts the steps into the four kinds that touch
refresh tokens; a step that only lets tokens and rotations go keeps everything
(`FadingKeeps`). `CodeInv`, `AccessInv` and `KeyInv` do the same for the other
tables; `AccessInv` says that a revocation's row outlives the token it is for as
long as the latest one reached to the token's end.
`ImplementsTokenChain` is the refinement: `BatonFacts` states what the baton is
in each case, and `ChainMaps` maps every step to a step of `TokenChain`.

**OAuth_proofs, clients and limiter.** `ClientsSettle` is a property of steps:
`Resolve` looks at the row first, so nobody asks for the document of a client
that has one, and of those who asked before none is left. `SlidingBound` speaks
of any stretch of a window's length, the code only of its own windows, and it
forgets a window as soon as the next begins. The invariant therefore has the
admissions of a bucket split in three (`Splits`): those of the window in force,
which its count bounds; those of the window before, which the limit bounds; and
those more than a whole window before the present one. `WindowRolls` moves the
split when a window ends; `Admits` shows that a new admission is less than a
window away from the first two parts only, so from fewer than twice the limit.
Where the counts were lost in between (`since`), the split is of the admissions
after the loss, and those before it lie before the first window after it. A
check may count with one backend and be judged by the other (`CheckIs`), so the
bound holds of each backend by itself.

**ClientAccess_proofs.** Since nothing rolls back, what is on disk is an earlier
state of tables in which rows only move forwards (`OnDisk`, `Moves`); a stop
then keeps every invariant that holds of the disk as well. `TicketInv` says a
used ticket has one holder, a request between two statements or one connection,
and that the use is on disk before the connection exists. `PromiseInv` keeps
what was handed out or withdrawn on disk.

**ServiceRegistry_proofs.** `StuckInv` gives each service that is validating its
reason: a validation between its mark and its verdict, or one cut short.
`TellInv`: only the validation itself speaks after
its job was created, and its last word is committed with its end. `AloneInv`:
beside a validation that is alone no other works on the service, so the status
it read is what it puts back. `CalmInv` follows the one validation at work
through its statements and says at each who may hold a uri: when it marks the
service, it takes it out of the competition (`OneHolder`, `NoOther`), and brings
it back with rows no other service could have got hold of, or with new ones
that the shadow policy then takes from the others (`CalmWork`, `Succeeded`).

**EventStream_proofs.** Everything rests on one observation: ids are given out
one by one and ring and queues lose from their front only, so what each holds
are consecutive ids up to the latest (`RunsTo`, `RingInv`). A replay is then the
right end of the ring (`ReplayIs`), and what was sent lies before what is held
(`Flows`, `StreamInv`), which gives the order. `NewsInv` says that neither what
was sent nor what is held is below both the id presented and the latest one at
that time; `AccountInv`, that every id before the queue was sent or may be
missed. The step that decides `AccountInv` is a push on a full queue: what falls
out is at least `QueueSize` old, and `QueueSize` is not below `ReplaySize`
(`DroppedAreOld`). `SessionInv` relates the table to the history of use; of a
POST it needs that the session is touched before the idle ones are looked for.

**DemoServers_proofs.** One invariant per server (`TaskBoardInv` ...
`TravelInv`) and one lemma per server, on the step and on `HintKept`. What makes
`HintKept` inductive is that the latest call has had its effect (an archived
task is archived, a deleted bookmark gone), so that the same call again finds it
done; of `task_update_status` it says that only the activity grows. The home
lab's invariant bounds the numbers of its log entries by how many there are, so
that the next number is new. The ledger needs that sums over a finite set do not
depend on the order of adding (`SumTakesOut`), split (`SumAdds`) and can be
taken by groups (`SumByGroups`). An induction would be the usual proof; here
each lemma takes a counterexample that is minimal under inclusion
(`MinimalSubset`, from the library's theorem that strict inclusion of finite
sets is well founded) and finds a smaller one.

Proved and in no run: `EntryMirrorsHistory` and `RefusesOnlyBlocked`
(CircuitBreaker), `ResultIsFinal` and `LocksHeldByTheirUsers` (StdioTransport),
`CleanFamilyIsDead` and `KeySurvives` (OAuthGrants), `WithdrawnStaysOut`
(ClientAccess), and the type invariants.

Only model-checked: what needs fairness, since the proof system has no rule for
`WF`, `SF` and ENABLED: `RequestReturns` and `StoppedProcessExits`
(StdioTransport), `CallEnds` (StdioPool) and `ChangesArePublished`
(ToolGateway).

## 5. Not modelled

`PROJECT.json` lists each component with its status. Inside the modelled ones:

- *stdio*: the stderr task and its diagnostics (no control depends on them);
  JSON parsing (a line is a response, or garbage); `persist_stdio_state` (a
  write nobody reads back to decide anything); which client is the least
  recently used.
- *Gateway*: argument validation, plugins and rate limits inside `tools/call`
  (each is one `Refuse` that may happen); the HTTP branch of a forwarded
  cancellation; the order of eviction of the idempotency cache; that the
  reaper of in-flight entries also removes those of streaming calls that still
  run after twice their timeout.
- *Credentials*: encryption, masking, the master key and its change.
- *Registry*: prompts and templates (replaced like resources, without the
  shadow policy), the summaries and stages of a validation, schema drift as
  such, the failure counter of the probe, which decides nothing.
- *OAuth*: PKCE, consent, bindings and the format of tokens: a mismatch refuses
  and changes nothing.
- *Sessions*: protocol version and the initialized flag.

Not modelled at all, with the reason: MCP dispatch (a table), tool naming and
schema comparison (pure functions of one list), settings, schemas and the CLI
(configuration and wrappers), the web console (presentation), installation
scripts, and the companion servers (read-only).

## 6. Where the code and its documentation disagree, and limits of what holds

No run shows these; they are to be read at the lines named, and the properties
of section 3 are stated so that they say what is true around them.

Disagreements with a document, a comment or a declared hint:

- **One trial.** `circuit_breaker.py:69-70` promises one trial request in
  half-open. Lines 77-87 refuse only while open, so everyone who comes before
  the first outcome is let through.
- **Shared ids.** `dev-plan/implement_20260514_201743.md:139` lists correlation
  of requests by id. Futures are kept by the id the client chose
  (`stdio.py:219-223`), and a service's transport is shared by all clients, so
  of two requests with equal ids the second takes over the first's slot: it may
  be given the response to the first, which is left to its timeout. `OwnAnswer`,
  `WantedIsPending` and `NoUnreadWait` say that nothing else causes either.
- **A stalled child.** `drain()` (`stdio.py:230`) is outside the timeout and
  holds the write lock; a child that neither reads nor dies holds up its
  requests for ever (`dev-plan/implement_20260514_201743.md:252` promises
  isolation). `RequestReturns` therefore assumes `ChildReads`, `CallEnds`
  `ChildrenRead`, and the validation of a stdio service in `ChangesArePublished`
  the same.
- **Process limit.** `coremcp-docs/06-security-auth.md:603` bounds processes;
  the pool bounds clients. A client closed while a call is starting its process
  has nothing to stop yet and gets the process later, outside the pool
  (`stdio_pool.py:165`).
- **Blocked replies.** The comment at `main.py:473-476` says the cache is
  cleared so that a blocked tool does not return success again. A call that is
  still being answered stores its reply after the clearing
  (`tools_handlers.py:773`). `ReplyStaleOnlyByRace` says this is the only way.
- **Metadata documents.** `README.md:553` gives them a fixed life of one hour.
  Once resolved, the row in `oauth_clients` is returned whatever its age
  (`oauth.py:194-197`). `SettledForGood` is the useful side of that: a code
  exchange and a rotation, which resolve the client after they have committed
  (`oauth.py:304-316`), cannot fail there because of the limiter or the document.
  No code deletes a row of `oauth_clients`, so that failure is not modelled.
- **One service per uri.** `README.md:81` lets only the latest validation keep a
  uri active. Overlapping validations, a probe that turns a service active
  again, and a stop between the statements can leave two
  (`repository_catalog.py:205`). `CalmKeepsUri` says when it holds.
- **An idempotent tool that is none.** `task_board.py:398` declares
  `task_update_status` idempotent; lines 307-309 set `updated_at` and append an
  entry to the task's activity on every call, and `task_get` shows both.
  `HintsAreKept` excepts it by name: a repeated call only lets the activity grow.

Limits of what holds, met while modelling:

- The reader of a dead process fails everything registered, including requests
  of the process started after it (`stdio.py:433`). Nothing calls `reap_idle`
  (`stdio.py:287`).
- After a refresh the registry is read again following an await, and may have
  been emptied meanwhile (`tools_handlers.py:153` and `:374`); `KnownToolIsFound`
  bounds it. In-flight calls are kept by id across clients (`:599`). Two calls
  with one `Idempotency-Key` that overlap are both executed (`:339`).
- An error while the body is read is caught by no handler
  (`proxy/downstream.py:129-159`): the client gets a 500, the breaker no
  outcome, and the in-flight entry waits for the reaper (`Escape`). In a
  validation it ends `validate_service` (`main.py:1054-1084`), except where
  resources are listed: the service stays `validating`, its job `running` until
  it is reaped, and the mark is not published (`NothingStaysValidating`,
  `ChangesArePublished` name the exception).
- The answer to a request that was prepared before a patch, put, rotate or delete
  stores its session id after the change (`proxy/downstream.py:121-123`,
  `mcp/session_proxy.py:34-44`), and later requests use that id with the new
  endpoint or credential until the next change, failure or expiry.
  `ChangeEndsSession` is about ids stored before the change.
- A secret in the vault is not sent when its row is of another type than
  `bearer_token` and `api_key_header` or has no `header_name` (`main.py:428-432`),
  or when the name is not one of `authorization`, `x-api-key` and
  `idempotency-key` (`proxy/downstream.py:86-92`); nobody is told.
- A revocation of an access token lasts until the end that the presented text
  gives, and a later revocation of the same jti overwrites that end
  (`oauth.py:332-342`, `repository_credentials.py:429-440`).
  `WithdrawnStaysOut` holds of tokens whose latest revocation reaches to their
  end.
- A restart empties the limiter's memory, so a window's length around it sees up
  to one limit more for each restart in it (`SlidingBound` says so).
- `patch_toolbox_item` changes an item before it compares the toolbox
  (`api/toolboxes.py:90-92`); a probe's recovery is not published
  (`db/repository_services.py:228-247`, `health_probe.py:118`).
- A put leaves the replaced secret in the vault, and one whose INSERT fails its
  own; a stop between the two steps of a delete leaves a row without a secret
  (`api/services.py:254-257`). Deleting a service does not revoke its credential.
- `mark_service_validated` does not ask whether the service was deleted
  (`repository_services.py:207-217`); a concurrent INSERT of one row
  (`repository_catalog.py:189`) leaves the service `validating`; an error while
  resources are listed empties them (`main.py:970-985`).
- Event ids start again with the process, so an id of an earlier process
  withholds events up to it (`MissesOnlyOld` names the exception).
- Disconnecting an external client revokes its access tokens and not its OAuth
  tokens (`api/connections.py`); OAuth verification does not look at the
  connection.
- A fixed window lets twice the limit through around its end, and a failover in
  it counts anew; `SlidingBound` is stated per backend.

## 7. Plan

Done: the modules of section 2 with their runs, and the proofs of section 4.
What would add most next:

1. The safety halves of the liveness properties: that whoever holds a lock or
   the head of the database's queue is at a step that can go on.
2. ToolGateway with StdioPool in place of its outcomes: a call whose client is
   dropped while it starts. So far the two meet only in outcomes (refused,
   failed, answered), and StdioPool and StdioTransport in what the pool can see
   of a client.
3. ServiceRegistry feeding ToolGateway: tools that come and go with a
   validation, in one queue of statements.
4. The order of eviction of the idempotency cache, and the names of tools as
   pure operators against a reference definition.
