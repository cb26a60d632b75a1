---------------------------- MODULE EventStream -----------------------------
(***************************************************************************)
(* What GET /mcp delivers (mcp_gateway/events.py, api/mcp_endpoint.py) and *)
(* who publishes it (main.py, the notification callbacks of downstreams).  *)
(* Ids are given out by the process and start again when it does.  A ring  *)
(* keeps the latest events for clients that come back with the last id     *)
(* they saw; every open stream has a queue that drops its oldest event     *)
(* when it is full.  Publishing and subscribing contain no await that can  *)
(* pause, so each is one step.  A stream takes an event from its queue and *)
(* yields it: the connection may break there and the event is lost.        *)
(* Nothing bounds the time of a yield: a client that keeps its connection  *)
(* open and does not read stops its stream.                                *)
(* POST and DELETE /mcp, and the reaper loop, keep the table of sessions.  *)
(***************************************************************************)
EXTENDS Integers, Sequences, FiniteSets, SequencesExt

CONSTANTS
  Clients,       \* clients that read GET /mcp
  Categories,    \* LIST_CHANGED_CATEGORIES, a sequence
  Progress,      \* the kind of a notification that is not a list_changed
  ReplaySize,    \* replay_size of the bus
  MaxQueueSize,  \* max_queue_size of the bus
  Sessions,      \* session ids that initialize creates
  IdleSeconds,   \* SESSION_IDLE_REAP_SECONDS
  MaxEvents,     \* bound: ids given out by one process
  MaxLives,      \* bound: starts of the process
  MaxNow         \* bound: the model's clock stops there

ASSUME SizesAssumption ==
  /\ ReplaySize \in Nat \ {0} /\ MaxQueueSize \in Nat \ {0}
  /\ MaxEvents \in Nat /\ MaxLives \in Nat /\ IdleSeconds \in Nat /\ MaxNow \in Nat
ASSUME CategoriesAssumption == Categories \in Seq(ToSet(Categories))

None == -1     \* no Last-Event-Id, or no session

Kinds == ToSet(Categories) \cup {Progress}
Larger(a, b) == IF a > b THEN a ELSE b
QueueSize == Larger(MaxQueueSize, ReplaySize)

VARIABLES
  nextId,     \* _next_id
  ring,       \* _events
  open,       \* streams in _subscribers
  queue,      \* per stream: its asyncio.Queue
  lastSeen,   \* per client: the Last-Event-Id it would present
  presented,  \* per open stream: the Last-Event-Id it presented
  sent,       \* history, per open stream: the events it has been sent, in order
  joined,     \* history, per open stream: _next_id when it subscribed
  life,       \* history: starts of the process
  now,        \* the clock of the session table
  seenAt,     \* per session: last_seen, None when it is not in the table
  used        \* history, per session: its latest POST since its creation

busVars     == <<nextId, ring>>
streamVars  == <<open, queue, lastSeen, presented, sent, joined>>
sessionVars == <<now, seenAt, used>>
vars == <<busVars, streamVars, life, sessionVars>>

Event == [id : 1..MaxEvents, kind : Kinds]

Before(a, b) == a.id < b.id
Ascending(s) == \A i, j \in DOMAIN s : i < j => Before(s[i], s[j])

TypeOK ==
  /\ nextId \in 0..MaxEvents
  /\ ring \in Seq(Event) /\ Len(ring) <= ReplaySize
  /\ open \in SUBSET Clients
  /\ queue \in [Clients -> Seq(Event)]
  /\ \A c \in Clients : Len(queue[c]) <= QueueSize
  /\ lastSeen \in [Clients -> None..MaxEvents]
  /\ presented \in [Clients -> None..MaxEvents]
  /\ sent \in [Clients -> Seq(Event)]
  /\ joined \in [Clients -> 0..MaxEvents]
  /\ life \in 0..MaxLives
  /\ now \in 0..MaxNow
  /\ seenAt \in [Sessions -> None..MaxNow]
  /\ used \in [Sessions -> None..MaxNow]

Init ==
  /\ nextId = 0 /\ ring = <<>>
  /\ open = {}
  /\ queue = [c \in Clients |-> <<>>]
  /\ lastSeen = [c \in Clients |-> None]
  /\ presented = [c \in Clients |-> None]
  /\ sent = [c \in Clients |-> <<>>]
  /\ joined = [c \in Clients |-> 0]
  /\ life = 0
  /\ now = 0
  /\ seenAt = [s \in Sessions |-> None]
  /\ used = [s \in Sessions |-> None]

-----------------------------------------------------------------------------
(* The bus.                                                                *)

\* the newest n of a sequence: a deque with maxlen, a queue that drops its oldest
Newest(s, n) == IF Len(s) <= n THEN s ELSE SubSeq(s, Len(s) - n + 1, Len(s))

\* events are put one by one, each dropping the oldest when the queue is full
Push(q, events) == Newest(q \o events, QueueSize)

\* one event of each of these kinds, one after the other
Put(kinds) ==
  LET events == [i \in 1..Len(kinds) |-> [id |-> nextId + i, kind |-> kinds[i]]]
  IN  /\ nextId + Len(kinds) <= MaxEvents
      /\ nextId' = nextId + Len(kinds)
      /\ ring' = Newest(ring \o events, ReplaySize)
      /\ queue' = [c \in Clients |->
                     IF c \in open THEN Push(queue[c], events) ELSE queue[c]]
      /\ UNCHANGED <<open, lastSeen, presented, sent, joined, life, sessionVars>>

\* a change of the catalog is published for every category it touches
PublishListChanged ==
  \/ Put(Categories)
  \/ \E i \in DOMAIN Categories : Len(Categories) > 1 /\ Put(<<Categories[i]>>)

\* what a downstream sent is passed on, a list_changed or not
PublishNotification == \E kind \in Kinds : Put(<<kind>>)

\* mistake: the replay begins with the last event the client has
ReplayInclusive(since) ==
  Newest(ring, Cardinality({i \in DOMAIN ring : ring[i].id >= since}))

\* those with an id above since: the newest so many, as ids ascend in the ring
Replay(since) ==
  Newest(ring, Cardinality({i \in DOMAIN ring : ring[i].id > since}))

\* mistake: a client that comes back is given no replay
SubscribeWithoutReplay(c, since) ==
  /\ c \notin open
  /\ open' = open \cup {c}
  /\ queue' = [queue EXCEPT ![c] = <<>>]
  /\ presented' = [presented EXCEPT ![c] = since]
  /\ sent' = [sent EXCEPT ![c] = <<>>]
  /\ joined' = [joined EXCEPT ![c] = nextId]
  /\ UNCHANGED <<busVars, lastSeen, life, sessionVars>>

\* GET /mcp; without a Last-Event-Id there is no replay
Subscribe(c, since) ==
  /\ c \notin open
  /\ open' = open \cup {c}
  /\ queue' = [queue EXCEPT ![c] = IF since = None THEN <<>> ELSE Replay(since)]
  /\ presented' = [presented EXCEPT ![c] = since]
  /\ sent' = [sent EXCEPT ![c] = <<>>]
  /\ joined' = [joined EXCEPT ![c] = nextId]
  /\ UNCHANGED <<busVars, lastSeen, life, sessionVars>>

\* a client comes back with the id it last saw, a new one without
Reconnect(c) == \E since \in {lastSeen[c], None} : Subscribe(c, since)

-----------------------------------------------------------------------------
(* The streams.                                                            *)

\* the next event is taken from the queue and reaches the client
Emit(c) ==
  /\ c \in open /\ queue[c] # <<>>
  /\ queue' = [queue EXCEPT ![c] = Tail(@)]
  /\ sent' = [sent EXCEPT ![c] = Append(@, Head(queue[c]))]
  /\ lastSeen' = [lastSeen EXCEPT ![c] = Head(queue[c]).id]
  /\ UNCHANGED <<busVars, open, presented, joined, life, sessionVars>>

\* the generator ends: max_events, a disconnect, or an event nobody received
Close(c) ==
  /\ c \in open
  /\ open' = open \ {c}
  /\ queue' = [queue EXCEPT ![c] = <<>>]
  /\ presented' = [presented EXCEPT ![c] = None]
  /\ sent' = [sent EXCEPT ![c] = <<>>]
  /\ joined' = [joined EXCEPT ![c] = 0]
  /\ UNCHANGED <<busVars, lastSeen, life, sessionVars>>

\* the process starts again: the ids, the ring, the streams and the sessions go
Restart ==
  /\ life < MaxLives
  /\ life' = life + 1
  /\ nextId' = 0 /\ ring' = <<>>
  /\ open' = {}
  /\ queue' = [c \in Clients |-> <<>>]
  /\ presented' = [c \in Clients |-> None]
  /\ sent' = [c \in Clients |-> <<>>]
  /\ joined' = [c \in Clients |-> 0]
  /\ seenAt' = [s \in Sessions |-> None]
  /\ used' = [s \in Sessions |-> None]
  /\ UNCHANGED <<lastSeen, now>>

-----------------------------------------------------------------------------
(* The sessions.                                                           *)

Fresh(table, s) == table[s] # None /\ now - table[s] < IdleSeconds

\* sessions idle for at least the limit go
ReapIdle(table) == [s \in Sessions |-> IF Fresh(table, s) THEN table[s] ELSE None]

\* the same, looking at what the caller is about to refresh
Touch(table, s) == IF table[s] = None THEN table ELSE [table EXCEPT ![s] = now]

\* mistake: the idle sessions go before the one that is named is touched
PostReapsFirst(s) ==
  /\ seenAt' = Touch(ReapIdle(seenAt), s)
  /\ used' = IF seenAt[s] = None THEN used ELSE [used EXCEPT ![s] = now]
  /\ UNCHANGED <<busVars, streamVars, life, now>>

\* POST /mcp touches its own session and reaps the idle ones
Post(s) ==
  /\ seenAt' = ReapIdle(Touch(seenAt, s))
  /\ used' = IF seenAt[s] = None THEN used ELSE [used EXCEPT ![s] = now]
  /\ UNCHANGED <<busVars, streamVars, life, now>>

\* initialize creates a session, after the POST that brings it reaped
Initialize(s) ==
  /\ used[s] = None
  /\ seenAt' = [ReapIdle(seenAt) EXCEPT ![s] = now]
  /\ used' = [used EXCEPT ![s] = now]
  /\ UNCHANGED <<busVars, streamVars, life, now>>

\* DELETE /mcp
Delete(s) ==
  /\ seenAt' = [seenAt EXCEPT ![s] = None]
  /\ used' = [used EXCEPT ![s] = None]
  /\ UNCHANGED <<busVars, streamVars, life, now>>

\* a tick of the reaper loop
ReaperTick ==
  /\ seenAt' = ReapIdle(seenAt)
  /\ UNCHANGED <<busVars, streamVars, life, now, used>>

Tick ==
  /\ now < MaxNow
  /\ now' = now + 1
  /\ UNCHANGED <<busVars, streamVars, life, seenAt, used>>

-----------------------------------------------------------------------------
Next ==
  \/ PublishListChanged \/ PublishNotification
  \/ \E c \in Clients : Reconnect(c) \/ Emit(c) \/ Close(c)
  \/ Restart
  \/ \E s \in Sessions : Post(s) \/ Initialize(s) \/ Delete(s)
  \/ ReaperTick \/ Tick

Spec == Init /\ [][Next]_vars

-----------------------------------------------------------------------------
(* Properties.                                                             *)

\* What an open stream has sent and holds, in the order it arrives.
Arrives(c) == sent[c] \o queue[c]

\* A stream delivers in the order of publication and nothing twice, nor what
\* the client said it has (subscribe's replay and the pushes that follow it).
InOrderOnce ==
  \A c \in open :
    /\ Ascending(Arrives(c))
    /\ \A e \in ToSet(Arrives(c)) : e.id > presented[c] \/ e.id > joined[c]

\* A stream misses an event after its id only when replay_size later ones
\* have been published: reconnecting in time loses nothing.  The exception is
\* an id of an earlier process, above what this one had given out: its
\* events up to that moment are withheld.
MissesOnlyOld ==
  \A c \in open : \A i \in 1..nextId :
    \/ \E e \in ToSet(Arrives(c)) : e.id = i
    \/ i <= nextId - ReplaySize
    \/ i <= joined[c] /\ (presented[c] = None \/ i <= presented[c])

\* A session is reaped only when no POST has named it for the idle time: one
\* that comes late but before the reaper keeps its session (mcp_endpoint
\* touches the session before it has the idle ones reaped).
UsedSessionStays ==
  \A s \in Sessions : used[s] # None /\ now - used[s] < IdleSeconds => seenAt[s] # None
=============================================================================
