------------------------- MODULE EventStream_proofs -------------------------
(***************************************************************************)
(* Proofs about EventStream, for any clients, categories, sizes and        *)
(* sessions.  Ids are given out in order and every sequence only loses     *)
(* from its front, so the ring and each queue hold consecutive ids that    *)
(* end with the latest one (RunsTo).  What is in them, and what is not,    *)
(* then follows from their lengths; the streams' properties are            *)
(* invariants relating those to what was sent.                             *)
(***************************************************************************)
EXTENDS EventStream, SequenceTheorems, FiniteSetTheorems, TLAPS

\* s holds consecutive ids, the last of which is n.
RunsTo(s, n) == \A i \in 1..Len(s) : s[i].id = n - Len(s) + i

Lesser(a, b) == IF a < b THEN a ELSE b

RingInv == RunsTo(ring, nextId) /\ Len(ring) = Lesser(nextId, ReplaySize)

\* What was sent (s) comes before what is held (q), and that is the latest.
Flows(s, q, n) ==
  /\ RunsTo(q, n)
  /\ Ascending(s)
  /\ \A i \in 1..Len(s) : s[i].id <= n - Len(q)

StreamInv ==
  \A c \in open : Flows(sent[c], queue[c], nextId) /\ joined[c] <= nextId

\* A stream has sent, and holds, only what is news to a client that said it
\* has everything up to p, when the latest id was j.
IsNews(e, p, j) == e.id > p \/ e.id > j

NewsInv ==
  \A c \in open :
    /\ Lesser(presented[c], joined[c]) <= nextId - Len(queue[c])
    /\ \A i \in 1..Len(sent[c]) : IsNews(sent[c][i], presented[c], joined[c])

\* Every id was sent, is held, or may be missed.
Sent(s, i) == \E k \in 1..Len(s) : s[k].id = i

MayMiss(i, n, p, j) == i <= n - ReplaySize \/ (i <= j /\ (p = None \/ i <= p))

AccountInv ==
  \A c \in open : \A i \in 1..(nextId - Len(queue[c])) :
    Sent(sent[c], i) \/ MayMiss(i, nextId, presented[c], joined[c])

\* The table of sessions and the history of their use.
SessionInv ==
  \A s \in Sessions :
    /\ used[s] = None => seenAt[s] = None
    /\ used[s] # None => used[s] <= now
    /\ seenAt[s] # None => seenAt[s] = used[s]
    /\ used[s] # None /\ seenAt[s] = None => now - used[s] >= IdleSeconds

-----------------------------------------------------------------------------
(* Sequences that lose from their front.                                   *)

LEMMA NewestIs ==
  ASSUME NEW S, NEW s \in Seq(S), NEW n \in Nat
  PROVE  /\ Newest(s, n) \in Seq(S)
         /\ Len(Newest(s, n)) = Lesser(Len(s), n)
         /\ \A i \in 1..Len(Newest(s, n)) :
              Newest(s, n)[i] = s[Len(s) - Len(Newest(s, n)) + i]
<1>1. CASE Len(s) <= n
  BY <1>1 DEF Newest, Lesser
<1>2. CASE Len(s) > n
  <2>1. Newest(s, n) = SubSeq(s, Len(s) - n + 1, Len(s))
    BY <1>2 DEF Newest
  <2>2. \A i \in (Len(s) - n + 1)..Len(s) : s[i] \in S
    BY <1>2
  <2>3. QED  BY <1>2, <2>1, <2>2, SubSeqProperties DEF Lesser
<1>3. QED  BY <1>1, <1>2

LEMMA NewestRuns ==
  ASSUME NEW s \in Seq(Event), NEW n \in Nat, NEW top \in Nat, RunsTo(s, top)
  PROVE  RunsTo(Newest(s, n), top)
<1>1. /\ Len(s) \in Nat
      /\ Newest(s, n) \in Seq(Event)
      /\ Len(Newest(s, n)) = Lesser(Len(s), n)
      /\ \A i \in 1..Len(Newest(s, n)) :
           Newest(s, n)[i] = s[Len(s) - Len(Newest(s, n)) + i]
  BY NewestIs
<1>2. Len(Newest(s, n)) \in 0..Len(s)
  BY <1>1 DEF Lesser
<1>3. ASSUME NEW i \in 1..Len(Newest(s, n))
      PROVE  Newest(s, n)[i].id = top - Len(Newest(s, n)) + i
  <2>1. Len(s) - Len(Newest(s, n)) + i \in 1..Len(s)
    BY <1>1, <1>2
  <2>2. Newest(s, n)[i] = s[Len(s) - Len(Newest(s, n)) + i]
    BY <1>1
  <2>3. QED  BY <1>1, <1>2, <2>1, <2>2, SMTT(20) DEF RunsTo
<1>4. QED  BY <1>3 DEF RunsTo

LEMMA ConcatRuns ==
  ASSUME NEW s \in Seq(Event), NEW t \in Seq(Event), NEW top \in Nat,
         RunsTo(s, top), RunsTo(t, top + Len(t))
  PROVE  RunsTo(s \o t, top + Len(t))
<1>1. /\ s \o t \in Seq(Event)
      /\ Len(s \o t) = Len(s) + Len(t)
      /\ \A i \in 1..Len(s) : (s \o t)[i] = s[i]
      /\ \A i \in 1..Len(t) : (s \o t)[Len(s) + i] = t[i]
  BY ConcatProperties
<1>2. ASSUME NEW i \in 1..Len(s \o t)
      PROVE  (s \o t)[i].id = top + Len(t) - Len(s \o t) + i
  <2>1. CASE i <= Len(s)
    BY <1>1, <2>1 DEF RunsTo
  <2>2. CASE i > Len(s)
    <3>1. i - Len(s) \in 1..Len(t) /\ i = Len(s) + (i - Len(s))
      BY <1>1, <2>2
    <3>2. (s \o t)[i] = t[i - Len(s)]
      BY <1>1, <3>1
    <3>3. QED  BY <1>1, <3>1, <3>2 DEF RunsTo
  <2>3. QED  BY <1>1, <2>1, <2>2
<1>3. QED  BY <1>2 DEF RunsTo

\* What is kept of s with t behind it: consecutive ids, as many as fit.
LEMMA PushRuns ==
  ASSUME NEW s \in Seq(Event), NEW t \in Seq(Event), NEW top \in Nat, NEW n \in Nat,
         RunsTo(s, top), RunsTo(t, top + Len(t))
  PROVE  /\ Newest(s \o t, n) \in Seq(Event)
         /\ RunsTo(Newest(s \o t, n), top + Len(t))
         /\ Len(Newest(s \o t, n)) = Lesser(Len(s) + Len(t), n)
<1>1. s \o t \in Seq(Event) /\ Len(s \o t) = Len(s) + Len(t)
  BY ConcatProperties
<1>2. RunsTo(s \o t, top + Len(t))
  BY ConcatRuns
<1>3. top + Len(t) \in Nat
  OBVIOUS
<1>4. QED  BY <1>1, <1>2, <1>3, NewestIs, NewestRuns

LEMMA LesserIs ==
  ASSUME NEW a \in Nat, NEW b \in Nat
  PROVE  Lesser(a, b) \in Nat /\ Lesser(a, b) <= a /\ Lesser(a, b) <= b
BY DEF Lesser

LEMMA Slides ==
  ASSUME NEW n \in Nat, NEW m \in Nat, NEW q \in Nat, NEW r \in Nat, r <= q + m
  PROVE  n - q <= (n + m) - r
OBVIOUS

LEMMA StaysBelow ==
  ASSUME NEW x \in Nat, NEW y \in Int, NEW z \in Int, x <= y, y <= z
  PROVE  x <= z
OBVIOUS

LEMMA EventIds ==
  ASSUME NEW s \in Seq(Event), NEW i \in 1..Len(s)
  PROVE  s[i] \in Event /\ s[i].id \in 1..MaxEvents /\ s[i].id \in Nat
<1>1. s[i] \in Event
  BY ElementOfSeq
<1>2. s[i].id \in 1..MaxEvents
  BY <1>1 DEF Event
<1>3. QED  BY <1>1, <1>2, SizesAssumption

LEMMA RunsAscend ==
  ASSUME NEW s \in Seq(Event), NEW top \in Nat, RunsTo(s, top)
  PROVE  Ascending(s)
BY DEF RunsTo, Ascending, Before

\* One subscribes to the events after since, and only those.
LEMMA ReplayIs ==
  ASSUME TypeOK, RingInv, NEW since \in Nat
  PROVE  /\ Replay(since) \in Seq(Event)
         /\ RunsTo(Replay(since), nextId)
         /\ Len(Replay(since)) <= ReplaySize
         /\ Len(Replay(since)) = IF since >= nextId THEN 0
                                 ELSE Lesser(Len(ring), nextId - since)
<1> DEFINE newer == {i \in DOMAIN ring : ring[i].id > since}
           skipped == since - (nextId - Len(ring))
           first == IF skipped > 0 THEN skipped + 1 ELSE 1
<1>1. ring \in Seq(Event) /\ nextId \in Nat /\ Len(ring) \in 0..nextId
      /\ Len(ring) <= ReplaySize /\ DOMAIN ring = 1..Len(ring)
  BY SizesAssumption DEF TypeOK, RingInv, Lesser
<1>2. newer = first..Len(ring)
  BY <1>1 DEF RingInv, RunsTo
<1>3. first \in Int /\ Len(ring) \in Int
  BY <1>1
<1>4. /\ IsFiniteSet(newer)
      /\ Cardinality(newer) = IF first > Len(ring) THEN 0 ELSE Len(ring) - first + 1
  BY <1>2, <1>3, FS_Interval, ZenonT(40)
<1> HIDE DEF newer
<1>5. Cardinality(newer) \in Nat /\ Replay(since) = Newest(ring, Cardinality(newer))
  BY <1>1, <1>4, FS_CardinalityType DEF Replay, newer
<1>6. /\ Replay(since) \in Seq(Event)
      /\ Len(Replay(since)) = Lesser(Len(ring), Cardinality(newer))
  BY <1>1, <1>5, NewestIs
<1>7. RunsTo(Replay(since), nextId)
  BY <1>1, <1>5, NewestRuns DEF RingInv
<1>8. Cardinality(newer) = IF since >= nextId THEN 0
                           ELSE Lesser(Len(ring), nextId - since)
  <2>1. CASE skipped > 0
    BY <1>1, <1>4, <2>1 DEF Lesser
  <2>2. CASE ~(skipped > 0)
    BY <1>1, <1>4, <2>2 DEF Lesser
  <2>3. QED  BY <2>1, <2>2
<1>9. Len(Replay(since)) = Cardinality(newer)
  BY <1>1, <1>5, <1>6, <1>8 DEF Lesser
<1>10. Len(Replay(since)) <= ReplaySize
  BY <1>1, <1>5, <1>8, <1>9, SizesAssumption DEF Lesser
<1>11. QED
  BY <1>6, <1>7, <1>8, <1>9, <1>10

-----------------------------------------------------------------------------
(* What the steps do: events are published, a stream begins, goes on or    *)
(* ends, the process starts again, or the sessions change.                 *)

Published(events) ==
  /\ nextId' = nextId + Len(events)
  /\ RunsTo(events, nextId')
  /\ ring' = Newest(ring \o events, ReplaySize)
  /\ queue' = [c \in Clients |->
                 IF c \in open THEN Push(queue[c], events) ELSE queue[c]]
  /\ UNCHANGED <<open, lastSeen, presented, sent, joined, life, sessionVars>>

LEMMA PutPublishes ==
  ASSUME TypeOK, NEW kinds \in Seq(Kinds), Put(kinds)
  PROVE  nextId' \in 0..MaxEvents /\ \E events \in Seq(Event) : Published(events)
<1> DEFINE events == [i \in 1..Len(kinds) |-> [id |-> nextId + i, kind |-> kinds[i]]]
<1>1. nextId \in Nat /\ Len(kinds) \in Nat /\ MaxEvents \in Nat
  BY SizesAssumption DEF TypeOK
<1>2. nextId + Len(kinds) <= MaxEvents /\ nextId' = nextId + Len(kinds)
  BY DEF Put
<1>3. \A i \in 1..Len(kinds) : events[i] \in Event
  BY <1>1, <1>2 DEF Event
<1>4. events \in Seq(Event) /\ Len(events) = Len(kinds)
  BY <1>1, <1>3, IsASeq
<1>5. RunsTo(events, nextId')
  BY <1>1, <1>2, <1>4 DEF RunsTo
<1>6. Published(events)
  BY <1>2, <1>4, <1>5 DEF Put, Published
<1>7. nextId' \in 0..MaxEvents
  BY <1>1, <1>2
<1> HIDE DEF events
<1>8. QED  BY <1>4, <1>6, <1>7

LEMMA PublishIs ==
  ASSUME TypeOK, PublishListChanged \/ PublishNotification
  PROVE  nextId' \in 0..MaxEvents /\ \E events \in Seq(Event) : Published(events)
<1>1. Categories \in Seq(Kinds)
  <2>1. \A i \in 1..Len(Categories) : Categories[i] \in Kinds
    BY CategoriesAssumption DEF Kinds, ToSet
  <2>2. QED  BY <2>1, CategoriesAssumption, IsASeq, ElementOfSeq
<1>2. \A kind \in Kinds : <<kind>> \in Seq(Kinds)
  OBVIOUS
<1>3. \A i \in DOMAIN Categories : Categories[i] \in Kinds
  BY <1>1
<1>4. CASE PublishListChanged
  BY <1>1, <1>2, <1>3, <1>4, PutPublishes DEF PublishListChanged
<1>5. CASE PublishNotification
  BY <1>2, <1>5, PutPublishes DEF PublishNotification
<1>6. QED  BY <1>4, <1>5

SessionStep ==
  \/ \E s \in Sessions : Post(s) \/ Initialize(s) \/ Delete(s)
  \/ ReaperTick \/ Tick

\* The steps, sorted.
LEMMA StepCases ==
  ASSUME [Next]_vars
  PROVE  \/ PublishListChanged \/ PublishNotification
         \/ \E c \in Clients : \E since \in {lastSeen[c], None} : Subscribe(c, since)
         \/ \E c \in Clients : Emit(c) \/ Close(c)
         \/ Restart
         \/ SessionStep
         \/ UNCHANGED vars
BY DEF Next, SessionStep, Reconnect

-----------------------------------------------------------------------------
(* Types, the ring and the queues.                                         *)

Inv == TypeOK /\ RingInv /\ StreamInv

LEMMA SizesAre == QueueSize \in Nat \ {0} /\ ReplaySize <= QueueSize
BY SizesAssumption DEF QueueSize, Larger

LEMMA NoneIs == None = -1 /\ None \in None..MaxEvents /\ None \in None..MaxNow
BY SizesAssumption DEF None

LEMMA InitInv == Init => Inv
<1> SUFFICES ASSUME Init PROVE Inv
  OBVIOUS
<1>1. /\ <<>> \in Seq(Event) /\ Len(<<>>) = 0
      /\ QueueSize \in Nat /\ ReplaySize \in Nat /\ MaxEvents \in Nat
      /\ MaxNow \in Nat /\ MaxLives \in Nat
  BY SizesAre, SizesAssumption
<1>2. TypeOK
  BY <1>1, NoneIs DEF Init, TypeOK
<1>3. RingInv /\ StreamInv
  BY <1>1 DEF Init, RingInv, StreamInv, Flows, RunsTo, Lesser
<1>4. QED  BY <1>2, <1>3 DEF Inv

LEMMA PublishedKeeps ==
  ASSUME Inv, NEW events \in Seq(Event), Published(events), nextId' \in 0..MaxEvents
  PROVE  /\ Inv'
         /\ \A c \in open :
              /\ nextId - Len(queue[c]) <= nextId' - Len(queue'[c])
              /\ Len(queue'[c]) = Lesser(Len(queue[c]) + Len(events), QueueSize)
<1>1. /\ nextId \in Nat /\ Len(events) \in Nat /\ ring \in Seq(Event)
      /\ ReplaySize \in Nat /\ QueueSize \in Nat
      /\ nextId' = nextId + Len(events) /\ RunsTo(events, nextId + Len(events))
      /\ ring' = Newest(ring \o events, ReplaySize)
      /\ RunsTo(ring, nextId) /\ Len(ring) = Lesser(nextId, ReplaySize)
  BY SizesAssumption, SizesAre DEF Inv, TypeOK, Published, RingInv
<1>2. /\ ring' \in Seq(Event) /\ RunsTo(ring', nextId')
      /\ Len(ring') = Lesser(Len(ring) + Len(events), ReplaySize)
  BY <1>1, PushRuns, ZenonT(40)
<1>3. Len(ring') = Lesser(nextId', ReplaySize) /\ Len(ring') <= ReplaySize
  BY <1>1, <1>2 DEF Lesser
<1>4. ASSUME NEW c \in open
      PROVE  /\ queue'[c] \in Seq(Event) /\ RunsTo(queue'[c], nextId')
             /\ Len(queue'[c]) <= QueueSize
             /\ Len(queue'[c]) <= Len(queue[c]) + Len(events)
             /\ Len(queue'[c]) = Lesser(Len(queue[c]) + Len(events), QueueSize)
  <2>1. c \in Clients /\ queue[c] \in Seq(Event) /\ RunsTo(queue[c], nextId)
    BY DEF Inv, TypeOK, StreamInv, Flows
  <2>2. queue'[c] = Newest(queue[c] \o events, QueueSize)
    BY <2>1 DEF Published, Push
  <2>3. /\ queue'[c] \in Seq(Event) /\ RunsTo(queue'[c], nextId')
        /\ Len(queue'[c]) = Lesser(Len(queue[c]) + Len(events), QueueSize)
    <3> DEFINE new == Newest(queue[c] \o events, QueueSize)
    <3>1. nextId \in Nat /\ QueueSize \in Nat /\ RunsTo(events, nextId + Len(events))
      BY <1>1
    <3>2. /\ new \in Seq(Event) /\ RunsTo(new, nextId + Len(events))
          /\ Len(new) = Lesser(Len(queue[c]) + Len(events), QueueSize)
      BY <2>1, <3>1, PushRuns
    <3>3. nextId' = nextId + Len(events)
      BY <1>1
    <3> HIDE DEF new
    <3>4. queue'[c] = new
      BY <2>2 DEF new
    <3>5. QED  BY <3>2, <3>3, <3>4
  <2>4. Len(queue[c]) \in Nat
    BY <2>1
  <2>5. QueueSize \in Nat /\ Len(queue[c]) + Len(events) \in Nat
    BY <1>1, <2>4
  <2>6. QED  BY ONLY <2>3, <2>5, LesserIs
<1>5. \A c \in Clients \ open : queue'[c] = queue[c]
  BY DEF Published
<1>6. queue' \in [Clients -> Seq(Event)] /\ \A c \in Clients : Len(queue'[c]) <= QueueSize
  <2>1. queue' = [c \in Clients |-> queue'[c]]
    BY DEF Published
  <2>2. \A c \in Clients : queue'[c] \in Seq(Event) /\ Len(queue'[c]) <= QueueSize
    BY <1>4, <1>5 DEF Inv, TypeOK
  <2>3. QED  BY <2>1, <2>2
<1>7. TypeOK'
  BY <1>2, <1>3, <1>6, SMTT(20) DEF Published, Inv, TypeOK, sessionVars
<1>8. \A c \in open : nextId - Len(queue[c]) <= nextId' - Len(queue'[c])
  <2> SUFFICES ASSUME NEW c \in open
               PROVE  nextId - Len(queue[c]) <= nextId' - Len(queue'[c])
    OBVIOUS
  <2>1. Len(queue[c]) \in Nat /\ Len(queue'[c]) \in Nat
    BY <1>4 DEF Inv, TypeOK
  <2>2. Len(queue'[c]) <= Len(queue[c]) + Len(events)
    BY <1>4
  <2>3. nextId \in Nat /\ Len(events) \in Nat /\ nextId' = nextId + Len(events)
    BY <1>1
  <2>4. nextId - Len(queue[c]) <= (nextId + Len(events)) - Len(queue'[c])
    BY <2>1, <2>2, <2>3, Slides
  <2>5. nextId' - Len(queue'[c]) = (nextId + Len(events)) - Len(queue'[c])
    BY <2>3
  <2>6. QED  BY <2>4, <2>5
<1>9. StreamInv'
  <2> SUFFICES ASSUME NEW c \in open'
               PROVE  Flows(sent'[c], queue'[c], nextId') /\ joined'[c] <= nextId'
    BY DEF StreamInv
  <2>1. c \in open /\ c \in Clients /\ open' = open /\ sent' = sent /\ joined' = joined
    BY SMTT(20) DEF Published, Inv, TypeOK
  <2>2. joined[c] \in Nat /\ Len(queue[c]) \in Nat /\ Len(queue'[c]) \in Nat
    BY <1>4, <2>1 DEF Inv, TypeOK
  <2>3. \A i \in 1..Len(sent[c]) : sent[c][i].id \in Nat
    <3>1. sent[c] \in Seq(Event)
      BY <2>1 DEF Inv, TypeOK
    <3>2. QED  BY <3>1, EventIds
  <2>4. /\ joined[c] <= nextId /\ Ascending(sent[c])
        /\ \A i \in 1..Len(sent[c]) : sent[c][i].id <= nextId - Len(queue[c])
    BY <2>1 DEF Inv, StreamInv, Flows
  <2>5. nextId - Len(queue[c]) <= nextId' - Len(queue'[c])
    BY <1>8, <2>1
  <2>6. ASSUME NEW i \in 1..Len(sent[c])
        PROVE  sent[c][i].id <= nextId' - Len(queue'[c])
    <3>1. sent[c][i].id \in Nat /\ sent[c][i].id <= nextId - Len(queue[c])
      BY <2>3, <2>4
    <3>2. nextId \in Nat /\ nextId' \in Nat
      BY <1>1
    <3>3. nextId - Len(queue[c]) \in Int /\ nextId' - Len(queue'[c]) \in Int
      BY <2>2, <3>2
    <3>4. QED  BY <2>5, <3>1, <3>3, StaysBelow
  <2>7. joined[c] <= nextId'
    BY <1>1, <2>2, <2>4
  <2>8. RunsTo(queue'[c], nextId')
    BY <1>4, <2>1
  <2>9. \A i \in 1..Len(sent'[c]) : sent'[c][i].id <= nextId' - Len(queue'[c])
    BY <2>1, <2>6
  <2>10. joined'[c] <= nextId' /\ Ascending(sent'[c])
    BY <2>1, <2>4, <2>7
  <2>11. QED  BY <2>8, <2>9, <2>10 DEF Flows
<1>10. QED  BY <1>2, <1>3, <1>4, <1>7, <1>8, <1>9 DEF Inv, RingInv

\* A stream that has taken its next event flows on.
LEMMA EmitFlows ==
  ASSUME NEW s \in Seq(Event), NEW q \in Seq(Event), NEW n \in Nat, q # <<>>, Flows(s, q, n)
  PROVE  /\ Head(q) \in Event /\ Head(q).id = n - Len(q) + 1
         /\ Tail(q) \in Seq(Event) /\ Len(Tail(q)) = Len(q) - 1
         /\ Append(s, Head(q)) \in Seq(Event)
         /\ Flows(Append(s, Head(q)), Tail(q), n)
<1>1. /\ Len(q) \in Nat \ {0} /\ Len(s) \in Nat
      /\ Head(q) \in Event /\ Head(q) = q[1]
      /\ Tail(q) \in Seq(Event) /\ Len(Tail(q)) = Len(q) - 1
      /\ \A i \in 1..Len(Tail(q)) : Tail(q)[i] = q[i + 1]
  BY HeadTailProperties, EmptySeq
<1>2. Head(q).id = n - Len(q) + 1
  BY <1>1 DEF Flows, RunsTo
<1>3. /\ Append(s, Head(q)) \in Seq(Event)
      /\ Len(Append(s, Head(q))) = Len(s) + 1
      /\ \A i \in 1..Len(s) : Append(s, Head(q))[i] = s[i]
      /\ Append(s, Head(q))[Len(s) + 1] = Head(q)
  BY <1>1, AppendProperties
<1>4. RunsTo(Tail(q), n)
  <2> SUFFICES ASSUME NEW i \in 1..Len(Tail(q)) PROVE Tail(q)[i].id = n - Len(Tail(q)) + i
    BY DEF RunsTo
  <2>1. i + 1 \in 1..Len(q) /\ Tail(q)[i] = q[i + 1]
    BY <1>1
  <2>2. q[i + 1].id = n - Len(q) + (i + 1)
    BY <2>1 DEF Flows, RunsTo
  <2>3. QED  BY <1>1, <2>1, <2>2
<1>5. ASSUME NEW i \in 1..Len(s)
      PROVE  /\ Append(s, Head(q))[i].id \in Nat
             /\ Append(s, Head(q))[i].id <= n - Len(q)
  BY <1>3, EventIds DEF Flows
<1>6. \A i \in 1..Len(Append(s, Head(q))) : Append(s, Head(q))[i].id <= n - Len(Tail(q))
  <2> SUFFICES ASSUME NEW i \in 1..Len(Append(s, Head(q)))
               PROVE  Append(s, Head(q))[i].id <= n - Len(Tail(q))
    OBVIOUS
  <2>1. CASE i \in 1..Len(s)
    BY <1>1, <1>5, <2>1
  <2>2. CASE i = Len(s) + 1
    BY <1>1, <1>2, <1>3, <2>2
  <2>3. QED  BY <1>1, <1>3, <2>1, <2>2
<1>7. Ascending(Append(s, Head(q)))
  <2> SUFFICES ASSUME NEW i \in 1..(Len(s) + 1), NEW j \in 1..(Len(s) + 1), i < j
               PROVE  Append(s, Head(q))[i].id < Append(s, Head(q))[j].id
    BY <1>3 DEF Ascending, Before
  <2>1. i \in 1..Len(s) /\ Append(s, Head(q))[i] = s[i]
    BY <1>1, <1>3
  <2>2. CASE j = Len(s) + 1
    BY <1>1, <1>2, <1>3, <1>5, <2>1, <2>2
  <2>3. CASE j \in 1..Len(s)
    BY <1>3, <2>1, <2>3 DEF Flows, Ascending, Before
  <2>4. QED  BY <1>1, <2>2, <2>3
<1>8. QED  BY <1>1, <1>2, <1>3, <1>4, <1>6, <1>7 DEF Flows

LEMMA SubscribeKeeps ==
  ASSUME Inv, NEW c \in Clients, NEW since \in None..MaxEvents, Subscribe(c, since)
  PROVE  /\ Inv'
         /\ Len(queue'[c]) = IF since = None \/ since >= nextId THEN 0
                             ELSE Lesser(Len(ring), nextId - since)
<1> DEFINE new == IF since = None THEN <<>> ELSE Replay(since)
<1>1. /\ new \in Seq(Event) /\ RunsTo(new, nextId) /\ Len(new) <= QueueSize
      /\ Len(new) = IF since = None \/ since >= nextId THEN 0
                    ELSE Lesser(Len(ring), nextId - since)
  <2>1. CASE since = None
    BY <2>1, SizesAre DEF RunsTo
  <2>2. CASE since # None
    <3>1. since \in Nat
      BY <2>2, SizesAssumption DEF None
    <3>2. /\ Replay(since) \in Seq(Event) /\ RunsTo(Replay(since), nextId)
          /\ Len(Replay(since)) <= ReplaySize
          /\ Len(Replay(since)) = IF since >= nextId THEN 0
                                  ELSE Lesser(Len(ring), nextId - since)
      BY <3>1, ReplayIs DEF Inv
    <3>3. Len(Replay(since)) \in Nat
      BY <3>2
    <3>4. Len(Replay(since)) <= QueueSize
      BY <3>2, <3>3, SizesAre, SizesAssumption
    <3>5. QED  BY <2>2, <3>2, <3>4
  <2>3. QED  BY <2>1, <2>2
<1>2. queue' = [queue EXCEPT ![c] = new]
  BY DEF Subscribe
<1> HIDE DEF new
<1>3. queue' \in [Clients -> Seq(Event)] /\ queue'[c] = new
      /\ \A d \in Clients : Len(queue'[d]) <= QueueSize
  BY <1>1, <1>2 DEF Inv, TypeOK
<1>4. /\ open' = open \cup {c}
      /\ presented' = [presented EXCEPT ![c] = since]
      /\ sent' = [sent EXCEPT ![c] = <<>>]
      /\ joined' = [joined EXCEPT ![c] = nextId]
      /\ UNCHANGED <<nextId, ring, lastSeen, life, now, seenAt, used>>
  BY DEF Subscribe, busVars, sessionVars
<1>5. TypeOK'
  BY <1>3, <1>4, SMTT(20) DEF Inv, TypeOK
<1>6. RingInv'
  BY <1>4 DEF Inv, RingInv
<1>7. StreamInv'
  <2> SUFFICES ASSUME NEW d \in open'
               PROVE  Flows(sent'[d], queue'[d], nextId') /\ joined'[d] <= nextId'
    BY DEF StreamInv
  <2>1. CASE d = c
    <3>1. sent'[d] = <<>> /\ joined'[d] = nextId /\ nextId \in Nat
      BY <1>4, <2>1, SizesAssumption DEF Inv, TypeOK
    <3>2. QED  BY <1>1, <1>3, <1>4, <2>1, <3>1 DEF Flows, Ascending
  <2>2. CASE d # c
    <3>1. d \in open /\ sent'[d] = sent[d] /\ queue'[d] = queue[d] /\ joined'[d] = joined[d]
      BY <1>2, <1>4, <2>2 DEF Inv, TypeOK
    <3>2. QED  BY <1>4, <3>1 DEF Inv, StreamInv
  <2>3. QED  BY <2>1, <2>2
<1>8. QED  BY <1>1, <1>3, <1>5, <1>6, <1>7 DEF Inv

LEMMA EmitKeeps ==
  ASSUME Inv, NEW c \in Clients, Emit(c)
  PROVE  Inv'
<1>1. /\ queue[c] \in Seq(Event) /\ sent[c] \in Seq(Event) /\ nextId \in Nat
      /\ queue[c] # <<>> /\ Flows(sent[c], queue[c], nextId) /\ c \in open
  BY SizesAssumption DEF Inv, TypeOK, StreamInv, Emit
<1> DEFINE q == Tail(queue[c])
           s == Append(sent[c], Head(queue[c]))
<1>2. /\ Head(queue[c]) \in Event
      /\ q \in Seq(Event) /\ Len(q) = Len(queue[c]) - 1
      /\ s \in Seq(Event) /\ Flows(s, q, nextId)
  BY <1>1, EmitFlows
<1>3. queue' = [queue EXCEPT ![c] = q] /\ sent' = [sent EXCEPT ![c] = s]
      /\ lastSeen' = [lastSeen EXCEPT ![c] = Head(queue[c]).id]
      /\ UNCHANGED <<nextId, ring, open, presented, joined, life, now, seenAt, used>>
  BY DEF Emit, busVars, sessionVars
<1>4. Len(q) <= QueueSize /\ Head(queue[c]).id \in None..MaxEvents
  <2>1. Head(queue[c]).id \in 1..MaxEvents
    BY <1>2 DEF Event
  <2>2. Head(queue[c]).id \in None..MaxEvents
    BY <2>1, SizesAssumption DEF None
  <2>3. Len(queue[c]) \in Nat /\ Len(queue[c]) <= QueueSize
    BY <1>1 DEF Inv, TypeOK
  <2>4. QED  BY <1>2, <2>2, <2>3, SizesAre
<1> HIDE DEF q, s
<1>5. TypeOK'
  BY <1>2, <1>3, <1>4 DEF Inv, TypeOK
<1>6. RingInv'
  BY <1>3 DEF Inv, RingInv
<1>7. StreamInv'
  <2> SUFFICES ASSUME NEW d \in open'
               PROVE  Flows(sent'[d], queue'[d], nextId') /\ joined'[d] <= nextId'
    BY DEF StreamInv
  <2>1. d \in open /\ d \in Clients /\ joined' = joined /\ nextId' = nextId
    BY <1>3 DEF Inv, TypeOK
  <2>2. joined'[d] <= nextId'
    BY <2>1 DEF Inv, StreamInv
  <2>3. CASE d = c
    <3>1. sent'[d] = s /\ queue'[d] = q
      BY <1>3, <2>1, <2>3 DEF Inv, TypeOK
    <3>2. QED  BY <1>2, <2>1, <2>2, <3>1
  <2>4. CASE d # c
    <3>1. sent'[d] = sent[d] /\ queue'[d] = queue[d]
      BY <1>3, <2>1, <2>4 DEF Inv, TypeOK
    <3>2. QED  BY <2>1, <2>2, <3>1 DEF Inv, StreamInv
  <2>5. QED  BY <2>3, <2>4
<1>8. QED  BY <1>5, <1>6, <1>7 DEF Inv

LEMMA CloseKeeps ==
  ASSUME Inv, NEW c \in Clients, Close(c)
  PROVE  Inv'
<1>1. /\ open' = open \ {c}
      /\ queue' = [queue EXCEPT ![c] = <<>>]
      /\ presented' = [presented EXCEPT ![c] = None]
      /\ sent' = [sent EXCEPT ![c] = <<>>]
      /\ joined' = [joined EXCEPT ![c] = 0]
      /\ UNCHANGED <<nextId, ring, lastSeen, life, now, seenAt, used>>
  BY DEF Close, busVars, sessionVars
<1>2. <<>> \in Seq(Event) /\ Len(<<>>) = 0 /\ QueueSize \in Nat /\ 0 \in 0..MaxEvents
  BY SizesAre, SizesAssumption
<1>3. TypeOK'
  BY <1>1, <1>2, NoneIs, SMTT(20) DEF Inv, TypeOK
<1>4. RingInv'
  BY <1>1 DEF Inv, RingInv
<1>5. StreamInv'
  <2> SUFFICES ASSUME NEW d \in open'
               PROVE  Flows(sent'[d], queue'[d], nextId') /\ joined'[d] <= nextId'
    BY DEF StreamInv
  <2>1. /\ d \in open /\ sent'[d] = sent[d] /\ queue'[d] = queue[d]
        /\ joined'[d] = joined[d] /\ nextId' = nextId
    BY <1>1 DEF Inv, TypeOK
  <2>2. QED  BY <2>1 DEF Inv, StreamInv
<1>6. QED  BY <1>3, <1>4, <1>5 DEF Inv

LEMMA RestartKeeps == ASSUME Inv, Restart PROVE Inv'
<1>1. /\ <<>> \in Seq(Event) /\ Len(<<>>) = 0
      /\ QueueSize \in Nat /\ ReplaySize \in Nat \ {0} /\ MaxEvents \in Nat
  BY SizesAre, SizesAssumption
<1>2. life' \in 0..MaxLives
  BY SizesAssumption DEF Restart, Inv, TypeOK
<1>3. TypeOK'
  BY <1>1, <1>2, NoneIs DEF Restart, Inv, TypeOK
<1>4. RingInv' /\ StreamInv'
  BY <1>1 DEF Restart, RingInv, StreamInv, RunsTo, Lesser
<1>5. QED  BY <1>3, <1>4 DEF Inv

LEMMA FreshIs ==
  ASSUME TypeOK, NEW table \in [Sessions -> None..MaxNow]
  PROVE  /\ ReapIdle(table) \in [Sessions -> None..MaxNow]
         /\ \A s \in Sessions :
              ReapIdle(table)[s] = IF table[s] # None /\ now - table[s] < IdleSeconds
                                   THEN table[s] ELSE None
BY NoneIs DEF ReapIdle, Fresh

LEMMA SessionStepKeeps ==
  ASSUME Inv, SessionStep
  PROVE  /\ Inv'
         /\ UNCHANGED <<busVars, streamVars>>
<1>1. UNCHANGED <<busVars, streamVars, life>>
  BY DEF SessionStep, Post, Initialize, Delete, ReaperTick, Tick
<1>2. /\ now' \in 0..MaxNow
      /\ seenAt' \in [Sessions -> None..MaxNow]
      /\ used' \in [Sessions -> None..MaxNow]
  <2>1. /\ TypeOK /\ now \in 0..MaxNow /\ now \in None..MaxNow /\ MaxNow \in Nat
        /\ seenAt \in [Sessions -> None..MaxNow] /\ used \in [Sessions -> None..MaxNow]
        /\ None \in None..MaxNow
    BY SizesAssumption, NoneIs DEF Inv, TypeOK
  <2>2. CASE \E s \in Sessions : Post(s)
    <3>1. PICK s \in Sessions : Post(s)
      BY <2>2
    <3>2. Touch(seenAt, s) \in [Sessions -> None..MaxNow]
      BY <2>1 DEF Touch
    <3>3. QED  BY <2>1, <3>1, <3>2, FreshIs DEF Post
  <2>3. CASE \E s \in Sessions : Initialize(s)
    <3>1. PICK s \in Sessions : Initialize(s)
      BY <2>3
    <3>2. ReapIdle(seenAt) \in [Sessions -> None..MaxNow]
      BY <2>1, FreshIs
    <3>3. QED  BY <2>1, <3>1, <3>2 DEF Initialize
  <2>4. CASE \E s \in Sessions : Delete(s)
    BY <2>1, <2>4 DEF Delete
  <2>5. CASE ReaperTick
    BY <2>1, <2>5, FreshIs DEF ReaperTick
  <2>6. CASE Tick
    BY <2>1, <2>6 DEF Tick
  <2>7. QED  BY <2>2, <2>3, <2>4, <2>5, <2>6 DEF SessionStep
<1>3. UNCHANGED <<nextId, ring, open, queue, lastSeen, presented, sent, joined, life>>
  BY <1>1 DEF busVars, streamVars
<1>4. TypeOK'
  BY <1>2, <1>3 DEF Inv, TypeOK
<1>5. RingInv' /\ StreamInv'
  BY <1>3 DEF Inv, RingInv, StreamInv
<1>6. QED  BY <1>1, <1>4, <1>5 DEF Inv

LEMMA InvStep == Inv /\ [Next]_vars => Inv'
<1> SUFFICES ASSUME Inv, [Next]_vars PROVE Inv'
  OBVIOUS
<1>1. CASE PublishListChanged \/ PublishNotification
  BY <1>1, PublishIs, PublishedKeeps DEF Inv
<1>2. ASSUME NEW c \in Clients, NEW since \in {lastSeen[c], None}, Subscribe(c, since)
      PROVE  Inv'
  <2>1. since \in None..MaxEvents
    BY NoneIs DEF Inv, TypeOK
  <2>2. QED  BY <1>2, <2>1, SubscribeKeeps
<1>3. CASE \E c \in Clients : Emit(c) \/ Close(c)
  BY <1>3, EmitKeeps, CloseKeeps
<1>4. CASE Restart
  BY <1>4, RestartKeeps
<1>5. CASE SessionStep
  BY <1>5, SessionStepKeeps
<1>6. CASE UNCHANGED vars
  BY <1>6 DEF vars, busVars, streamVars, sessionVars, Inv, TypeOK, RingInv, StreamInv
<1>7. QED  BY <1>1, <1>2, <1>3, <1>4, <1>5, <1>6, StepCases

LEMMA InvHolds == Spec => []Inv
<1>1. Init => Inv  BY InitInv
<1>2. Inv /\ [Next]_vars => Inv'  BY InvStep
<1>3. QED  BY <1>1, <1>2, PTL DEF Spec

-----------------------------------------------------------------------------
(* News.                                                                   *)

\* What one open stream is, in the terms of the invariants.
LEMMA StreamIs ==
  ASSUME Inv, NEW c \in open
  PROVE  /\ c \in Clients
         /\ nextId \in Nat /\ joined[c] \in Nat /\ joined[c] <= nextId
         /\ presented[c] \in Int /\ presented[c] >= -1
         /\ sent[c] \in Seq(Event) /\ queue[c] \in Seq(Event)
         /\ Len(queue[c]) \in Nat /\ Len(sent[c]) \in Nat
         /\ Flows(sent[c], queue[c], nextId)
BY SizesAssumption DEF Inv, TypeOK, StreamInv, None

LEMMA NewsStep == Inv /\ NewsInv /\ [Next]_vars => NewsInv'
<1> SUFFICES ASSUME Inv, NewsInv, [Next]_vars,
                    NEW c \in open'
             PROVE  /\ Lesser(presented'[c], joined'[c]) <= nextId' - Len(queue'[c])
                    /\ \A i \in 1..Len(sent'[c]) :
                         IsNews(sent'[c][i], presented'[c], joined'[c])
  BY DEF NewsInv
<1> USE DEF NewsInv
<1>1. CASE PublishListChanged \/ PublishNotification
  <2>1. PICK events \in Seq(Event) : Published(events) /\ nextId' \in 0..MaxEvents
    BY <1>1, PublishIs DEF Inv
  <2>2. c \in open /\ sent' = sent /\ presented' = presented /\ joined' = joined
    BY <2>1 DEF Published
  <2>3. /\ nextId - Len(queue[c]) <= nextId' - Len(queue'[c])
        /\ Inv' /\ c \in open'
    BY <2>1, <2>2, PublishedKeeps
  <2>4. nextId' \in Nat /\ queue'[c] \in Seq(Event) /\ Len(queue'[c]) \in Nat
    <3>1. c \in Clients
      BY <2>2, StreamIs
    <3>2. QED  BY <2>1, <2>3, <3>1, SizesAssumption DEF Inv, TypeOK
  <2>5. Lesser(presented[c], joined[c]) \in Int
    BY <2>2, StreamIs DEF Lesser
  <2>6. Lesser(presented[c], joined[c]) <= nextId - Len(queue[c])
    BY <2>2
  <2>7. nextId - Len(queue[c]) \in Int /\ nextId' - Len(queue'[c]) \in Int
    BY <2>2, <2>4, StreamIs
  <2>8. Lesser(presented[c], joined[c]) <= nextId' - Len(queue'[c])
    BY ONLY <2>3, <2>5, <2>6, <2>7
  <2>9. QED  BY <2>2, <2>8
<1>2. ASSUME NEW d \in Clients, NEW since \in {lastSeen[d], None}, Subscribe(d, since)
      PROVE  /\ Lesser(presented'[c], joined'[c]) <= nextId' - Len(queue'[c])
             /\ \A i \in 1..Len(sent'[c]) :
                  IsNews(sent'[c][i], presented'[c], joined'[c])
  <2>1. since \in None..MaxEvents
    BY NoneIs DEF Inv, TypeOK
  <2>2. Len(queue'[d]) = IF since = None \/ since >= nextId THEN 0
                         ELSE Lesser(Len(ring), nextId - since)
    BY <1>2, <2>1, SubscribeKeeps
  <2>3. nextId' = nextId /\ nextId \in Nat /\ since \in Int /\ ring \in Seq(Event)
        /\ Len(ring) \in Nat
    BY <1>2, <2>1, SizesAssumption DEF Subscribe, busVars, None, Inv, TypeOK
  <2>4. CASE c = d
    <3>1. presented'[c] = since /\ joined'[c] = nextId /\ sent'[c] = <<>>
      BY <1>2, <2>4 DEF Subscribe, Inv, TypeOK
    <3>2. Lesser(since, nextId) <= nextId - Len(queue'[d])
      BY <2>1, <2>2, <2>3, NoneIs DEF Lesser
    <3>3. QED  BY <2>3, <2>4, <3>1, <3>2
  <2>5. CASE c # d
    <3>1. /\ c \in open /\ presented'[c] = presented[c] /\ joined'[c] = joined[c]
          /\ sent'[c] = sent[c] /\ queue'[c] = queue[c]
      BY <1>2, <2>5 DEF Subscribe, Inv, TypeOK
    <3>2. QED  BY <2>3, <3>1
  <2>6. QED  BY <2>4, <2>5
<1>3. ASSUME NEW d \in Clients, Emit(d)
      PROVE  /\ Lesser(presented'[c], joined'[c]) <= nextId' - Len(queue'[c])
             /\ \A i \in 1..Len(sent'[c]) :
                  IsNews(sent'[c][i], presented'[c], joined'[c])
  <2>1. c \in open /\ presented' = presented /\ joined' = joined /\ nextId' = nextId
    BY <1>3 DEF Emit, busVars
  <2>2. /\ nextId \in Nat /\ joined[c] \in Nat /\ presented[c] \in Int
        /\ sent[c] \in Seq(Event) /\ queue[c] \in Seq(Event)
        /\ Len(queue[c]) \in Nat /\ Len(sent[c]) \in Nat
        /\ Flows(sent[c], queue[c], nextId)
    BY <2>1, StreamIs
  <2>3. CASE c = d
    <3>1. queue[c] # <<>> /\ queue'[c] = Tail(queue[c])
          /\ sent'[c] = Append(sent[c], Head(queue[c]))
      BY <1>3, <2>3 DEF Emit, Inv, TypeOK
    <3>2. /\ Head(queue[c]).id = nextId - Len(queue[c]) + 1
          /\ Len(queue'[c]) = Len(queue[c]) - 1
      BY <2>2, <3>1, EmitFlows
    <3>3. Lesser(presented[c], joined[c]) <= nextId - Len(queue[c])
      BY <2>1
    <3>4. IsNews(Head(queue[c]), presented[c], joined[c])
      BY <2>2, <3>2, <3>3 DEF IsNews, Lesser
    <3>5. Head(queue[c]) \in Event
      BY <2>2, <3>1, EmitFlows
    <3>6. /\ Len(sent'[c]) = Len(sent[c]) + 1
          /\ \A i \in 1..Len(sent[c]) : sent'[c][i] = sent[c][i]
          /\ sent'[c][Len(sent[c]) + 1] = Head(queue[c])
      BY <2>2, <3>1, <3>5, AppendProperties
    <3>7. Lesser(presented[c], joined[c]) <= nextId - Len(queue'[c])
      BY <2>2, <3>2, <3>3, SMTT(20) DEF Lesser
    <3>8. \A i \in 1..Len(sent'[c]) : IsNews(sent'[c][i], presented[c], joined[c])
      <4> SUFFICES ASSUME NEW i \in 1..Len(sent'[c])
                   PROVE  IsNews(sent'[c][i], presented[c], joined[c])
        OBVIOUS
      <4>1. CASE i = Len(sent[c]) + 1
        BY <3>4, <3>6, <4>1
      <4>2. CASE i \in 1..Len(sent[c])
        BY <2>1, <3>6, <4>2
      <4>3. QED  BY <2>2, <3>6, <4>1, <4>2
    <3>9. QED  BY <2>1, <3>7, <3>8
  <2>4. CASE c # d
    <3>1. sent'[c] = sent[c] /\ queue'[c] = queue[c]
      BY <1>3, <2>1, <2>4 DEF Emit, Inv, TypeOK
    <3>2. QED  BY <2>1, <3>1
  <2>5. QED  BY <2>3, <2>4
<1>4. ASSUME NEW d \in Clients, Close(d)
      PROVE  /\ Lesser(presented'[c], joined'[c]) <= nextId' - Len(queue'[c])
             /\ \A i \in 1..Len(sent'[c]) :
                  IsNews(sent'[c][i], presented'[c], joined'[c])
  <2>1. /\ c \in open /\ presented'[c] = presented[c] /\ joined'[c] = joined[c]
        /\ sent'[c] = sent[c] /\ queue'[c] = queue[c] /\ nextId' = nextId
    BY <1>4 DEF Close, busVars, Inv, TypeOK
  <2>2. QED  BY <2>1
<1>5. CASE Restart
  BY <1>5 DEF Restart
<1>6. CASE SessionStep
  BY <1>6, SessionStepKeeps DEF busVars, streamVars
<1>7. CASE UNCHANGED vars
  BY <1>7 DEF vars, busVars, streamVars
<1>8. QED  BY <1>1, <1>2, <1>3, <1>4, <1>5, <1>6, <1>7, StepCases

-----------------------------------------------------------------------------
(* Nothing is missed that may not be.                                      *)

\* A queue drops only what replay_size later events push out.
LEMMA DroppedAreOld ==
  ASSUME NEW n \in Nat, NEW m \in Nat, NEW q \in Nat, NEW r \in Nat,
         r = Lesser(q + m, QueueSize), NEW i \in Nat, i > n - q, i <= (n + m) - r
  PROVE  i <= (n + m) - ReplaySize
BY SizesAre, SizesAssumption DEF Lesser

\* A replay leaves out only what the client has or what left the ring.
LEMMA LeftOutMayBe ==
  ASSUME NEW n \in Nat, NEW since \in None..MaxEvents, NEW l \in Nat,
         l = IF since = None \/ since >= n THEN 0
             ELSE Lesser(Lesser(n, ReplaySize), n - since),
         NEW i \in Nat \ {0}, i <= n - l
  PROVE  MayMiss(i, n, since, n)
<1>1. n \in Int /\ since \in Int /\ ReplaySize \in Nat /\ MaxEvents \in Nat
  BY SizesAssumption DEF None
<1>2. CASE since = None \/ since >= n
  <2>1. l = 0
    BY <1>2
  <2>2. i <= n
    BY <2>1
  <2>3. since = None \/ i <= since
    BY <1>1, <1>2, <2>2
  <2>4. QED  BY <2>2, <2>3 DEF MayMiss
<1>3. CASE ~(since = None \/ since >= n)
  <2>1. l = Lesser(Lesser(n, ReplaySize), n - since) /\ since < n /\ since >= 0
    BY <1>1, <1>3 DEF None
  <2>2. l = n \/ l = ReplaySize \/ l = n - since
    BY <2>1 DEF Lesser
  <2>3. CASE l = n
    BY <2>3
  <2>4. CASE l = ReplaySize
    BY <2>4 DEF MayMiss
  <2>5. CASE l = n - since
    BY <1>1, <2>1, <2>5 DEF MayMiss
  <2>6. QED  BY <2>2, <2>3, <2>4, <2>5
<1>4. QED  BY <1>2, <1>3

LEMMA AccountStep == Inv /\ AccountInv /\ [Next]_vars => AccountInv'
<1> DEFINE Accounted(c, i) ==
             Sent(sent[c], i) \/ MayMiss(i, nextId, presented[c], joined[c])
<1> SUFFICES ASSUME Inv, AccountInv, [Next]_vars,
                    NEW c \in open', NEW i \in 1..(nextId' - Len(queue'[c]))
             PROVE  Sent(sent'[c], i) \/ MayMiss(i, nextId', presented'[c], joined'[c])
  BY DEF AccountInv
<1>0. i \in Nat \ {0} /\ i <= nextId' - Len(queue'[c])
  <2>1. nextId' \in Nat /\ Len(queue'[c]) \in Nat
    BY InvStep, SizesAssumption DEF Inv, TypeOK
  <2>2. QED  BY <2>1
<1>1. CASE PublishListChanged \/ PublishNotification
  <2>1. PICK events \in Seq(Event) : Published(events) /\ nextId' \in 0..MaxEvents
    BY <1>1, PublishIs DEF Inv
  <2>2. /\ c \in open /\ sent' = sent /\ presented' = presented /\ joined' = joined
        /\ nextId' = nextId + Len(events)
    BY <2>1 DEF Published
  <2>3. /\ Len(queue'[c]) = Lesser(Len(queue[c]) + Len(events), QueueSize)
        /\ Inv'
    BY <2>1, <2>2, PublishedKeeps
  <2>4. nextId \in Nat /\ Len(events) \in Nat /\ Len(queue[c]) \in Nat
    BY <2>2, StreamIs
  <2>5. Len(queue'[c]) \in Nat
    BY <2>2, <2>3, <2>4, SizesAre DEF Lesser
  <2>6. i <= (nextId + Len(events)) - Len(queue'[c])
    BY <1>0, <2>2
  <2>7. CASE i > nextId - Len(queue[c])
    <3>1. i <= (nextId + Len(events)) - ReplaySize
      BY <1>0, <2>3, <2>4, <2>5, <2>6, <2>7, DroppedAreOld
    <3>2. nextId' - ReplaySize = (nextId + Len(events)) - ReplaySize
      BY <2>2
    <3>3. QED  BY <3>1, <3>2 DEF MayMiss
  <2>8. CASE i <= nextId - Len(queue[c])
    <3>1. Accounted(c, i)
      BY <1>0, <2>2, <2>4, <2>8 DEF AccountInv
    <3>2. i <= nextId - ReplaySize => i <= nextId' - ReplaySize
      BY <1>0, <2>2, <2>4, SizesAssumption
    <3>3. QED  BY <2>2, <3>1, <3>2 DEF MayMiss
  <2>9. QED  BY <1>0, <2>4, <2>7, <2>8
<1>2. ASSUME NEW d \in Clients, NEW since \in {lastSeen[d], None}, Subscribe(d, since)
      PROVE  Sent(sent'[c], i) \/ MayMiss(i, nextId', presented'[c], joined'[c])
  <2>1. since \in None..MaxEvents
    BY NoneIs DEF Inv, TypeOK
  <2>2. nextId' = nextId /\ nextId \in Nat
    BY <1>2, SizesAssumption DEF Subscribe, busVars, Inv, TypeOK
  <2>3. CASE c = d
    <3>1. presented'[c] = since /\ joined'[c] = nextId
      BY <1>2, <2>3 DEF Subscribe, Inv, TypeOK
    <3>2. /\ Len(queue'[c]) = IF since = None \/ since >= nextId THEN 0
                             ELSE Lesser(Lesser(nextId, ReplaySize), nextId - since)
          /\ queue'[c] \in Seq(Event)
      BY <1>2, <2>1, <2>3, SubscribeKeeps DEF Inv, RingInv, TypeOK
    <3>3. Len(queue'[c]) \in Nat
      BY <3>2
    <3>4. MayMiss(i, nextId, since, nextId)
      BY <1>0, <2>1, <2>2, <3>2, <3>3, LeftOutMayBe
    <3>5. QED  BY <2>2, <3>1, <3>4
  <2>4. CASE c # d
    <3>1. /\ c \in open /\ presented'[c] = presented[c] /\ joined'[c] = joined[c]
          /\ sent'[c] = sent[c] /\ queue'[c] = queue[c]
      BY <1>2, <2>4 DEF Subscribe, Inv, TypeOK
    <3>2. QED  BY <2>2, <3>1 DEF AccountInv
  <2>5. QED  BY <2>3, <2>4
<1>3. ASSUME NEW d \in Clients, Emit(d)
      PROVE  Sent(sent'[c], i) \/ MayMiss(i, nextId', presented'[c], joined'[c])
  <2>1. c \in open /\ presented' = presented /\ joined' = joined /\ nextId' = nextId
    BY <1>3 DEF Emit, busVars
  <2>2. /\ nextId \in Nat /\ sent[c] \in Seq(Event) /\ queue[c] \in Seq(Event)
        /\ Len(queue[c]) \in Nat /\ Len(sent[c]) \in Nat
        /\ Flows(sent[c], queue[c], nextId)
    BY <2>1, StreamIs
  <2>3. CASE c = d
    <3>1. queue[c] # <<>> /\ queue'[c] = Tail(queue[c])
          /\ sent'[c] = Append(sent[c], Head(queue[c]))
      BY <1>3, <2>3 DEF Emit, Inv, TypeOK
    <3>2. /\ Head(queue[c]).id = nextId - Len(queue[c]) + 1
          /\ Len(queue'[c]) = Len(queue[c]) - 1
          /\ Head(queue[c]) \in Event
      BY <2>2, <3>1, EmitFlows
    <3>3. /\ Len(sent'[c]) = Len(sent[c]) + 1
          /\ \A k \in 1..Len(sent[c]) : sent'[c][k] = sent[c][k]
          /\ sent'[c][Len(sent[c]) + 1] = Head(queue[c])
      BY <2>2, <3>1, <3>2, AppendProperties
    <3>4. CASE i = nextId - Len(queue[c]) + 1
      <4>1. Len(sent[c]) + 1 \in 1..Len(sent'[c])
        BY <2>2, <3>3
      <4>2. sent'[c][Len(sent[c]) + 1].id = i
        BY <3>2, <3>3, <3>4
      <4>3. QED  BY <4>1, <4>2 DEF Sent
    <3>5. CASE i \in 1..(nextId - Len(queue[c]))
      <4>1. Accounted(c, i)
        BY <2>1, <3>5 DEF AccountInv
      <4>2. Sent(sent[c], i) => Sent(sent'[c], i)
        <5> SUFFICES ASSUME NEW k \in 1..Len(sent[c]), sent[c][k].id = i
                     PROVE  Sent(sent'[c], i)
          BY DEF Sent
        <5>1. k \in 1..Len(sent'[c]) /\ sent'[c][k].id = i
          BY <2>2, <3>3
        <5>2. QED  BY <5>1 DEF Sent
      <4>3. QED  BY <2>1, <4>1, <4>2
    <3>6. i = nextId - Len(queue[c]) + 1 \/ i \in 1..(nextId - Len(queue[c]))
      BY <1>0, <2>1, <2>2, <3>2, SMTT(20)
    <3>7. QED  BY <3>4, <3>5, <3>6
  <2>4. CASE c # d
    <3>1. sent'[c] = sent[c] /\ queue'[c] = queue[c]
      BY <1>3, <2>1, <2>4 DEF Emit, Inv, TypeOK
    <3>2. QED  BY <2>1, <3>1 DEF AccountInv
  <2>5. QED  BY <2>3, <2>4
<1>4. ASSUME NEW d \in Clients, Close(d)
      PROVE  Sent(sent'[c], i) \/ MayMiss(i, nextId', presented'[c], joined'[c])
  <2>1. /\ c \in open /\ presented'[c] = presented[c] /\ joined'[c] = joined[c]
        /\ sent'[c] = sent[c] /\ queue'[c] = queue[c] /\ nextId' = nextId
    BY <1>4 DEF Close, busVars, Inv, TypeOK
  <2>2. QED  BY <2>1 DEF AccountInv
<1>5. CASE Restart
  BY <1>5 DEF Restart
<1>6. CASE SessionStep
  BY <1>6, SessionStepKeeps DEF busVars, streamVars, AccountInv
<1>7. CASE UNCHANGED vars
  BY <1>7 DEF vars, busVars, streamVars, AccountInv
<1>8. QED  BY <1>1, <1>2, <1>3, <1>4, <1>5, <1>6, <1>7, StepCases

-----------------------------------------------------------------------------
(* The sessions.                                                           *)

LEMMA SessionInvStep == TypeOK /\ SessionInv /\ [Next]_vars => SessionInv'
<1> SUFFICES ASSUME TypeOK, SessionInv, [Next]_vars PROVE SessionInv'
  OBVIOUS
<1>1. /\ IdleSeconds \in Nat /\ now \in Nat /\ None = -1
      /\ seenAt \in [Sessions -> None..MaxNow] /\ used \in [Sessions -> None..MaxNow]
  BY SizesAssumption DEF TypeOK, None
<1>2. CASE UNCHANGED sessionVars
  BY <1>2 DEF sessionVars, SessionInv
<1>3. CASE Restart
  BY <1>3 DEF Restart, SessionInv
<1>4. ASSUME NEW s \in Sessions, Post(s)
      PROVE  SessionInv'
  <2>1. /\ now' = now
        /\ used' = IF seenAt[s] = None THEN used ELSE [used EXCEPT ![s] = now]
    BY <1>4 DEF Post
  <2>2. Touch(seenAt, s) \in [Sessions -> None..MaxNow]
    BY <1>1 DEF Touch, TypeOK, None
  <2>3. /\ seenAt' = ReapIdle(Touch(seenAt, s))
        /\ \A t \in Sessions :
             ReapIdle(Touch(seenAt, s))[t] =
               IF Touch(seenAt, s)[t] # None /\ now - Touch(seenAt, s)[t] < IdleSeconds
               THEN Touch(seenAt, s)[t] ELSE None
    BY <1>4, <2>2, FreshIs DEF Post
  <2>4. \A t \in Sessions :
          Touch(seenAt, s)[t] = IF t = s /\ seenAt[s] # None THEN now ELSE seenAt[t]
    BY <1>1 DEF Touch
  <2>5. \A t \in Sessions :
          used'[t] = IF t = s /\ seenAt[s] # None THEN now ELSE used[t]
    BY <1>1, <2>1
  <2>6. QED  BY <1>1, <2>1, <2>3, <2>4, <2>5 DEF SessionInv
<1>5. ASSUME NEW s \in Sessions, Initialize(s)
      PROVE  SessionInv'
  <2>1. /\ now' = now /\ used[s] = None /\ used' = [used EXCEPT ![s] = now]
        /\ seenAt' = [ReapIdle(seenAt) EXCEPT ![s] = now]
    BY <1>5 DEF Initialize
  <2>2. /\ ReapIdle(seenAt) \in [Sessions -> None..MaxNow]
        /\ \A t \in Sessions :
             ReapIdle(seenAt)[t] = IF seenAt[t] # None /\ now - seenAt[t] < IdleSeconds
                                   THEN seenAt[t] ELSE None
    BY <1>1, FreshIs
  <2>3. QED  BY <1>1, <2>1, <2>2 DEF SessionInv
<1>6. ASSUME NEW s \in Sessions, Delete(s)
      PROVE  SessionInv'
  BY <1>1, <1>6 DEF Delete, SessionInv
<1>7. CASE ReaperTick
  <2>1. now' = now /\ used' = used /\ seenAt' = ReapIdle(seenAt)
    BY <1>7 DEF ReaperTick
  <2>2. \A t \in Sessions :
          ReapIdle(seenAt)[t] = IF seenAt[t] # None /\ now - seenAt[t] < IdleSeconds
                                THEN seenAt[t] ELSE None
    BY <1>1, FreshIs
  <2>3. QED  BY <1>1, <2>1, <2>2 DEF SessionInv
<1>8. CASE Tick
  BY <1>1, <1>8 DEF Tick, SessionInv
<1>9. CASE PublishListChanged \/ PublishNotification
  BY <1>2, <1>9 DEF PublishListChanged, PublishNotification, Put
<1>10. CASE \E c \in Clients : \E since \in {lastSeen[c], None} : Subscribe(c, since)
  BY <1>2, <1>10 DEF Subscribe
<1>11. CASE \E c \in Clients : Emit(c) \/ Close(c)
  BY <1>2, <1>11 DEF Emit, Close
<1>12. CASE UNCHANGED vars
  BY <1>2, <1>12 DEF vars
<1>13. QED
  BY <1>3, <1>4, <1>5, <1>6, <1>7, <1>8, <1>9, <1>10, <1>11, <1>12, StepCases
     DEF SessionStep

-----------------------------------------------------------------------------
(* The theorems.                                                           *)

LEMMA SidesHold == Spec => [](Inv /\ NewsInv /\ AccountInv /\ SessionInv)
<1>1. Init => NewsInv /\ AccountInv /\ SessionInv
  BY DEF Init, NewsInv, AccountInv, SessionInv
<1>2. Inv => TypeOK
  BY DEF Inv
<1>3. Spec => []NewsInv
  BY <1>1, NewsStep, InvHolds, PTL DEF Spec
<1>4. Spec => []AccountInv
  BY <1>1, AccountStep, InvHolds, PTL DEF Spec
<1>5. Spec => []SessionInv
  BY <1>1, <1>2, SessionInvStep, InvHolds, PTL DEF Spec
<1>6. QED  BY <1>3, <1>4, <1>5, InvHolds, PTL

\* The sequence that was sent and is held: which ids it has, in which order.
LEMMA FlowsOn ==
  ASSUME NEW s \in Seq(Event), NEW q \in Seq(Event), NEW n \in Nat, Flows(s, q, n),
         NEW t, t = s \o q
  PROVE  /\ \A e \in ToSet(t) :
              e.id > n - Len(q) \/ \E k \in 1..Len(s) : e = s[k]
         /\ \A k \in 1..Len(s) : s[k] \in ToSet(t)
         /\ \A i \in 1..n : i > n - Len(q) => \E e \in ToSet(t) : e.id = i
         /\ Ascending(t)
<1> DEFINE m == Len(s)
           l == Len(q)
<1>1. /\ m \in Nat /\ l \in Nat /\ t \in Seq(Event) /\ Len(t) = m + l
      /\ DOMAIN t = 1..(m + l) /\ DOMAIN s = 1..m
      /\ \A i \in 1..(m + l) : t[i] = IF i <= m THEN s[i] ELSE q[i - m]
  BY ConcatProperties
<1>2. \A i \in 1..l : q[i].id = n - l + i
  BY DEF Flows, RunsTo
<1>3. \A i \in 1..m : s[i].id \in Nat /\ s[i].id <= n - l
  BY EventIds DEF Flows
<1>4. \A i, j \in 1..m : i < j => s[i].id < s[j].id
  BY <1>1 DEF Flows, Ascending, Before
<1> HIDE DEF m, l
<1>5. ASSUME NEW i \in 1..(m + l), i > m
      PROVE  i - m \in 1..l /\ t[i] = q[i - m] /\ t[i].id = n - l + (i - m)
  <2>1. i - m \in 1..l /\ ~(i <= m)
    BY <1>1, <1>5
  <2>2. QED  BY <1>1, <1>2, <2>1
<1>6. ASSUME NEW i \in 1..m
      PROVE  i \in 1..(m + l) /\ t[i] = s[i]
  BY <1>1
<1>7. ASSUME NEW e \in ToSet(t)
      PROVE  e.id > n - l \/ \E k \in 1..m : e = s[k]
  <2>1. PICK i \in 1..(m + l) : e = t[i]
    BY <1>1 DEF ToSet
  <2>2. CASE i > m
    BY <1>1, <1>5, <2>1, <2>2
  <2>3. CASE i <= m
    BY <1>1, <2>1, <2>3
  <2>4. QED  BY <1>1, <2>2, <2>3
<1>8. ASSUME NEW k \in 1..m
      PROVE  s[k] \in ToSet(t)
  BY <1>1, <1>6 DEF ToSet
<1>9. ASSUME NEW i \in 1..n, i > n - l
      PROVE  \E e \in ToSet(t) : e.id = i
  <2>1. PICK k \in 1..l : i = n - l + k
    <3>1. i - (n - l) \in 1..l /\ i = n - l + (i - (n - l))
      BY <1>1, <1>9
    <3>2. QED  BY <3>1
  <2>2. m + k \in 1..(m + l) /\ m + k > m /\ (m + k) - m = k
    BY <1>1
  <2>3. t[m + k].id = i
    BY <1>5, <2>1, <2>2
  <2>4. t[m + k] \in ToSet(t)
    BY <1>1, <2>2 DEF ToSet
  <2>5. QED  BY <2>3, <2>4
<1>10. ASSUME NEW i \in 1..(m + l), NEW j \in 1..(m + l), i < j
       PROVE  t[i].id < t[j].id
  <2>1. CASE j <= m
    <3>1. i \in 1..m /\ j \in 1..m
      BY <1>1, <1>10, <2>1
    <3>2. QED  BY <1>4, <1>6, <1>10, <3>1
  <2>2. CASE i <= m /\ j > m
    <3>1. i \in 1..m
      BY <1>1, <2>2
    <3>2. t[i].id \in Nat /\ t[i].id <= n - l
      BY <1>3, <1>6, <3>1
    <3>3. t[j].id = n - l + (j - m)
      BY <1>5, <2>2
    <3>4. QED  BY <1>1, <2>2, <3>2, <3>3, SMTT(20)
  <2>3. CASE i > m
    <3>1. j > m
      BY <1>1, <1>10, <2>3
    <3>2. t[i].id = n - l + (i - m) /\ t[j].id = n - l + (j - m)
      BY <1>5, <2>3, <3>1
    <3>3. QED  BY <1>1, <1>10, <3>2
  <2>4. QED  BY <1>1, <2>1, <2>2, <2>3
<1>11. Ascending(t)
  BY <1>1, <1>10 DEF Ascending, Before
<1>12. QED  BY <1>7, <1>8, <1>9, <1>11 DEF m, l

LEMMA ArrivesIs ==
  ASSUME Inv, NEW c \in open
  PROVE  /\ \A e \in ToSet(Arrives(c)) :
              e.id > nextId - Len(queue[c]) \/ \E k \in 1..Len(sent[c]) : e = sent[c][k]
         /\ \A k \in 1..Len(sent[c]) : sent[c][k] \in ToSet(Arrives(c))
         /\ \A i \in 1..nextId : i > nextId - Len(queue[c]) =>
              \E e \in ToSet(Arrives(c)) : e.id = i
         /\ Ascending(Arrives(c))
BY StreamIs, FlowsOn DEF Arrives

LEMMA InOrder ==
  ASSUME Inv, NewsInv
  PROVE  InOrderOnce
<1> SUFFICES ASSUME NEW c \in open
             PROVE  /\ Ascending(Arrives(c))
                    /\ \A e \in ToSet(Arrives(c)) : e.id > presented[c] \/ e.id > joined[c]
  BY DEF InOrderOnce
<1>1. ASSUME NEW e \in ToSet(Arrives(c))
      PROVE  e.id > presented[c] \/ e.id > joined[c]
  <2>1. CASE \E k \in 1..Len(sent[c]) : e = sent[c][k]
    BY <2>1 DEF NewsInv, IsNews
  <2>2. CASE e.id > nextId - Len(queue[c])
    <3>1. Lesser(presented[c], joined[c]) <= nextId - Len(queue[c])
      BY DEF NewsInv
    <3>2. /\ nextId \in Nat /\ joined[c] \in Nat /\ presented[c] \in Int
          /\ Len(queue[c]) \in Nat
      BY StreamIs
    <3>3. e.id \in Nat
      <4>1. Arrives(c) \in Seq(Event)
        BY StreamIs, ConcatProperties DEF Arrives
      <4>2. QED  BY <4>1, EventIds DEF ToSet
    <3>4. QED  BY <2>2, <3>1, <3>2, <3>3 DEF Lesser
  <2>3. QED  BY <2>1, <2>2, ArrivesIs
<1>2. QED  BY <1>1, ArrivesIs

LEMMA MissesOld ==
  ASSUME Inv, AccountInv
  PROVE  MissesOnlyOld
<1> SUFFICES ASSUME NEW c \in open, NEW i \in 1..nextId
             PROVE  \/ \E e \in ToSet(Arrives(c)) : e.id = i
                    \/ MayMiss(i, nextId, presented[c], joined[c])
  BY DEF MissesOnlyOld, MayMiss
<1>1. nextId \in Nat /\ Len(queue[c]) \in Nat
  BY StreamIs
<1>2. CASE i > nextId - Len(queue[c])
  BY <1>2, ArrivesIs
<1>3. CASE i <= nextId - Len(queue[c])
  <2>1. i \in 1..(nextId - Len(queue[c]))
    BY <1>1, <1>3
  <2>2. Sent(sent[c], i) \/ MayMiss(i, nextId, presented[c], joined[c])
    BY <2>1 DEF AccountInv
  <2>3. ASSUME NEW k \in 1..Len(sent[c]), sent[c][k].id = i
        PROVE  \E e \in ToSet(Arrives(c)) : e.id = i
    BY <2>3, ArrivesIs
  <2>4. QED  BY <2>2, <2>3 DEF Sent
<1>4. QED  BY <1>1, <1>2, <1>3

\* The ids, the ring, every queue and the table of sessions stay within their
\* types and their sizes (events.py, mcp_endpoint.py).
THEOREM StreamsTypeCorrect == Spec => []TypeOK
<1>1. Inv => TypeOK
  BY DEF Inv
<1>2. QED  BY <1>1, InvHolds, PTL

\* A stream delivers in the order of publication, nothing twice, and nothing
\* its client said it has, whatever is dropped on the way: subscribe's
\* replay joins the pushes that follow it without an overlap.
THEOREM DeliversInOrderOnce == Spec => []InOrderOnce
<1>1. Inv /\ NewsInv => InOrderOnce
  BY InOrder
<1>2. QED  BY <1>1, SidesHold, PTL

\* A stream lacks an event only when replay_size later ones followed it or
\* its client said it needs none: the queue is never the tighter of the two
\* bounds, and the replay leaves no gap before the pushes.
THEOREM MissesOnlyOldOnes == Spec => []MissesOnlyOld
<1>1. Inv /\ AccountInv => MissesOnlyOld
  BY MissesOld
<1>2. QED  BY <1>1, SidesHold, PTL

\* A session that a POST named within the idle time is in the table: neither
\* that POST, nor another session's, nor the loop reaps it.
THEOREM UsedSessionsStay == Spec => []UsedSessionStays
<1>1. Inv /\ SessionInv => UsedSessionStays
  BY SizesAssumption DEF SessionInv, UsedSessionStays, Inv, TypeOK, None
<1>2. QED  BY <1>1, SidesHold, PTL

=============================================================================
