------------------------- MODULE ToolGateway_proofs -------------------------
(***************************************************************************)
(* Proofs about ToolGateway for any number of requests, admin requests and *)
(* tools.  The argument, one lemma per part:                               *)
(*   - everybody who waits for the database stands in its queue, once      *)
(*     (QueueInv);                                                         *)
(*   - a request that holds rows from before a change stands ahead of the  *)
(*     change's author, unless the author publishes nothing (RowsInv);     *)
(*   - hence it stores them before the author can publish, and the         *)
(*     publication removes them (RegistryIsCurrent).                       *)
(***************************************************************************)
EXTENDS ToolGateway, TLAPS

-----------------------------------------------------------------------------
(* Queues.                                                                 *)

Once(q)         == \A i, j \in 1..Len(q) : q[i] = q[j] => i = j
In(x, q)        == \E i \in 1..Len(q) : q[i] = x
Before(x, y, q) == \E i, j \in 1..Len(q) : i < j /\ q[i] = x /\ q[j] = y

\* Who joins the queue is in it and overtakes nobody.
LEMMA Joins ==
  ASSUME NEW S, NEW q \in Seq(S), NEW x \in S, Once(q), ~In(x, q),
         NEW p, p = Append(q, x)
  PROVE  /\ p \in Seq(S)
         /\ Once(p)
         /\ \A y : In(y, p) <=> y = x \/ In(y, q)
         /\ \A y, z : Before(y, z, q) => Before(y, z, p)
<1>1. /\ p \in Seq(S)
      /\ Len(p) = Len(q) + 1
      /\ \A i \in 1..Len(q) : p[i] = q[i]
      /\ p[Len(q) + 1] = x
      /\ Len(q) \in Nat
  OBVIOUS
<1>2. Once(p)
  BY <1>1 DEF Once, In
<1>3. \A y : In(y, p) <=> y = x \/ In(y, q)
  <2>1. \A i \in 1..Len(p) : i \in 1..Len(q) \/ i = Len(q) + 1
    BY <1>1
  <2>2. \A i \in 1..Len(q) : i \in 1..Len(p)
    BY <1>1
  <2>3. Len(q) + 1 \in 1..Len(p)
    BY <1>1
  <2>4. QED
    BY <1>1, <2>1, <2>2, <2>3 DEF In
<1>4. \A y, z : Before(y, z, q) => Before(y, z, p)
  BY <1>1 DEF Before
<1>5. QED
  BY <1>1, <1>2, <1>3, <1>4

\* Who has had its turn and leaves was in the queue, and ahead of nobody but
\* those behind it.
LEMMA Leaves ==
  ASSUME NEW S, NEW q \in Seq(S), NEW x, q # <<>>, x = Head(q), Once(q),
         NEW p, p = Tail(q)
  PROVE  /\ p \in Seq(S)
         /\ x \in S
         /\ Once(p)
         /\ In(x, q) /\ ~In(x, p)
         /\ \A y : In(y, p) <=> y # x /\ In(y, q)
         /\ \A y, z : y # x /\ Before(y, z, q) => Before(y, z, p)
<1>1. /\ p \in Seq(S)
      /\ Len(q) \in Nat \ {0}
      /\ Len(p) = Len(q) - 1
      /\ \A i \in 1..Len(p) : p[i] = q[i + 1]
      /\ q[1] = x
      /\ x \in S
  OBVIOUS
<1>2. \A i \in 2..Len(q) : q[i] = p[i - 1] /\ q[i] # x
  BY <1>1 DEF Once
<1>3. Once(p)
  BY <1>1 DEF Once
<1>4. In(x, q)
  BY <1>1 DEF In
<1>5. \A y : In(y, p) <=> y # x /\ In(y, q)
  <2>1. \A i \in 1..Len(q) : i = 1 \/ (i \in 2..Len(q) /\ i - 1 \in 1..Len(p))
    BY <1>1
  <2>2. \A i \in 1..Len(p) : i + 1 \in 1..Len(q) /\ i + 1 \in 2..Len(q)
    BY <1>1
  <2>3. QED
    BY <1>1, <1>2, <2>1, <2>2 DEF In
<1>6. ASSUME NEW y, NEW z, y # x, Before(y, z, q)
      PROVE  Before(y, z, p)
  <2>1. PICK i \in 1..Len(q), j \in 1..Len(q) : i < j /\ q[i] = y /\ q[j] = z
    BY <1>6, SMTT(30) DEF Before
  <2>2. i # 1
    BY <1>1, <1>6, <2>1
  <2>3. i - 1 \in 1..Len(p) /\ j - 1 \in 1..Len(p) /\ i - 1 < j - 1
    BY <1>1, <2>1, <2>2
  <2>4. p[i - 1] = y /\ p[j - 1] = z
    BY <1>1, <1>2, <2>1, <2>2
  <2>5. QED
    BY <2>3, <2>4 DEF Before
<1>7. QED
  BY <1>1, <1>3, <1>4, <1>5, <1>6

\* Who has had its turn and asks again lets everybody else go ahead.
LEMMA Rejoins ==
  ASSUME NEW S, NEW q \in Seq(S), NEW x, q # <<>>, x = Head(q), Once(q),
         NEW p, p = Append(Tail(q), x)
  PROVE  /\ p \in Seq(S)
         /\ Once(p)
         /\ \A y : In(y, p) <=> In(y, q)
         /\ \A y, z : y # x /\ Before(y, z, q) => Before(y, z, p)
         /\ \A y : y # x /\ In(y, q) => Before(y, x, p)
<1> DEFINE tail == Tail(q)
<1>1. /\ tail \in Seq(S)
      /\ x \in S
      /\ Once(tail)
      /\ In(x, q) /\ ~In(x, tail)
      /\ \A y : In(y, tail) <=> y # x /\ In(y, q)
      /\ \A y, z : y # x /\ Before(y, z, q) => Before(y, z, tail)
  BY Leaves
<1> HIDE DEF tail
<1>2. p = Append(tail, x)
  BY DEF tail
<1>3. /\ p \in Seq(S)
      /\ Once(p)
      /\ \A y : In(y, p) <=> y = x \/ In(y, tail)
      /\ \A y, z : Before(y, z, tail) => Before(y, z, p)
  BY <1>1, <1>2, Joins
<1>4. ASSUME NEW y, y # x, In(y, q)
      PROVE  Before(y, x, p)
  <2>1. PICK i \in 1..Len(tail) : tail[i] = y
    BY <1>1, <1>4 DEF In
  <2>2. /\ Len(tail) \in Nat
        /\ Len(p) = Len(tail) + 1
        /\ p[i] = y
        /\ p[Len(tail) + 1] = x
    BY <1>1, <1>2, <2>1
  <2>3. QED
    BY <2>1, <2>2 DEF Before
<1>5. QED
  BY <1>1, <1>3, <1>4

-----------------------------------------------------------------------------
(* The inductive invariant.                                                *)

Silent == Misdirected \cup Probes

Waiting ==
  {r \in Requests : pc[r] \in {"reading", "fetching", "rechecking"}}
    \cup {a \in Admins : job[a] \in {"writing", "overridden", "validating", "written"}}

\* Everybody who waits for the database stands in its queue, once.
QueueInv ==
  /\ Once(db)
  /\ \A x \in Requests \cup Admins : In(x, db) <=> x \in Waiting

\* Who publishes nothing makes one change, and ends with it.
SilentInv ==
  \A a \in Silent :
    /\ job[a] \in {"idle", "writing", "done"}
    /\ job[a] # "done" => touched[a] = {}

\* Stale rows are ahead of the publication of the change that made them so.
RowsInv ==
  \A r \in Requests, t \in Tools :
    pc[r] = "fetching" /\ rows[r][t] \notin {"absent", Catalog[t]} =>
      \E a \in Admins : t \in touched[a] /\ (a \in Silent \/ Before(r, a, db))

\* A call whose tool stays in the catalog has it among its rows, and then in
\* the registry unless somebody replaces that.
SteadyCall(c) ==
  /\ Catalog[ToolOf[c]] # "absent"
  /\ pc[c] \in {"reading", "fetching", "rechecking", "done"}
  /\ pc[c] = "fetching" => rows[c][ToolOf[c]] # "absent"
  /\ pc[c] = "rechecking" /\ c \notin disturbed => registry[ToolOf[c]] # "absent"
  /\ result[c] = "unknown" => c \in disturbed

SteadyInv == \A c \in steady : SteadyCall(c)

\* A request has a result when it has ended and not before.
ResultInv == \A r \in Requests : pc[r] # "done" => result[r] = "none"

LEMMA CatalogType ==
  ASSUME TypeOK
  PROVE  Catalog \in [Tools -> Entries]
BY DEF TypeOK, Catalog, CatalogOf, Entries

LEMMA RoutesType ==
  ASSUME NEW S, db \in Seq(S), NEW c \in Calls, Routes(c)
  PROVE  db' \in Seq(S)
<1>1. CASE UNCHANGED db
  BY <1>1
<1>2. CASE Turn(c) /\ LastReply
  BY <1>2 DEF Turn, LastReply
<1>3. QED
  BY <1>1, <1>2 DEF Routes

\* Every step keeps the types.
LEMMA TypeStep ==
  ASSUME TypeOK, [Next]_vars
  PROVE  TypeOK'
<1> USE RequestsAssumption, CallsAssumption
    DEF TypeOK, catalogVars, copyVars, callVars, entries, adminVars, staleVars, seenVars,
        Requests, Finish, Ask, AskAgain, LastReply, Turn
<1>1. ASSUME NEW r \in Requests, Select(r)
      PROVE  TypeOK'
  BY <1>1, CatalogType DEF Select
<1>2. ASSUME NEW r \in Requests, SetRegistry(r)
      PROVE  TypeOK'
  BY <1>2 DEF SetRegistry, ReplaceRegistry, Nothing, Entries
<1>3. ASSUME NEW r \in Requests, FallBack(r)
      PROVE  TypeOK'
  BY <1>3 DEF FallBack
<1>4. ASSUME NEW r \in Requests, SetFallback(r)
      PROVE  TypeOK'
  BY <1>4 DEF SetFallback, ReplaceRegistry, Nothing, Entries
<1>5. ASSUME NEW r \in Requests, FallbackFails(r)
      PROVE  TypeOK'
  BY <1>5 DEF FallbackFails
<1>6. ASSUME NEW l \in Lists, BeginList(l)
      PROVE  TypeOK'
  BY <1>6 DEF BeginList
<1>7. ASSUME NEW l \in Lists, Listed(l)
      PROVE  TypeOK'
  BY <1>7 DEF Listed
<1>8. ASSUME NEW c \in Calls, Replay(c)
      PROVE  TypeOK'
  BY <1>8 DEF Replay
<1>9. ASSUME NEW c \in Calls, Miss(c)
      PROVE  TypeOK'
  BY <1>9 DEF Miss
<1>10. ASSUME NEW c \in Calls, Permit(c)
       PROVE  TypeOK'
  <2>1. db' \in Seq(Requests \cup Admins)
    BY <1>10, RoutesType DEF Permit
  <2>2. QED
    BY <1>10, <2>1 DEF Permit, Found
<1>11. ASSUME NEW c \in Calls, Deny(c)
       PROVE  TypeOK'
  <2>1. db' \in Seq(Requests \cup Admins)
    BY <1>11, RoutesType DEF Deny
  <2>2. QED
    BY <1>11, <2>1 DEF Deny, Found
<1>12. ASSUME NEW c \in Calls, Unknown(c)
       PROVE  TypeOK'
  <2>1. db' \in Seq(Requests \cup Admins)
    BY <1>12, RoutesType DEF Unknown
  <2>2. QED
    BY <1>12, <2>1 DEF Unknown
<1>13. ASSUME NEW c \in Calls, Refuse(c)
       PROVE  TypeOK'
  BY <1>13 DEF Refuse
<1>14. ASSUME NEW c \in Calls, Unreachable(c)
       PROVE  TypeOK'
  BY <1>14 DEF Unreachable, Pop, Drop, SharersOf
<1>15. ASSUME NEW c \in Calls, Send(c)
       PROVE  TypeOK'
  BY <1>15 DEF Send, SharersOf
<1>16. ASSUME NEW c \in Calls, Answered(c)
       PROVE  TypeOK'
  BY <1>16 DEF Answered, Pop, Drop, SharersOf
<1>17. ASSUME NEW c \in Calls, Failed(c)
       PROVE  TypeOK'
  BY <1>17 DEF Failed, Pop, Drop, SharersOf
<1>18. ASSUME NEW c \in Calls, Withheld(c)
       PROVE  TypeOK'
  BY <1>18 DEF Withheld
<1>19. ASSUME NEW c \in Calls, Store(c)
       PROVE  TypeOK'
  <2>1. cache' \in [Tools -> [Keys -> Calls \cup {None}]]
    <3>1. CASE KeyOf[c] = None
      BY <1>19, <3>1 DEF Store
    <3>2. CASE KeyOf[c] # None
      <4>1. cache' = [cache EXCEPT ![ToolOf[c]][KeyOf[c]] = c]
        BY <1>19, <3>2 DEF Store
      <4>2. KeyOf[c] \in Keys /\ ToolOf[c] \in Tools
        BY <3>2
      <4>3. QED
        BY <4>1, <4>2
    <3>3. QED
      BY <3>1, <3>2
  <2>2. late' \subseteq Tools
    BY <1>19 DEF Store
  <2>3. QED
    BY <1>19, <2>1, <2>2 DEF Store
<1>20. ASSUME NEW t \in Tools, NEW k \in Keys, Expire(t, k)
       PROVE  TypeOK'
  BY <1>20 DEF Expire
<1>21. ASSUME NEW a \in Admins, BeginAdmin(a)
       PROVE  TypeOK'
  BY <1>21 DEF BeginAdmin
<1>22. ASSUME NEW a \in Admins, NEW t \in Tools, NEW level \in Levels, SetOverride(a, t, level)
       PROVE  TypeOK'
  BY <1>22 DEF SetOverride, Write, Written
<1>23. ASSUME NEW a \in Admins, NextOverride(a)
       PROVE  TypeOK'
  BY <1>23 DEF NextOverride
<1>24. ASSUME NEW a \in Admins, NEW s \in Services, SetItem(a, s)
       PROVE  TypeOK'
  BY <1>24 DEF SetItem, Write, Written, Toggle, ToolsOf
<1>25. ASSUME NEW a \in Admins, NEW s \in Services, StartValidation(a, s)
       PROVE  TypeOK'
  BY <1>25 DEF StartValidation, Write, Written, ToolsOf, Statuses
<1>26. ASSUME NEW a \in Admins, AskService(a)
       PROVE  TypeOK'
  BY <1>26 DEF AskService
<1>27. ASSUME NEW a \in Admins, ServiceAnswered(a)
       PROVE  TypeOK'
  BY <1>27 DEF ServiceAnswered
<1>28. ASSUME NEW a \in Admins, NEW s \in Services, NEW new \in Statuses, SetStatus(a, s, new)
       PROVE  TypeOK'
  BY <1>28 DEF SetStatus, Write, Written, ToolsOf
<1>29. ASSUME NEW a \in Admins, NEW s \in Services, PatchElsewhere(a, s)
       PROVE  TypeOK'
  BY <1>29 DEF PatchElsewhere, EndUnpublished, Write, Toggle, ToolsOf
<1>30. ASSUME NEW a \in Admins, NEW s \in Services, Recover(a, s)
       PROVE  TypeOK'
  BY <1>30 DEF Recover, EndUnpublished, Write, ToolsOf, Statuses
<1>31. ASSUME NEW a \in Admins, FinishWriting(a)
       PROVE  TypeOK'
  BY <1>31 DEF FinishWriting
<1>32. ASSUME NEW a \in Admins, Publish(a)
       PROVE  TypeOK'
  BY <1>32 DEF Publish, Invalidate, ReplaceRegistry, Nothing, NoReplies, Entries
<1>33. CASE DownstreamListChanged
  BY <1>33
  DEF DownstreamListChanged, Invalidate, ReplaceRegistry, Nothing, NoReplies, Entries
<1>34. CASE UNCHANGED vars
  BY <1>34 DEF vars
<1>35. ASSUME NEW c \in Calls, Escape(c)
       PROVE  TypeOK'
  BY <1>35 DEF Escape
<1>36. ASSUME NEW c \in Calls, ReapRunning(c)
       PROVE  TypeOK'
  BY <1>36 DEF ReapRunning, Pop, Drop, SharersOf
<1>37. ASSUME NEW c \in Calls, ReapBroken(c)
       PROVE  TypeOK'
  BY <1>37 DEF ReapBroken, Pop, Drop, SharersOf
<1>38. ASSUME NEW a \in Admins, ValidationBreaks(a)
       PROVE  TypeOK'
  BY <1>38 DEF ValidationBreaks
<1>39. QED
  BY <1>1, <1>2, <1>3, <1>4, <1>5, <1>6, <1>7, <1>8, <1>9, <1>10, <1>11,
     <1>12, <1>13, <1>14, <1>15, <1>16, <1>17, <1>18, <1>19, <1>20, <1>21,
     <1>22, <1>23, <1>24, <1>25, <1>26, <1>27, <1>28, <1>29, <1>30, <1>31,
     <1>32, <1>33, <1>34, <1>35, <1>36, <1>37, <1>38
  DEF Next, CallStep, ListStep, RefreshStep, AdminStep

-----------------------------------------------------------------------------
(* Everybody who waits stands in the queue, once.                          *)

\* What a step may do to the queue: nothing, or somebody joins it, has a turn
\* and stays, has a turn and leaves.
Without(x) == Waiting \ {x}

Same      == UNCHANGED db /\ Waiting' = Waiting
Joined(x) == Ask(x) /\ x \notin Waiting /\ Waiting' = Waiting \cup {x}
Stayed(x) == Turn(x) /\ AskAgain(x) /\ Waiting' = Waiting
Left(x)   == Turn(x) /\ LastReply /\ Waiting' = Without(x)

InDatabase == {"reading", "fetching", "rechecking"}
Writing    == {"writing", "overridden", "validating", "written"}

\* Which shape it is follows from where the actor was and where it goes.
LEMMA RequestMoves ==
  ASSUME TypeOK, NEW r \in Requests, NEW v, pc' = [pc EXCEPT ![r] = v], job' = job
  PROVE  /\ pc[r] \notin InDatabase /\ v \notin InDatabase => Waiting' = Waiting
         /\ pc[r] \in InDatabase /\ v \in InDatabase => Waiting' = Waiting
         /\ pc[r] \notin InDatabase /\ v \in InDatabase =>
              r \notin Waiting /\ Waiting' = Waiting \cup {r}
         /\ pc[r] \in InDatabase /\ v \notin InDatabase => Waiting' = Without(r)
BY RequestsAssumption DEF TypeOK, Waiting, Without, Requests, InDatabase

LEMMA AdminMoves ==
  ASSUME TypeOK, NEW a \in Admins, NEW v, job' = [job EXCEPT ![a] = v], pc' = pc
  PROVE  /\ job[a] \notin Writing /\ v \notin Writing => Waiting' = Waiting
         /\ job[a] \in Writing /\ v \in Writing => Waiting' = Waiting
         /\ job[a] \notin Writing /\ v \in Writing =>
              a \notin Waiting /\ Waiting' = Waiting \cup {a}
         /\ job[a] \in Writing /\ v \notin Writing => Waiting' = Without(a)
BY RequestsAssumption DEF TypeOK, Waiting, Without, Requests, Writing

RequestStep(r) == (r \in Calls /\ CallStep(r)) \/ (r \in Lists /\ ListStep(r))

LEMMA RequestShape ==
  ASSUME TypeOK, NEW r \in Requests, RequestStep(r)
  PROVE  Same \/ Joined(r) \/ Stayed(r) \/ Left(r)
<1> USE RequestMoves
    DEF InDatabase, Same, Joined, Stayed, Left, adminVars, entries, callVars, Finish
<1>1. CASE Replay(r)
  BY <1>1 DEF Replay
<1>2. CASE Miss(r)
  BY <1>2 DEF Miss
<1>3. CASE RefreshStep(r)
  <2>1. CASE Select(r)
    BY <1>3, <2>1 DEF Select
  <2>2. CASE SetRegistry(r)
    BY <1>3, <2>2 DEF SetRegistry
  <2>3. CASE FallBack(r)
    <3>1. Waiting' = Without(r)
      <4>1. pc' = [pc EXCEPT ![r] = "falling"] /\ job' = job
        BY <2>3 DEF FallBack
      <4>2. pc[r] \in InDatabase /\ "falling" \notin InDatabase
        BY <2>3 DEF FallBack
      <4>3. QED
        BY <4>1, <4>2
    <3>2. QED
      BY <2>3, <3>1 DEF FallBack
  <2>4. CASE SetFallback(r)
    BY <1>3, <2>4 DEF SetFallback
  <2>5. CASE FallbackFails(r)
    BY <1>3, <2>5 DEF FallbackFails
  <2>6. QED
    BY <1>3, <2>1, <2>2, <2>3, <2>4, <2>5 DEF RefreshStep
<1>4. CASE Permit(r)
  BY <1>4 DEF Permit, Routes
<1>5. CASE Deny(r)
  BY <1>5 DEF Deny, Routes
<1>6. CASE Unknown(r)
  BY <1>6 DEF Unknown, Routes
<1>7. CASE Refuse(r)
  BY <1>7 DEF Refuse
<1>8. CASE Unreachable(r)
  BY <1>8 DEF Unreachable
<1>9. CASE Send(r)
  BY <1>9 DEF Send
<1>10. CASE Answered(r)
  BY <1>10 DEF Answered, Running
<1>11. CASE Failed(r)
  BY <1>11 DEF Failed, Running
<1>12. CASE Withheld(r)
  BY <1>12 DEF Withheld
<1>13. CASE Store(r)
  BY <1>13 DEF Store
<1>14. CASE BeginList(r)
  BY <1>14 DEF BeginList
<1>15. CASE Listed(r)
  <2>1. Waiting' = Without(r)
    <3>1. pc' = [pc EXCEPT ![r] = "done"] /\ job' = job
      BY <1>15 DEF Listed
    <3>2. pc[r] \in InDatabase /\ "done" \notin InDatabase
      BY <1>15 DEF Listed
    <3>3. QED
      BY <3>1, <3>2
  <2>2. QED
    BY <1>15, <2>1 DEF Listed
<1>16. CASE Escape(r) \/ ReapRunning(r)
  BY <1>16 DEF Escape, ReapRunning, Running
<1>17. QED
  BY <1>1, <1>2, <1>3, <1>4, <1>5, <1>6, <1>7, <1>8, <1>9, <1>10, <1>11, <1>12,
     <1>13, <1>14, <1>15, <1>16
  DEF RequestStep, CallStep, ListStep

LEMMA AdminShape ==
  ASSUME TypeOK, NEW a \in Admins, AdminStep(a)
  PROVE  Same \/ Joined(a) \/ Stayed(a) \/ Left(a)
<1> USE AdminMoves
    DEF Writing, Same, Joined, Stayed, Left, entries, callVars, Written, EndUnpublished
<1>1. CASE BeginAdmin(a)
  BY <1>1 DEF BeginAdmin
<1>2. ASSUME NEW t \in Tools, NEW level \in Levels, SetOverride(a, t, level)
      PROVE  Stayed(a)
  BY <1>2 DEF SetOverride
<1>3. CASE NextOverride(a)
  BY <1>3 DEF NextOverride
<1>4. ASSUME NEW s \in Services, SetItem(a, s) \/ StartValidation(a, s)
      PROVE  Stayed(a)
  BY <1>4 DEF SetItem, StartValidation
<1>5. ASSUME NEW s \in Services, PatchElsewhere(a, s) \/ Recover(a, s)
      PROVE  Left(a)
  BY <1>5 DEF PatchElsewhere, Recover
<1>6. CASE AskService(a)
  <2>1. Waiting' = Without(a)
    <3>1. job' = [job EXCEPT ![a] = "asking"] /\ pc' = pc
      BY <1>6 DEF AskService
    <3>2. job[a] \in Writing /\ "asking" \notin Writing
      BY <1>6 DEF AskService
    <3>3. QED
      BY <3>1, <3>2
  <2>2. QED
    BY <1>6, <2>1 DEF AskService
<1>7. CASE ServiceAnswered(a) \/ ValidationBreaks(a)
  BY <1>7 DEF ServiceAnswered, ValidationBreaks
<1>8. ASSUME NEW s \in Services, NEW new \in Statuses, SetStatus(a, s, new)
      PROVE  Stayed(a)
  BY <1>8 DEF SetStatus
<1>9. CASE FinishWriting(a)
  <2>1. Waiting' = Without(a)
    <3>1. job' = [job EXCEPT ![a] = "finishing"] /\ pc' = pc
      BY <1>9 DEF FinishWriting
    <3>2. job[a] \in Writing /\ "finishing" \notin Writing
      BY <1>9 DEF FinishWriting
    <3>3. QED
      BY <3>1, <3>2
  <2>2. QED
    BY <1>9, <2>1 DEF FinishWriting
<1>10. CASE Publish(a)
  BY <1>10 DEF Publish
<1>11. QED
  BY <1>1, <1>2, <1>3, <1>4, <1>5, <1>6, <1>7, <1>8, <1>9, <1>10 DEF AdminStep

\* A step is one of an actor, who moves in the queue and nobody else, or it
\* leaves the queue as it is.
LEMMA Shape ==
  ASSUME TypeOK, [Next]_vars
  PROVE  \/ Same
         \/ \E x \in Requests \cup Admins : Joined(x) \/ Stayed(x) \/ Left(x)
<1>1. CASE \E t \in Tools, k \in Keys : Expire(t, k)
  BY <1>1 DEF Expire, Same, Waiting, callVars, entries, adminVars
<1>2. CASE DownstreamListChanged
  BY <1>2 DEF DownstreamListChanged, Same, Waiting, callVars, entries, adminVars
<1>3. CASE UNCHANGED vars
  BY <1>3 DEF vars, Same, Waiting, callVars, entries, adminVars
<1>4. CASE \E c \in Calls : ReapBroken(c)
  BY <1>4 DEF ReapBroken, Same, Waiting, callVars, entries, adminVars
<1>5. QED
  BY <1>1, <1>2, <1>3, <1>4, RequestShape, AdminShape DEF Next, Requests, RequestStep

LEMMA QueueStep ==
  ASSUME TypeOK, QueueInv, [Next]_vars
  PROVE  QueueInv'
<1> DEFINE S == Requests \cup Admins
<1>1. db \in Seq(S)
  BY DEF TypeOK
<1>2. CASE Same
  BY <1>2 DEF Same, QueueInv
<1>3. ASSUME NEW x \in S, Joined(x)
      PROVE  QueueInv'
  <2>1. Once(db') /\ \A y : In(y, db') <=> y = x \/ In(y, db)
    BY <1>1, <1>3, Joins DEF Joined, Ask, QueueInv
  <2>2. QED
    BY <1>3, <2>1 DEF Joined, QueueInv
<1>4. ASSUME NEW x \in S, Stayed(x)
      PROVE  QueueInv'
  <2>1. Once(db') /\ \A y : In(y, db') <=> In(y, db)
    BY <1>1, <1>4, Rejoins DEF Stayed, Turn, AskAgain, QueueInv
  <2>2. QED
    BY <1>4, <2>1 DEF Stayed, QueueInv
<1>5. ASSUME NEW x \in S, Left(x)
      PROVE  QueueInv'
  <2>1. Once(db') /\ \A y : In(y, db') <=> y # x /\ In(y, db)
    BY <1>1, <1>5, Leaves DEF Left, Turn, LastReply, QueueInv
  <2>2. QED
    BY <1>5, <2>1 DEF Left, Without, QueueInv
<1>6. QED
  BY <1>2, <1>3, <1>4, <1>5, Shape

-----------------------------------------------------------------------------
(* What a step of one actor leaves alone.                                  *)

\* A request changes neither the catalog nor what admin requests did, moves
\* on, and replaces the registry by its own rows or by nothing.
RequestEffect(r) ==
  /\ UNCHANGED <<attached, status, override, job, touched>>
  /\ pc'[r] # pc[r] /\ pc[r] # "done"
  /\ pc'[r] # "done" => result'[r] = result[r]
  /\ \A q \in Requests \ {r} : pc'[q] = pc[q] /\ rows'[q] = rows[q] /\ result'[q] = result[q]
  /\ pc'[r] = "fetching" => rows'[r] = Catalog
  /\ pc'[r] = "permitted" => registry[ToolOf[r]] = "callable"
  /\ \/ registry' = registry
     \/ registry' = Nothing
     \/ pc[r] = "fetching" /\ registry' = rows[r]
  /\ UNCHANGED <<cache, late>> \/ (r \in Calls /\ Store(r))
  /\ \/ UNCHANGED entries /\ pc[r] # "sent" /\ pc'[r] # "sent"
     \/ r \in Calls /\ Pop(r) /\ pc'[r] # "sent"
     \/ r \in Calls /\ ReapRunning(r)
     \/ r \in Calls /\ Send(r)
     \/ r \in Calls /\ Escape(r)
  /\ steady' \subseteq steady \cup {r}
  /\ disturbed \ {r} \subseteq disturbed'
  /\ registry' = registry \/ {c \in steady : pc[c] = "rechecking"} \subseteq disturbed'

LEMMA RequestEffects ==
  ASSUME TypeOK, NEW r \in Requests, RequestStep(r)
  PROVE  RequestEffect(r)
<1> USE RequestsAssumption
    DEF TypeOK, RequestEffect, Finish, catalogVars, copyVars, callVars, entries, adminVars,
        staleVars, seenVars
<1>1. CASE Replay(r)
  BY <1>1 DEF Replay
<1>2. CASE Miss(r)
  BY <1>2 DEF Miss
<1>3. CASE Select(r)
  BY <1>3 DEF Select
<1>4. CASE SetRegistry(r)
  BY <1>4 DEF SetRegistry, ReplaceRegistry
<1>5. CASE FallBack(r)
  BY <1>5 DEF FallBack
<1>6. CASE SetFallback(r)
  BY <1>6 DEF SetFallback, ReplaceRegistry
<1>7. CASE FallbackFails(r)
  BY <1>7 DEF FallbackFails
<1>8. CASE Permit(r)
  <2>1. pc[r] \in {"idle", "rechecking"}
    BY <1>8 DEF Permit, Routes
  <2>2. QED
    BY <1>8, <2>1 DEF Permit, Found
<1>9. CASE Deny(r)
  <2>1. pc[r] \in {"idle", "rechecking"}
    BY <1>9 DEF Deny, Routes
  <2>2. QED
    BY <1>9, <2>1 DEF Deny, Found
<1>10. CASE Unknown(r)
  BY <1>10 DEF Unknown, Routes
<1>11. CASE Refuse(r)
  BY <1>11 DEF Refuse
<1>12. CASE r \in Calls /\ Unreachable(r)
  BY <1>12 DEF Unreachable, Pop, Drop, SharersOf
<1>13. CASE r \in Calls /\ Send(r)
  BY <1>13 DEF Send
<1>14. CASE r \in Calls /\ Answered(r)
  BY <1>14 DEF Answered, Pop, Drop, SharersOf, Running
<1>15. CASE r \in Calls /\ Failed(r)
  BY <1>15 DEF Failed, Pop, Drop, SharersOf, Running
<1>16. CASE Withheld(r)
  BY <1>16 DEF Withheld
<1>17. CASE r \in Calls /\ Store(r)
  BY <1>17 DEF Store
<1>18. CASE BeginList(r)
  BY <1>18 DEF BeginList
<1>19. CASE Listed(r)
  BY <1>19 DEF Listed
<1>20. CASE r \in Calls /\ Escape(r)
  BY <1>20 DEF Escape, Running
<1>21. CASE r \in Calls /\ ReapRunning(r)
  BY <1>21 DEF ReapRunning, Pop, Drop, SharersOf
<1>22. QED
  BY <1>1, <1>2, <1>3, <1>4, <1>5, <1>6, <1>7, <1>8, <1>9, <1>10, <1>11, <1>12,
     <1>13, <1>14, <1>15, <1>16, <1>17, <1>18, <1>19, <1>20, <1>21
  DEF RequestStep, CallStep, ListStep, RefreshStep

\* An admin request changes no request, only tools it has touched, and keeps
\* its place behind those who wait while it still has to publish them.
AdminEffect(a) ==
  /\ UNCHANGED <<pc, rows, result, entries>>
  /\ \A b \in Admins : touched[b] \subseteq touched'[b]
  /\ \A b \in Admins \ {a} : job'[b] = job[b]
  /\ \A t \in Tools :
       Catalog'[t] # Catalog[t] => t \in touched'[a] /\ (a \in Silent \/ Stayed(a))
  /\ \/ /\ registry' = registry /\ cache' = cache /\ late' = late
        /\ job'[a] = "done" => a \in Silent
     \/ registry' = Nothing /\ cache' = NoReplies
  /\ steady' \subseteq steady
  /\ \A c \in steady' : Catalog[ToolOf[c]] # "absent" => Catalog'[ToolOf[c]] # "absent"
  /\ disturbed \subseteq disturbed'
  /\ registry' = registry \/ {c \in steady : pc[c] = "rechecking"} \subseteq disturbed'

StillOffered == {c \in steady : Catalog'[ToolOf[c]] # "absent"}

LEMMA WriteChanges ==
  ASSUME TypeOK, NEW tools, NEW items, NEW states, NEW levels,
         Write(items, states, levels),
         \A t \in Tools \ tools :
           /\ ServiceOf[t] \in items <=> ServiceOf[t] \in attached
           /\ states[ServiceOf[t]] = status[ServiceOf[t]]
           /\ levels[t] = override[t]
  PROVE  /\ \A t \in Tools : Catalog'[t] # Catalog[t] => t \in tools
         /\ steady' = StillOffered
BY DEF Write, Catalog, CatalogOf, StillOffered

LEMMA AdminEffects ==
  ASSUME TypeOK, SilentInv, NEW a \in Admins, AdminStep(a)
  PROVE  AdminEffect(a)
<1> USE DEF TypeOK, AdminEffect, catalogVars, copyVars, entries, callVars, staleVars
<1>1. ASSUME UNCHANGED catalogVars, UNCHANGED copyVars, UNCHANGED callVars,
             UNCHANGED <<entries, touched, late, steady, disturbed>>,
             NEW next, next # "done", job' = [job EXCEPT ![a] = next]
      PROVE  AdminEffect(a)
  BY <1>1 DEF Catalog
<1>2. ASSUME NEW tools, tools \subseteq Tools, NEW next, next # "done", Written(a, tools, next),
             \A t \in Tools : Catalog'[t] # Catalog[t] => t \in tools,
             steady' = StillOffered, next \in Writing
      PROVE  AdminEffect(a)
  <2>1. Stayed(a)
    <3>1. job' = [job EXCEPT ![a] = next] /\ pc' = pc /\ job[a] \in Writing
      BY <1>2 DEF Written, Writing
    <3>2. QED
      BY <1>2, <3>1, AdminMoves DEF Stayed, Written
  <2>2. QED
    BY <1>2, <2>1 DEF Written, StillOffered
<1>3. ASSUME NEW s \in Services, EndUnpublished(a, s), a \in Silent,
             \A t \in Tools : Catalog'[t] # Catalog[t] => t \in ToolsOf(s),
             steady' = StillOffered
      PROVE  AdminEffect(a)
  <2>1. touched[a] = {}
    BY <1>3 DEF SilentInv, EndUnpublished
  <2>2. QED
    BY <1>3, <2>1 DEF EndUnpublished, StillOffered
<1>4. CASE BeginAdmin(a) \/ NextOverride(a) \/ AskService(a) \/ ServiceAnswered(a)
           \/ ValidationBreaks(a) \/ FinishWriting(a)
  <2>1. \E next : next # "done" /\ job' = [job EXCEPT ![a] = next]
    BY <1>4 DEF BeginAdmin, NextOverride, AskService, ServiceAnswered, ValidationBreaks, FinishWriting
  <2>2. QED
    BY <1>1, <1>4, <2>1
    DEF BeginAdmin, NextOverride, AskService, ServiceAnswered, ValidationBreaks, FinishWriting, seenVars
<1>5. ASSUME NEW t \in Tools, NEW level \in Levels, SetOverride(a, t, level)
      PROVE  AdminEffect(a)
  <2>1. /\ \A u \in Tools : Catalog'[u] # Catalog[u] => u \in {t}
        /\ steady' = StillOffered
    BY <1>5, WriteChanges DEF SetOverride
  <2>2. QED
    BY <1>2, <1>5, <2>1 DEF SetOverride, Writing
<1>6. ASSUME NEW s \in Services, SetItem(a, s)
      PROVE  AdminEffect(a)
  <2>1. /\ \A t \in Tools : Catalog'[t] # Catalog[t] => t \in ToolsOf(s)
        /\ steady' = StillOffered
    BY <1>6, WriteChanges DEF SetItem, ToolsOf, Toggle
  <2>2. QED
    BY <1>2, <1>6, <2>1 DEF SetItem, Writing, ToolsOf
<1>7. ASSUME NEW s \in Services, StartValidation(a, s)
      PROVE  AdminEffect(a)
  <2>1. /\ \A t \in Tools : Catalog'[t] # Catalog[t] => t \in ToolsOf(s)
        /\ steady' = StillOffered
    BY <1>7, WriteChanges, CallsAssumption DEF StartValidation, ToolsOf
  <2>2. QED
    BY <1>2, <1>7, <2>1 DEF StartValidation, Writing, ToolsOf
<1>8. ASSUME NEW s \in Services, NEW new \in Statuses, SetStatus(a, s, new)
      PROVE  AdminEffect(a)
  <2>1. /\ \A t \in Tools : Catalog'[t] # Catalog[t] => t \in ToolsOf(s)
        /\ steady' = StillOffered
    BY <1>8, WriteChanges, CallsAssumption DEF SetStatus, ToolsOf
  <2>2. QED
    BY <1>2, <1>8, <2>1 DEF SetStatus, Writing, ToolsOf
<1>9. ASSUME NEW s \in Services, PatchElsewhere(a, s)
      PROVE  AdminEffect(a)
  <2>1. /\ \A t \in Tools : Catalog'[t] # Catalog[t] => t \in ToolsOf(s)
        /\ steady' = StillOffered
    BY <1>9, WriteChanges DEF PatchElsewhere, ToolsOf, Toggle
  <2>2. QED
    BY <1>3, <1>9, <2>1 DEF PatchElsewhere, Silent
<1>10. ASSUME NEW s \in Services, Recover(a, s)
       PROVE  AdminEffect(a)
  <2>1. /\ \A t \in Tools : Catalog'[t] # Catalog[t] => t \in ToolsOf(s)
        /\ steady' = StillOffered
    BY <1>10, WriteChanges, CallsAssumption DEF Recover, ToolsOf
  <2>2. QED
    BY <1>3, <1>10, <2>1 DEF Recover, Silent
<1>11. CASE Publish(a)
  BY <1>11 DEF Publish, Invalidate, ReplaceRegistry, entries, adminVars, Catalog, seenVars
<1>12. QED
  BY <1>4, <1>5, <1>6, <1>7, <1>8, <1>9, <1>10, <1>11 DEF AdminStep

LEMMA SilentStep ==
  ASSUME TypeOK, SilentInv, [Next]_vars
  PROVE  SilentInv'
<1> USE RequestsAssumption DEF TypeOK, SilentInv, Silent
<1>1. ASSUME NEW r \in Requests, RequestStep(r)
      PROVE  SilentInv'
  BY <1>1, RequestEffects DEF RequestEffect
<1>2. ASSUME NEW a \in Admins, AdminStep(a)
      PROVE  SilentInv'
  <2>1. CASE BeginAdmin(a)
    BY <2>1 DEF BeginAdmin
  <2>2. CASE NextOverride(a) \/ AskService(a) \/ ServiceAnswered(a)
             \/ ValidationBreaks(a) \/ FinishWriting(a)
             \/ Publish(a)
    BY <2>2 DEF NextOverride, AskService, ServiceAnswered, ValidationBreaks, FinishWriting, Publish
  <2>3. ASSUME NEW tools, NEW next, Written(a, tools, next)
        PROVE  SilentInv'
    BY <2>3 DEF Written
  <2>4. ASSUME NEW s \in Services, EndUnpublished(a, s)
        PROVE  SilentInv'
    BY <2>4 DEF EndUnpublished
  <2>5. QED
    BY <1>2, <2>1, <2>2, <2>3, <2>4
    DEF AdminStep, SetOverride, SetItem, StartValidation, SetStatus, PatchElsewhere, Recover
<1>3. CASE \E t \in Tools, k \in Keys : Expire(t, k)
  BY <1>3 DEF Expire, entries, adminVars
<1>4. CASE DownstreamListChanged
  BY <1>4 DEF DownstreamListChanged, entries, adminVars
<1>5. CASE UNCHANGED vars
  BY <1>5 DEF vars, entries, adminVars
<1>6. CASE \E c \in Calls : ReapBroken(c)
  BY <1>6 DEF ReapBroken, entries, adminVars
<1>7. QED
  BY <1>1, <1>2, <1>3, <1>4, <1>5, <1>6 DEF Next, Requests, RequestStep

-----------------------------------------------------------------------------
(* Stale rows are stored before the change they miss is published.         *)

\* Who waits keeps its place ahead of others while they move.
LEMMA BeforeKept ==
  ASSUME TypeOK, QueueInv, NEW r \in Requests, NEW x \in (Requests \cup Admins) \ {r},
         Same \/ Joined(x) \/ Stayed(x) \/ Left(x)
  PROVE  /\ \A y : Before(r, y, db) => Before(r, y, db')
         /\ Stayed(x) /\ r \in Waiting => Before(r, x, db')
<1> DEFINE S == Requests \cup Admins
<1>1. db \in Seq(S) /\ Once(db)
  BY DEF TypeOK, QueueInv
<1>2. CASE Same
  <2>1. \A y : Before(r, y, db) => Before(r, y, db')
    BY <1>2 DEF Same
  <2>2. ASSUME Stayed(x), r \in Waiting
        PROVE  Before(r, x, db')
    <3>1. In(r, db)
      BY <2>2 DEF QueueInv
    <3>2. QED
      BY <1>1, <2>2, <3>1, Rejoins DEF Stayed, Turn, AskAgain
  <2>3. QED
    BY <2>1, <2>2
<1>3. CASE Joined(x)
  <2>1. \A y : Before(r, y, db) => Before(r, y, db')
    BY <1>1, <1>3, Joins DEF Joined, Ask, QueueInv
  <2>2. ~Stayed(x)
    <3>1. CASE Stayed(x)
      <4>1. x = Head(db) /\ db # <<>>
        BY <3>1 DEF Stayed, Turn
      <4>2. In(x, db)
        BY <1>1, <4>1, Leaves
      <4>3. QED
        BY <1>3, <4>2 DEF Joined, QueueInv
    <3>2. QED
      BY <3>1
  <2>3. QED
    BY <2>1, <2>2
<1>4. CASE Stayed(x)
  <2>1. /\ \A y : Before(r, y, db) => Before(r, y, db')
        /\ In(r, db) => Before(r, x, db')
    BY <1>1, <1>4, Rejoins DEF Stayed, Turn, AskAgain
  <2>2. QED
    BY <2>1 DEF QueueInv
<1>5. CASE Left(x) /\ ~Stayed(x)
  BY <1>1, <1>5, Leaves DEF Left, Turn, LastReply
<1>6. QED
  BY <1>2, <1>3, <1>4, <1>5

LEMMA RowsStep ==
  ASSUME TypeOK, QueueInv, SilentInv, RowsInv, [Next]_vars
  PROVE  RowsInv'
<1> USE RequestsAssumption DEF Requests
<1>1. SUFFICES ASSUME NEW q \in Requests, NEW t \in Tools,
                      pc'[q] = "fetching", rows'[q][t] # "absent",
                      rows'[q][t] # Catalog'[t]
               PROVE  \E a \in Admins : t \in touched'[a] /\ (a \in Silent \/ Before(q, a, db'))
  BY DEF RowsInv
<1>2. ASSUME pc[q] = "fetching", rows[q][t] = rows'[q][t], rows[q][t] # Catalog[t]
      PROVE  \E a \in Admins : t \in touched[a] /\ (a \in Silent \/ Before(q, a, db))
  BY <1>1, <1>2 DEF RowsInv
<1>3. ASSUME NEW r \in Requests, RequestStep(r)
      PROVE  \E a \in Admins : t \in touched'[a] /\ (a \in Silent \/ Before(q, a, db'))
  <2>1. RequestEffect(r) /\ Catalog' = Catalog
    BY <1>3, RequestEffects DEF RequestEffect, Catalog
  <2>2. q # r /\ pc[q] = "fetching" /\ rows'[q] = rows[q]
    BY <1>1, <2>1 DEF RequestEffect
  <2>3. \A y : Before(q, y, db) => Before(q, y, db')
    BY <1>3, <2>2, RequestShape, BeforeKept
  <2>4. QED
    BY <1>1, <1>2, <2>1, <2>2, <2>3 DEF RequestEffect
<1>4. ASSUME NEW b \in Admins, AdminStep(b)
      PROVE  \E a \in Admins : t \in touched'[a] /\ (a \in Silent \/ Before(q, a, db'))
  <2>1. AdminEffect(b)
    BY <1>4, AdminEffects
  <2>2. /\ b \in (Requests \cup Admins) \ {q}
        /\ pc[q] = "fetching"
        /\ rows'[q] = rows[q]
    BY <1>1, <2>1 DEF AdminEffect
  <2>3. /\ \A y : Before(q, y, db) => Before(q, y, db')
        /\ Stayed(b) /\ q \in Waiting => Before(q, b, db')
    BY <1>4, <2>2, AdminShape, BeforeKept
  <2>4. CASE Catalog'[t] = Catalog[t]
    BY <1>1, <1>2, <2>1, <2>2, <2>3, <2>4 DEF AdminEffect
  <2>5. CASE Catalog'[t] # Catalog[t]
    BY <1>1, <2>1, <2>2, <2>3, <2>5 DEF AdminEffect, Waiting
  <2>6. QED
    BY <2>4, <2>5
<1>5. ASSUME UNCHANGED <<attached, status, override, db, pc, rows, touched>>
      PROVE  \E a \in Admins : t \in touched'[a] /\ (a \in Silent \/ Before(q, a, db'))
  BY <1>1, <1>2, <1>5 DEF Catalog
<1>6. CASE \E u \in Tools, k \in Keys : Expire(u, k)
  BY <1>5, <1>6 DEF Expire, catalogVars, callVars, entries, adminVars
<1>7. CASE DownstreamListChanged
  BY <1>5, <1>7 DEF DownstreamListChanged, catalogVars, callVars, entries, adminVars
<1>8. CASE UNCHANGED vars
  BY <1>5, <1>8 DEF vars, catalogVars, callVars, entries, adminVars
<1>9. CASE \E c \in Calls : ReapBroken(c)
  BY <1>5, <1>9 DEF ReapBroken, catalogVars, callVars, entries, adminVars
<1>10. QED
  BY <1>3, <1>4, <1>6, <1>7, <1>8, <1>9 DEF Next, RequestStep

\* Who has touched a tool and not published that.
LEMMA UnpublishedAuthor ==
  ASSUME NEW t
  PROVE  /\ t \in Unpublished <=>
              \E a \in Admins : t \in touched[a] /\ (job[a] # "done" \/ a \in Silent)
         /\ t \in Unpublished' <=>
              \E a \in Admins : t \in touched'[a] /\ (job'[a] # "done" \/ a \in Silent)
BY RequestsAssumption DEF Unpublished, Silent

\* A step of an admin request other than its publication.
LEMMA UnpublishedKept ==
  ASSUME TypeOK, NEW a \in Admins, AdminEffect(a), job'[a] = "done" => a \in Silent,
         NEW t \in Tools
  PROVE  t \in Unpublished \/ Catalog'[t] # Catalog[t] => t \in Unpublished'
<1>1. ASSUME t \in Unpublished
      PROVE  t \in Unpublished'
  <2>1. PICK b \in Admins : t \in touched[b] /\ (job[b] # "done" \/ b \in Silent)
    BY <1>1, UnpublishedAuthor
  <2>2. t \in touched'[b] /\ (job'[b] # "done" \/ b \in Silent)
    BY <2>1 DEF AdminEffect
  <2>3. QED
    BY <2>2, UnpublishedAuthor
<1>2. ASSUME Catalog'[t] # Catalog[t]
      PROVE  t \in Unpublished'
  <2>1. t \in touched'[a] /\ (job'[a] # "done" \/ a \in Silent)
    BY <1>2 DEF AdminEffect
  <2>2. QED
    BY <2>1, UnpublishedAuthor
<1>3. QED
  BY <1>1, <1>2

LEMMA RegistryStep ==
  ASSUME TypeOK, QueueInv, SilentInv, RowsInv, RegistryIsCurrent, [Next]_vars
  PROVE  RegistryIsCurrent'
<1>1. SUFFICES ASSUME NEW t \in Tools, registry'[t] # "absent", registry'[t] # Catalog'[t]
               PROVE  t \in Unpublished'
  BY DEF RegistryIsCurrent
<1>2. registry' # Nothing
  BY <1>1 DEF Nothing
<1>3. registry[t] = registry'[t] /\ Catalog'[t] = Catalog[t] => t \in Unpublished
  BY <1>1 DEF RegistryIsCurrent
<1>4. ASSUME NEW r \in Requests, RequestStep(r)
      PROVE  t \in Unpublished'
  <2>1. RequestEffect(r) /\ Catalog' = Catalog /\ Unpublished' = Unpublished
    BY <1>4, RequestEffects DEF RequestEffect, Catalog, Unpublished
  <2>2. CASE registry' = registry
    BY <1>3, <2>1, <2>2
  <2>3. CASE pc[r] = "fetching" /\ registry' = rows[r]
    <3>1. PICK a \in Admins : t \in touched[a] /\ (a \in Silent \/ Before(r, a, db))
      BY <1>1, <2>1, <2>3 DEF RowsInv
    <3>2. Before(r, a, db) => In(a, db)
      BY DEF Before, In
    <3>3. In(a, db) => job[a] # "done"
      BY RequestsAssumption DEF QueueInv, Waiting, Requests
    <3>4. QED
      BY <2>1, <3>1, <3>2, <3>3, UnpublishedAuthor
  <2>4. QED
    BY <1>2, <2>1, <2>2, <2>3 DEF RequestEffect
<1>5. ASSUME NEW a \in Admins, AdminStep(a)
      PROVE  t \in Unpublished'
  <2>1. AdminEffect(a)
    BY <1>5, AdminEffects
  <2>2. registry' = registry /\ (job'[a] = "done" => a \in Silent)
    BY <1>2, <2>1 DEF AdminEffect
  <2>3. QED
    BY <1>3, <2>1, <2>2, UnpublishedKept
<1>6. ASSUME UNCHANGED <<attached, status, override, job, touched, registry>>
      PROVE  t \in Unpublished'
  BY <1>3, <1>6 DEF Catalog, Unpublished
<1>7. CASE \E u \in Tools, k \in Keys : Expire(u, k)
  BY <1>6, <1>7 DEF Expire, catalogVars, entries, adminVars
<1>8. CASE DownstreamListChanged
  BY <1>2, <1>8 DEF DownstreamListChanged, Invalidate, ReplaceRegistry
<1>9. CASE UNCHANGED vars
  BY <1>6, <1>9 DEF vars, catalogVars, copyVars, entries, adminVars
<1>10. CASE \E c \in Calls : ReapBroken(c)
  BY <1>6, <1>10 DEF ReapBroken, catalogVars, copyVars, entries, adminVars
<1>11. QED
  BY <1>4, <1>5, <1>7, <1>8, <1>9, <1>10 DEF Next, Requests, RequestStep

-----------------------------------------------------------------------------
(* Cached replies.                                                         *)

LEMMA StoreKeeps ==
  ASSUME TypeOK, ReplyStaleOnlyByRace, NEW c \in Calls, Store(c)
  PROVE  ReplyStaleOnlyByRace'
<1>1. Catalog' = Catalog /\ Unpublished' = Unpublished
  BY DEF Store, catalogVars, entries, adminVars, Catalog, Unpublished
<1>2. CASE KeyOf[c] = None
  BY <1>1, <1>2 DEF Store, ReplyStaleOnlyByRace
<1>3. CASE KeyOf[c] # None
  <2>1. /\ cache' = [cache EXCEPT ![ToolOf[c]][KeyOf[c]] = c]
        /\ late' = IF Catalog[ToolOf[c]] = "callable" THEN late ELSE late \cup {ToolOf[c]}
    BY <1>3 DEF Store
  <2>2. \A t \in Tools, k \in Keys : t # ToolOf[c] => cache'[t][k] = cache[t][k]
    BY <2>1 DEF TypeOK
  <2>3. late \subseteq late' /\ (Catalog[ToolOf[c]] # "callable" => ToolOf[c] \in late')
    BY <2>1
  <2>4. QED
    BY <1>1, <2>2, <2>3 DEF ReplyStaleOnlyByRace
<1>4. QED
  BY <1>2, <1>3

LEMMA ReplyStep ==
  ASSUME TypeOK, SilentInv, ReplyStaleOnlyByRace, [Next]_vars
  PROVE  ReplyStaleOnlyByRace'
<1>1. ASSUME NEW r \in Requests, RequestStep(r)
      PROVE  ReplyStaleOnlyByRace'
  <2>1. RequestEffect(r) /\ Catalog' = Catalog /\ Unpublished' = Unpublished
    BY <1>1, RequestEffects DEF RequestEffect, Catalog, Unpublished
  <2>2. CASE UNCHANGED <<cache, late>>
    BY <2>1, <2>2 DEF ReplyStaleOnlyByRace
  <2>3. CASE r \in Calls /\ Store(r)
    BY <2>3, StoreKeeps
  <2>4. QED
    BY <2>1, <2>2, <2>3 DEF RequestEffect
<1>2. ASSUME NEW a \in Admins, AdminStep(a)
      PROVE  ReplyStaleOnlyByRace'
  <2>1. AdminEffect(a)
    BY <1>2, AdminEffects
  <2>2. CASE cache' = NoReplies
    BY <2>2 DEF ReplyStaleOnlyByRace, NoReplies
  <2>3. CASE cache' = cache /\ late' = late /\ (job'[a] = "done" => a \in Silent)
    <3>1. SUFFICES ASSUME NEW t \in Tools, NEW k \in Keys,
                          cache[t][k] # None, Catalog'[t] # "callable"
                   PROVE  t \in Unpublished' \cup late'
      BY <2>3 DEF ReplyStaleOnlyByRace
    <3>2. t \in Unpublished \/ Catalog'[t] # Catalog[t] => t \in Unpublished'
      BY <2>1, <2>3, UnpublishedKept
    <3>3. QED
      BY <2>3, <3>1, <3>2 DEF ReplyStaleOnlyByRace
  <2>4. QED
    BY <2>1, <2>2, <2>3 DEF AdminEffect
<1>3. ASSUME NEW t \in Tools, NEW k \in Keys, Expire(t, k)
      PROVE  ReplyStaleOnlyByRace'
  <2>1. UNCHANGED <<Catalog, Unpublished, late>>
    BY <1>3 DEF Expire, catalogVars, entries, adminVars, staleVars, Catalog, Unpublished
  <2>2. \A u \in Tools, l \in Keys : cache'[u][l] \in {cache[u][l], None}
    BY <1>3 DEF Expire, TypeOK
  <2>3. QED
    BY <2>1, <2>2 DEF ReplyStaleOnlyByRace
<1>4. CASE DownstreamListChanged
  BY <1>4 DEF DownstreamListChanged, Invalidate, NoReplies, ReplyStaleOnlyByRace
<1>5. CASE UNCHANGED vars
  BY <1>5
  DEF vars, catalogVars, copyVars, entries, adminVars, staleVars, ReplyStaleOnlyByRace, Catalog,
      Unpublished
<1>6. CASE \E c \in Calls : ReapBroken(c)
  BY <1>6
  DEF ReapBroken, catalogVars, copyVars, entries, adminVars, staleVars, ReplyStaleOnlyByRace,
      Catalog, Unpublished
<1>7. QED
  BY <1>1, <1>2, <1>3, <1>4, <1>5, <1>6 DEF Next, Requests, RequestStep

-----------------------------------------------------------------------------
(* The in-flight table.                                                    *)

\* A step either is a request's, or drops what one left in the table, or
\* leaves the table and the requests alone.
LEMMA TableStep ==
  ASSUME TypeOK, SilentInv, [Next]_vars
  PROVE  \/ \E r \in Requests : RequestEffect(r)
         \/ \E c \in Calls : ReapBroken(c)
         \/ UNCHANGED <<entries, pc, result>>
<1> USE DEF entries
<1>1. ASSUME NEW r \in Requests, RequestStep(r)
      PROVE  RequestEffect(r)
  BY <1>1, RequestEffects
<1>2. ASSUME NEW a \in Admins, AdminStep(a)
      PROVE  UNCHANGED <<entries, pc, result>>
  BY <1>2, AdminEffects DEF AdminEffect
<1>3. CASE \E t \in Tools, k \in Keys : Expire(t, k)
  BY <1>3 DEF Expire, entries, callVars
<1>4. CASE DownstreamListChanged
  BY <1>4 DEF DownstreamListChanged, entries, callVars
<1>5. CASE UNCHANGED vars
  BY <1>5 DEF vars, entries, callVars
<1>6. QED
  BY <1>1, <1>2, <1>3, <1>4, <1>5 DEF Next, Requests, RequestStep

\* A call that broke off stays broken.
LEMMA Broken ==
  ASSUME ResultInv, NEW r \in Requests, RequestEffect(r)
  PROVE  \A c \in Calls : result[c] = "broken" => result'[c] = "broken"
BY DEF ResultInv, RequestEffect, Requests

LEMMA InflightStep ==
  ASSUME TypeOK, SilentInv, ResultInv, InflightIsRunning, [Next]_vars
  PROVE  InflightIsRunning'
<1> USE CallsAssumption, NoneAssumption DEF TypeOK, Requests
<1>1. ASSUME NEW r \in Requests, RequestEffect(r)
      PROVE  InflightIsRunning'
  <2>1. CASE UNCHANGED entries /\ pc[r] # "sent"
    <3>1. \A c \in Calls : pc[c] = "sent" => pc'[c] = "sent"
      BY <1>1, <2>1 DEF RequestEffect
    <3>2. QED
      BY <1>1, <2>1, <3>1, Broken DEF InflightIsRunning, entries
  <2>2. CASE r \in Calls /\ Drop(r)
    <3>1. \A c \in Calls \ {r} : pc'[c] = pc[c] /\ result'[c] = result[c]
      BY <1>1 DEF RequestEffect
    <3>2. QED
      BY <2>2, <3>1, SMTT(20) DEF InflightIsRunning, Drop
  <2>3. CASE r \in Calls /\ Send(r)
    <3>1. /\ inflight' = [inflight EXCEPT ![IdOf[r]] = r]
          /\ pc'[r] = "sent"
      BY <2>3 DEF Send
    <3>2. \A c \in Calls : pc[c] = "sent" => pc'[c] = "sent"
      BY <1>1, <3>1 DEF RequestEffect
    <3>3. QED
      BY <1>1, <3>1, <3>2, Broken DEF InflightIsRunning
  <2>4. CASE r \in Calls /\ Escape(r)
    BY <2>4 DEF Escape, Finish, InflightIsRunning, entries
  <2>5. QED
    BY <1>1, <2>1, <2>2, <2>3, <2>4 DEF RequestEffect, Pop, ReapRunning
<1>2. CASE UNCHANGED <<entries, pc, result>>
  BY <1>2 DEF InflightIsRunning, entries
<1>3. ASSUME NEW c \in Calls, ReapBroken(c)
      PROVE  InflightIsRunning'
  BY <1>3 DEF ReapBroken, Drop, callVars, InflightIsRunning
<1>4. QED
  BY <1>1, <1>2, <1>3, TableStep

\* A call's entry goes with the call itself, or because of a call under the same
\* id, which the history notes.
LEMMA CancelStep ==
  ASSUME TypeOK, SilentInv, ResultInv, CancelFindsItsCall, [Next]_vars
  PROVE  CancelFindsItsCall'
<1> USE CallsAssumption DEF TypeOK, Requests
<1>1. ASSUME NEW r \in Requests, RequestEffect(r), pc'[r] # "sent",
             NEW c \in Calls, pc'[c] = "sent"
      PROVE  c # r /\ pc[c] = "sent" /\ (inflight[IdOf[c]] = c \/ c \in overlapped)
  BY <1>1 DEF RequestEffect, CancelFindsItsCall
<1>2. ASSUME NEW r \in Calls, Drop(r), NEW c \in Calls, c # r,
             inflight[IdOf[c]] = c, IdOf[c] # IdOf[r]
      PROVE  inflight'[IdOf[c]] = c
  BY <1>2 DEF Drop
<1>3. ASSUME NEW r \in Requests, RequestEffect(r)
      PROVE  CancelFindsItsCall'
  <2>1. CASE UNCHANGED entries /\ pc'[r] # "sent"
    BY <1>1, <1>3, <2>1 DEF CancelFindsItsCall, entries
  <2>2. CASE r \in Calls /\ Pop(r) /\ pc'[r] # "sent"
    BY <1>1, <1>2, <1>3, <2>2 DEF CancelFindsItsCall, Pop, SharersOf
  <2>3. CASE r \in Calls /\ ReapRunning(r)
    <3>1. /\ inflight[IdOf[r]] = r /\ Drop(r) /\ overlapped' = overlapped
          /\ pc'[r] # "sent"
      BY <2>3 DEF ReapRunning
    <3>2. QED
      BY <1>1, <1>2, <1>3, <2>3, <3>1 DEF CancelFindsItsCall
  <2>4. CASE r \in Calls /\ Send(r)
    <3>1. /\ inflight' = [inflight EXCEPT ![IdOf[r]] = r]
          /\ overlapped' = overlapped \cup SharersOf(r)
          /\ \A c \in Calls \ {r} : pc'[c] = pc[c]
      BY <1>3, <2>4 DEF Send, RequestEffect
    <3>2. QED
      BY <2>4, <3>1 DEF CancelFindsItsCall, SharersOf
  <2>5. CASE r \in Calls /\ Escape(r)
    <3>1. UNCHANGED entries /\ pc'[r] # "sent"
      BY <2>5 DEF Escape, Finish
    <3>2. QED
      BY <2>1, <3>1
  <2>6. QED
    BY <1>3, <2>1, <2>2, <2>3, <2>4, <2>5 DEF RequestEffect
<1>4. CASE UNCHANGED <<entries, pc, result>>
  BY <1>4 DEF CancelFindsItsCall, entries
<1>5. ASSUME NEW r \in Calls, ReapBroken(r)
      PROVE  CancelFindsItsCall'
  <2>1. pc[r] # "sent"
    BY <1>5 DEF ReapBroken, ResultInv
  <2>2. inflight[IdOf[r]] = r /\ Drop(r) /\ UNCHANGED <<pc, overlapped>>
    BY <1>5 DEF ReapBroken, callVars
  <2>3. QED
    BY <1>2, <2>1, <2>2 DEF CancelFindsItsCall
<1>6. QED
  BY <1>3, <1>4, <1>5, TableStep

-----------------------------------------------------------------------------
(* Calls whose tool stays in the catalog.                                  *)

LEMMA ResultStep ==
  ASSUME TypeOK, SilentInv, ResultInv, [Next]_vars
  PROVE  ResultInv'
<1>1. ASSUME NEW r \in Requests, RequestEffect(r)
      PROVE  ResultInv'
  <2>1. SUFFICES ASSUME NEW q \in Requests, pc'[q] # "done"
                 PROVE  result'[q] = "none"
    BY DEF ResultInv
  <2>2. CASE q = r
    BY <1>1, <2>1, <2>2 DEF RequestEffect, ResultInv
  <2>3. CASE q # r
    BY <1>1, <2>1, <2>3 DEF RequestEffect, ResultInv
  <2>4. QED
    BY <2>2, <2>3
<1>2. CASE UNCHANGED <<entries, pc, result>>
  BY <1>2 DEF ResultInv
<1>3. ASSUME NEW c \in Calls, ReapBroken(c)
      PROVE  ResultInv'
  BY <1>3 DEF ReapBroken, entries, callVars, ResultInv
<1>4. QED
  BY <1>1, <1>2, <1>3, TableStep

\* A step of the call itself.
LEMMA SteadyOwn ==
  ASSUME TypeOK, ResultInv, SteadyInv, NEW c \in Calls, CallStep(c), c \in steady'
  PROVE  SteadyCall(c)'
<1> USE CallsAssumption
    DEF TypeOK, Requests, SteadyCall, SteadyInv, ResultInv, Finish, entries, catalogVars, copyVars,
        seenVars
<1>1. Catalog' = Catalog
  BY RequestEffects DEF RequestStep, RequestEffect, Catalog
<1>2. CASE Miss(c)
  <2>1. Catalog[ToolOf[c]] # "absent"
    BY <1>2 DEF Miss
  <2>2. pc'[c] = "reading" /\ result'[c] = "none"
    BY <1>2 DEF Miss
  <2>3. QED
    BY <1>1, <2>1, <2>2
<1>3. CASE Select(c)
  <2>1. c \in steady /\ pc'[c] = "fetching" /\ rows'[c] = Catalog /\ result'[c] = "none"
    BY <1>3 DEF Select
  <2>2. QED
    BY <1>1, <2>1
<1>4. CASE SetRegistry(c)
  <2>1. /\ c \in steady /\ pc[c] = "fetching"
        /\ pc'[c] = "rechecking" /\ registry' = rows[c] /\ result'[c] = "none"
    BY <1>4 DEF SetRegistry, ReplaceRegistry
  <2>2. QED
    BY <1>1, <2>1
<1>5. CASE FallBack(c)
  <2>1. c \in steady /\ pc[c] = "fetching" /\ rows[c][ToolOf[c]] = "absent"
    BY <1>5 DEF FallBack, Nothing
  <2>2. QED
    BY <2>1
<1>6. CASE SetFallback(c) \/ FallbackFails(c)
  BY <1>6 DEF SetFallback, FallbackFails
<1>7. CASE Permit(c) \/ Deny(c)
  BY <1>7 DEF Permit, Deny, Found
<1>8. CASE Unknown(c)
  <2>1. c \in steady /\ registry[ToolOf[c]] = "absent" /\ disturbed' = disturbed
    BY <1>8 DEF Unknown
  <2>2. pc[c] = "rechecking" /\ pc'[c] = "done"
    BY <1>8, <2>1 DEF Unknown, Routes
  <2>3. QED
    BY <1>1, <2>1, <2>2
<1>9. CASE Replay(c)
  BY <1>9 DEF Replay
<1>10. CASE Refuse(c) \/ Unreachable(c) \/ Send(c)
  BY <1>10 DEF Refuse, Unreachable, Send
<1>11. CASE Answered(c) \/ Failed(c) \/ Escape(c) \/ ReapRunning(c)
  BY <1>11 DEF Answered, Failed, Escape, ReapRunning, Running
<1>12. CASE Withheld(c) \/ Store(c)
  BY <1>12 DEF Withheld, Store
<1>13. QED
  BY <1>2, <1>3, <1>4, <1>5, <1>6, <1>7, <1>8, <1>9, <1>10, <1>11, <1>12
  DEF CallStep, RefreshStep

\* A step of somebody else, who may replace the registry.
LEMMA SteadyOther ==
  ASSUME SteadyInv, NEW c \in steady, Catalog'[ToolOf[c]] # "absent",
         pc'[c] = pc[c], rows'[c] = rows[c], result'[c] = result[c],
         c \in disturbed => c \in disturbed',
         registry' = registry \/ {d \in steady : pc[d] = "rechecking"} \subseteq disturbed'
  PROVE  SteadyCall(c)'
BY DEF SteadyInv, SteadyCall

LEMMA SteadyStep ==
  ASSUME TypeOK, SilentInv, ResultInv, SteadyInv, [Next]_vars
  PROVE  SteadyInv'
<1>1. SUFFICES ASSUME NEW c \in steady'
               PROVE  SteadyCall(c)'
  BY DEF SteadyInv
<1>2. ASSUME NEW r \in Requests, RequestStep(r)
      PROVE  SteadyCall(c)'
  <2>1. RequestEffect(r) /\ Catalog' = Catalog
    BY <1>2, RequestEffects DEF RequestEffect, Catalog
  <2>2. CASE c # r
    <3>1. c \in steady /\ c \in Requests \ {r}
      BY <2>1, <2>2 DEF RequestEffect, TypeOK, Requests
    <3>2. QED
      BY <2>1, <3>1, SteadyOther DEF RequestEffect, SteadyInv, SteadyCall
  <2>3. CASE c = r
    <3>1. c \in Calls
      BY <1>1, TypeStep, <1>2 DEF TypeOK, Next, RequestStep
    <3>2. CallStep(c)
      BY <1>2, <2>3, <3>1, RequestsAssumption DEF RequestStep
    <3>3. QED
      BY <3>1, <3>2, SteadyOwn
  <2>4. QED
    BY <2>2, <2>3
<1>3. ASSUME NEW a \in Admins, AdminStep(a)
      PROVE  SteadyCall(c)'
  <2>1. AdminEffect(a)
    BY <1>3, AdminEffects
  <2>2. c \in steady /\ Catalog'[ToolOf[c]] # "absent"
    BY <2>1 DEF AdminEffect, SteadyInv, SteadyCall
  <2>3. QED
    BY <2>1, <2>2, SteadyOther DEF AdminEffect
<1>4. CASE \E t \in Tools, k \in Keys : Expire(t, k)
  BY <1>4, SteadyOther
  DEF Expire, catalogVars, entries, callVars, seenVars, Catalog, SteadyInv, SteadyCall
<1>5. CASE DownstreamListChanged
  BY <1>5, SteadyOther
  DEF DownstreamListChanged, Invalidate, ReplaceRegistry, catalogVars, entries, callVars, Catalog,
      SteadyInv, SteadyCall
<1>6. CASE UNCHANGED vars
  BY <1>6, SteadyOther
  DEF vars, catalogVars, copyVars, entries, callVars, seenVars, Catalog, SteadyInv, SteadyCall
<1>7. ASSUME NEW d \in Calls, ReapBroken(d)
      PROVE  SteadyCall(c)'
  BY <1>7, SteadyOther
  DEF ReapBroken, catalogVars, copyVars, entries, callVars, seenVars, Catalog, SteadyInv, SteadyCall
<1>8. QED
  BY <1>2, <1>3, <1>4, <1>5, <1>6, <1>7 DEF Next, Requests, RequestStep

-----------------------------------------------------------------------------
(* The theorems.                                                           *)

GatewayInv ==
  /\ TypeOK /\ QueueInv /\ SilentInv /\ RowsInv
  /\ RegistryIsCurrent /\ ReplyStaleOnlyByRace
  /\ InflightIsRunning
  /\ ResultInv /\ SteadyInv

LEMMA Initially ==
  Init => GatewayInv /\ CancelFindsItsCall
<1> SUFFICES ASSUME Init PROVE GatewayInv /\ CancelFindsItsCall
  OBVIOUS
<1>1. TypeOK
  <2>1. db \in Seq(Requests \cup Admins)
    BY DEF Init
  <2>2. cache \in [Tools -> [Keys -> Calls \cup {None}]]
    BY DEF Init, NoReplies
  <2>3. QED
    BY <2>1, <2>2 DEF Init, TypeOK, Nothing, Entries, Levels, Statuses
<1>2. QueueInv
  BY RequestsAssumption DEF Init, QueueInv, Once, In, Waiting, Requests
<1>3. SilentInv /\ RowsInv
  BY RequestsAssumption DEF Init, SilentInv, RowsInv, Silent
<1>4. RegistryIsCurrent /\ ReplyStaleOnlyByRace
  BY CallsAssumption
  DEF Init, RegistryIsCurrent, ReplyStaleOnlyByRace, NoReplies, Nothing
<1>5. InflightIsRunning /\ ResultInv /\ SteadyInv
  BY DEF Init, InflightIsRunning, ResultInv, SteadyInv
<1>6. CancelFindsItsCall
  BY DEF Init, CancelFindsItsCall, Requests
<1>7. QED
  BY <1>1, <1>2, <1>3, <1>4, <1>5, <1>6 DEF GatewayInv

LEMMA EveryStep ==
  GatewayInv /\ [Next]_vars => GatewayInv'
BY TypeStep, QueueStep, SilentStep, RowsStep, RegistryStep, ReplyStep, InflightStep,
   ResultStep, SteadyStep
DEF GatewayInv

\* A call that gets past the permission check found its tool callable in the
\* registry.
LEMMA PermittedWasCallable ==
  ASSUME GatewayInv, [Next]_vars, NEW c \in Calls,
         pc[c] # "permitted", pc'[c] = "permitted"
  PROVE  registry[ToolOf[c]] = "callable"
<1>1. PICK r \in Requests : RequestEffect(r)
  BY TableStep DEF GatewayInv, ReapBroken, entries, callVars
<1>2. c = r
  BY <1>1 DEF RequestEffect, Requests
<1>3. QED
  BY <1>1, <1>2 DEF RequestEffect

\* Every variable keeps its type, for any requests, tools and services.
THEOREM TypeCorrect == Spec => []TypeOK
<1>1. GatewayInv => TypeOK
  BY DEF GatewayInv
<1>2. QED
  BY <1>1, Initially, EveryStep, PTL DEF Spec

\* Once the change of a tool is published, the registry never holds another
\* level of the tool than the catalog: no refresh brings the old one back.
THEOREM RegistryCurrent == Spec => []RegistryIsCurrent
<1>1. GatewayInv => RegistryIsCurrent
  BY DEF GatewayInv
<1>2. QED
  BY <1>1, Initially, EveryStep, PTL DEF Spec

\* After the change that blocks a tool is published, no call of the tool gets
\* past the permission check.
THEOREM BlockedDenied == Spec => BlockedIsDenied
<1> DEFINE Denied ==
      \A c \in Calls :
        pc[c] # "permitted" /\ pc'[c] = "permitted" =>
          Catalog[ToolOf[c]] = "callable" \/ ToolOf[c] \in Unpublished
<1>1. ASSUME GatewayInv, [Next]_vars
      PROVE  Denied
  <2>1. \A c \in Calls : ToolOf[c] \in Tools
    BY CallsAssumption
  <2>2. RegistryIsCurrent
    BY <1>1 DEF GatewayInv
  <2>3. QED
    BY <1>1, <2>1, <2>2, PermittedWasCallable DEF RegistryIsCurrent
<1>2. GatewayInv /\ [Next]_vars => [Denied]_vars
  BY <1>1
<1>3. QED
  BY <1>2, Initially, EveryStep, PTL DEF Spec, BlockedIsDenied

\* A cached reply of a tool that may not be called any more is there only
\* until the change is published, or because it was stored after that.
THEOREM RepliesStaleOnlyByRace == Spec => []ReplyStaleOnlyByRace
<1>1. GatewayInv => ReplyStaleOnlyByRace
  BY DEF GatewayInv
<1>2. QED
  BY <1>1, Initially, EveryStep, PTL DEF Spec

\* A call told that its tool is unknown, though the catalog had it all along,
\* lost the registry that its own refresh had stored.
THEOREM KnownFound == Spec => []KnownToolIsFound
<1>1. GatewayInv => KnownToolIsFound
  BY DEF GatewayInv, SteadyInv, SteadyCall, KnownToolIsFound
<1>2. QED
  BY <1>1, Initially, EveryStep, PTL DEF Spec

\* Whatever ids the clients choose, every entry of the in-flight table is that
\* of a call that is running or broke off in the body of its response.
THEOREM InflightRunning == Spec => []InflightIsRunning
<1>1. GatewayInv => InflightIsRunning
  BY DEF GatewayInv
<1>2. QED
  BY <1>1, Initially, EveryStep, PTL DEF Spec

\* Whatever ids the clients choose, a cancellation finds the call it is for
\* until the call has run for twice its timeout, unless another call under the
\* same id was sent or ended meanwhile.
THEOREM CancelFinds == Spec => []CancelFindsItsCall
<1>1. GatewayInv /\ CancelFindsItsCall /\ [Next]_vars => CancelFindsItsCall'
  BY CancelStep DEF GatewayInv
<1>2. QED
  BY <1>1, Initially, EveryStep, PTL DEF Spec

=============================================================================
