---------------------------- MODULE Stdio_proofs ----------------------------
(***************************************************************************)
(* Proofs about the stdio services: StdioTransport, the client of one of   *)
(* them, and StdioPool, which has one client for each.                     *)
(***************************************************************************)
EXTENDS StdioTransport, StdioPool, FiniteSetTheorems, TLAPS

-----------------------------------------------------------------------------
(***************************************************************************)
(* StdioTransport, for any number of requests and processes.               *)
(* The argument, one lemma per part:                                       *)
(*   - a registered future belongs to a request that still wants it        *)
(*     (PendingIsWanted), which makes a finished request immune to late    *)
(*     readers and failures;                                               *)
(*   - a registration is only overwritten by a later request under the     *)
(*     same id, which knows of it (SharersKnown): what nobody displaced    *)
(*     stays registered (WantedIsPending), and a response finds its own    *)
(*     request or one that shares its id (OwnAnswer);                      *)
(*   - a start holds the lock from the moment it sees no process until it  *)
(*     has one (StartInv), so that no process and no reader is displaced   *)
(*     (NoStrayProcess, CurrentIsRead), hence every request that waits has *)
(*     a reader at work (NoUnreadWait).                                    *)
(***************************************************************************)

\* A request that has not been registered yet has no result.
FreshHasNoResult ==
  \A c \in Calls :
    pc[c] \in {"idle", "stopping", "spawning"} => outcome[c] = "none"

WantInv == PendingIsWanted /\ FreshHasNoResult

\* It has displaced nobody, and started no process.
FreshIsClean ==
  \A c \in Calls :
    pc[c] \in {"idle", "stopping", "spawning"} =>
      before[c] = {} /\ reader[c] = "none"

\* A line is written to a process that was started, and a one-way one is not
\* answered.
LinesHaveReaders ==
  /\ unread \cap oneway = {}
  /\ \A c \in Calls :
       pc[c] \in {"writing", "draining", "failing", "awaiting"} \/ c \in unread =>
         on[c] \in Calls /\ reader[on[c]] # "none"

\* Whoever waits under an id was registered after the others that are under way
\* with it.
SharersKnown ==
  \A c, d \in Calls :
    Waits(c) /\ IdOf[d] = IdOf[c] /\ d # c /\ UnderWay(d) => d \in before[c]

\* Who is starting or stopping a process holds the start lock, and meanwhile
\* nobody sees a process.
StartInv ==
  /\ \A c \in Calls : startLock = c <=> pc[c] \in {"stopping", "spawning"}
  /\ startLock # NoCall => process = NoCall

WriteLockInv ==
  \A c \in Calls : writeLock = c <=> pc[c] \in {"draining", "failing"}

\* A write only fails on a process that has died.
FailingOnDead == \A c \in Calls : pc[c] = "failing" => on[c] \in dead

\* The action of ResultIsFinal.
ResultsKept ==
  \A c \in Calls :
    pc[c] = "done" => outcome'[c] = outcome[c] /\ answer'[c] = answer[c]

LEMMA InitiallyAll ==
  Init => /\ TypeOK /\ WantInv /\ WantedIsPending /\ OwnAnswer
          /\ StartInv /\ WriteLockInv /\ FailingOnDead
          /\ NoStrayProcess /\ CurrentIsRead /\ NoUnreadWait
          /\ FreshIsClean /\ LinesHaveReaders /\ SharersKnown
BY NoCallAssumption
DEF Init, TypeOK, WantInv, PendingIsWanted, FreshHasNoResult, WantedIsPending,
    OwnAnswer, StartInv, WriteLockInv, FailingOnDead, NoStrayProcess,
    CurrentIsRead, NoUnreadWait, Outstanding, Spawned, FreshIsClean,
    LinesHaveReaders, SharersKnown, Waits, UnderWay

\* Every step keeps the types.
LEMMA TypeStep ==
  ASSUME TypeOK, [Next]_vars
  PROVE  TypeOK'
<1> USE IdAssumption DEF TypeOK, Waits, calls, procs
<1>1. ASSUME NEW c \in Calls, UseRunning(c)
      PROVE  TypeOK'
  BY <1>1 DEF UseRunning, IsRunning, Register
<1>2. ASSUME NEW c \in Calls, StopBeforeRestart(c)
      PROVE  TypeOK'
  BY <1>2 DEF StopBeforeRestart, StopProcess, ClearProcess, FailPending
<1>3. ASSUME NEW c \in Calls, StoppedBeforeRestart(c)
      PROVE  TypeOK'
  BY <1>3 DEF StoppedBeforeRestart
<1>4. ASSUME NEW c \in Calls, StartFresh(c)
      PROVE  TypeOK'
  BY <1>4 DEF StartFresh
<1>5. ASSUME NEW c \in Calls, Spawn(c)
      PROVE  TypeOK'
  BY <1>5 DEF Spawn, Register
<1>6. ASSUME NEW c \in Calls, SpawnFails(c)
      PROVE  TypeOK'
  BY <1>6 DEF SpawnFails, Return
<1>7. ASSUME NEW c \in Calls, WriteLine(c)
      PROVE  TypeOK'
  BY <1>7 DEF WriteLine
<1>8. ASSUME NEW c \in Calls, Drained(c)
      PROVE  TypeOK'
  BY <1>8 DEF Drained, Return
<1>9. ASSUME NEW c \in Calls, WriteBroken(c)
      PROVE  TypeOK'
  BY <1>9 DEF WriteBroken, PopOwn, ClearProcess
<1>10. ASSUME NEW c \in Calls, FailureRecorded(c)
      PROVE  TypeOK'
  BY <1>10 DEF FailureRecorded
<1>11. ASSUME NEW c \in Calls, AwaitReturns(c)
      PROVE  TypeOK'
  BY <1>11 DEF AwaitReturns
<1>12. ASSUME NEW c \in Calls, TimeOut(c)
      PROVE  TypeOK'
  BY <1>12 DEF TimeOut, PopOwn, Return
<1>13. ASSUME NEW c \in Calls, GiveUp(c)
      PROVE  TypeOK'
  BY <1>13 DEF GiveUp, Return
<1>14. ASSUME NEW c \in Calls, ReadResponse(c)
      PROVE  TypeOK'
  BY <1>14 DEF ReadResponse
<1>15. ASSUME NEW p \in Calls, ReadGarbage(p)
      PROVE  TypeOK'
  BY <1>15 DEF ReadGarbage, FailPending
<1>16. ASSUME NEW p \in Calls, ReadEof(p) \/ ReadFails(p)
      PROVE  TypeOK'
  BY <1>16 DEF ReadEof, ReadFails, StopReading, ClearProcess
<1>17. ASSUME NEW p \in Calls, ReaderEnds(p)
      PROVE  TypeOK'
  BY <1>17 DEF ReaderEnds, FailPending
<1>18. ASSUME NEW p \in Calls, Die(p)
      PROVE  TypeOK'
  BY <1>18 DEF Die
<1>19. ASSUME NEW p \in Calls, NoticeExit(p)
      PROVE  TypeOK'
  BY <1>19 DEF NoticeExit
<1>20. ASSUME NEW p \in Calls, Kill(p)
      PROVE  TypeOK'
  BY <1>20 DEF Kill
<1>21. CASE Aclose
  BY <1>21 DEF Aclose, StopProcess, ClearProcess, FailPending
<1>22. CASE ReapIdle
  BY <1>22 DEF ReapIdle, IsRunning, StopProcess, ClearProcess, FailPending
<1>23. CASE UNCHANGED vars
  BY <1>23 DEF vars
<1>24. QED
  BY <1>1, <1>2, <1>3, <1>4, <1>5, <1>6, <1>7, <1>8, <1>9, <1>10, <1>11,
      <1>12, <1>13, <1>14, <1>15, <1>16, <1>17, <1>18, <1>19, <1>20, <1>21,
      <1>22, <1>23
  DEF Next, EnsureStarted, SpawnEnds, WriteEnds, AwaitEnds, vars

\* A registration is made for a new request and removed before, or together
\* with, the end of the request's wait.
LEMMA WantStep ==
  ASSUME TypeOK, TypeOK', WantInv, [Next]_vars
  PROVE  WantInv'
<1> USE IdAssumption, NoCallAssumption, OnewayAssumption DEF TypeOK, WantInv,
        PendingIsWanted, FreshHasNoResult, Outstanding, Waits, calls, procs
<1>1. ASSUME NEW c \in Calls, UseRunning(c)
      PROVE  WantInv'
  BY <1>1 DEF UseRunning, IsRunning, Register
<1>2. ASSUME NEW c \in Calls, StopBeforeRestart(c)
      PROVE  WantInv'
  BY <1>2 DEF StopBeforeRestart, StopProcess, ClearProcess, FailPending
<1>3. ASSUME NEW c \in Calls, StoppedBeforeRestart(c)
      PROVE  WantInv'
  BY <1>3 DEF StoppedBeforeRestart
<1>4. ASSUME NEW c \in Calls, StartFresh(c)
      PROVE  WantInv'
  BY <1>4 DEF StartFresh
<1>5. ASSUME NEW c \in Calls, Spawn(c)
      PROVE  WantInv'
  BY <1>5 DEF Spawn, Register
<1>6. ASSUME NEW c \in Calls, SpawnFails(c)
      PROVE  WantInv'
  BY <1>6 DEF SpawnFails, Return
<1>7. ASSUME NEW c \in Calls, WriteLine(c)
      PROVE  WantInv'
  BY <1>7 DEF WriteLine
<1>8. ASSUME NEW c \in Calls, Drained(c)
      PROVE  WantInv'
  BY <1>8 DEF Drained, Return
<1>9. ASSUME NEW c \in Calls, WriteBroken(c)
      PROVE  WantInv'
  BY <1>9 DEF WriteBroken, PopOwn, ClearProcess
<1>10. ASSUME NEW c \in Calls, FailureRecorded(c)
      PROVE  WantInv'
  BY <1>10 DEF FailureRecorded
<1>11. ASSUME NEW c \in Calls, AwaitReturns(c)
      PROVE  WantInv'
  BY <1>11 DEF AwaitReturns
<1>12. ASSUME NEW c \in Calls, TimeOut(c)
      PROVE  WantInv'
  BY <1>12 DEF TimeOut, PopOwn, Return
<1>13. ASSUME NEW c \in Calls, GiveUp(c)
      PROVE  WantInv'
  BY <1>13 DEF GiveUp, Return
<1>14. ASSUME NEW c \in Calls, ReadResponse(c)
      PROVE  WantInv'
  BY <1>14 DEF ReadResponse
<1>15. ASSUME NEW p \in Calls, ReadGarbage(p)
      PROVE  WantInv'
  BY <1>15 DEF ReadGarbage, FailPending
<1>16. ASSUME NEW p \in Calls, ReaderEnds(p)
      PROVE  WantInv'
  BY <1>16 DEF ReaderEnds, FailPending
<1>17. CASE Aclose
  BY <1>17 DEF Aclose, StopProcess, ClearProcess, FailPending
<1>18. CASE UNCHANGED <<pending, pc, outcome, oneway>>
  BY <1>18
<1>19. QED
  BY <1>1, <1>2, <1>3, <1>4, <1>5, <1>6, <1>7, <1>8, <1>9, <1>10, <1>11,
      <1>12, <1>13, <1>14, <1>15, <1>16, <1>17, <1>18
  DEF Next, EnsureStarted, SpawnEnds, WriteEnds, AwaitEnds, vars, ReadEof,
      ReadFails, StopReading, ClearProcess, Die, NoticeExit, Kill, ReapIdle,
      IsRunning, StopProcess, FailPending

\* A step that changes the outcome of other requests changes only those that
\* wait, and a request that has returned does not wait.
LEMMA FinalStep ==
  ASSUME TypeOK, WantInv, [Next]_vars
  PROVE  ResultsKept
<1> USE IdAssumption, NoCallAssumption, OnewayAssumption DEF TypeOK, WantInv,
        PendingIsWanted, FreshHasNoResult, Outstanding, Waits, ResultsKept,
        calls, procs
<1>1. ASSUME NEW c \in Calls, StopBeforeRestart(c)
      PROVE  ResultsKept
  BY <1>1 DEF StopBeforeRestart, StopProcess, ClearProcess, FailPending
<1>2. ASSUME NEW c \in Calls, SpawnFails(c)
      PROVE  ResultsKept
  BY <1>2 DEF SpawnFails, Return
<1>3. ASSUME NEW c \in Calls, Drained(c)
      PROVE  ResultsKept
  BY <1>3 DEF Drained, Return
<1>4. ASSUME NEW c \in Calls, FailureRecorded(c)
      PROVE  ResultsKept
  BY <1>4 DEF FailureRecorded
<1>5. ASSUME NEW c \in Calls, TimeOut(c)
      PROVE  ResultsKept
  BY <1>5 DEF TimeOut, PopOwn, Return
<1>6. ASSUME NEW c \in Calls, GiveUp(c)
      PROVE  ResultsKept
  BY <1>6 DEF GiveUp, Return
<1>7. ASSUME NEW c \in Calls, ReadResponse(c)
      PROVE  ResultsKept
  BY <1>7 DEF ReadResponse
<1>8. ASSUME NEW p \in Calls, ReadGarbage(p)
      PROVE  ResultsKept
  BY <1>8 DEF ReadGarbage, FailPending
<1>9. ASSUME NEW p \in Calls, ReaderEnds(p)
      PROVE  ResultsKept
  BY <1>9 DEF ReaderEnds, FailPending
<1>10. CASE Aclose
  BY <1>10 DEF Aclose, StopProcess, ClearProcess, FailPending
<1>11. CASE UNCHANGED <<outcome, answer>>
  BY <1>11
<1>12. QED
  BY <1>1, <1>2, <1>3, <1>4, <1>5, <1>6, <1>7, <1>8, <1>9, <1>10, <1>11
  DEF Next, EnsureStarted, SpawnEnds, WriteEnds, AwaitEnds, vars, UseRunning,
      IsRunning, Register, StoppedBeforeRestart, StartFresh, Spawn, WriteLine,
      WriteBroken, PopOwn, ClearProcess, AwaitReturns, ReadEof, ReadFails, StopReading, Die,
      NoticeExit, Kill, ReapIdle, StopProcess, FailPending

\* Nobody who has been displaced is forgotten to have been.
LEMMA DisplacedStays ==
  ASSUME TypeOK, TypeOK', FreshIsClean, [Next]_vars, NEW d \in Calls, Displaced(d)
  PROVE  Displaced(d)'
<1>1. ASSUME NEW c \in Calls, UseRunning(c) \/ Spawn(c)
      PROVE  Displaced(d)'
  <2>1. before[c] = {}
    BY <1>1 DEF UseRunning, Spawn, FreshIsClean
  <2>2. \A e \in Calls \ {c} : before'[e] = before[e]
    BY <1>1 DEF UseRunning, Spawn, Register, TypeOK
  <2>3. QED  BY <2>1, <2>2 DEF Displaced
<1>2. CASE before' = before
  BY <1>2 DEF Displaced
<1>3. QED
  BY <1>1, <1>2
  DEF Next, EnsureStarted, SpawnEnds, WriteEnds, AwaitEnds, vars, calls,
      StopBeforeRestart, StoppedBeforeRestart, StartFresh, SpawnFails, WriteLine,
      Drained, WriteBroken, FailureRecorded, AwaitReturns, TimeOut, GiveUp,
      ReadResponse, ReadGarbage, ReadEof, ReadFails, StopReading, ReaderEnds, Die,
      NoticeExit, Kill, Aclose, ReapIdle

\* A request that registers displaces what is under way with its id.
LEMMA RegisterDisplaces ==
  ASSUME TypeOK, NEW c \in Calls, NEW p, Register(c, p), c \notin oneway,
         NEW d \in Calls \ {c}, IdOf[d] = IdOf[c], UnderWay(d)
  PROVE  Displaced(d)'
BY DEF Register, Displaced, TypeOK

\* A registration is only ever taken away from a request that gets a result, or
\* that is displaced.
LEMMA WantedStep ==
  ASSUME TypeOK, TypeOK', WantInv, FreshIsClean, WantedIsPending, [Next]_vars
  PROVE  WantedIsPending'
<1> USE IdAssumption, NoCallAssumption, OnewayAssumption DEF TypeOK, WantInv,
        PendingIsWanted, WantedIsPending, Outstanding, Waits, calls, procs
<1> \A d \in Calls : Displaced(d) => Displaced(d)'
  BY DisplacedStays
<1>0. ASSUME NEW c \in Calls, NEW p, Register(c, p), outcome' = outcome,
             oneway' = oneway
      PROVE  WantedIsPending'
  <2> SUFFICES ASSUME NEW d \in Calls, Outstanding(d)'
               PROVE  Waits(d)' \/ Displaced(d)'
    BY DEF WantedIsPending
  <2>1. CASE d = c
    BY <1>0, <2>1 DEF Register
  <2>2. CASE d # c
    <3>1. Outstanding(d)
      BY <1>0, <2>2 DEF Register
    <3>2. Waits(d) \/ Displaced(d)
      BY <3>1
    <3>3. CASE IdOf[d] = IdOf[c] /\ c \notin oneway
      BY <1>0, <2>2, <3>1, <3>3, RegisterDisplaces DEF UnderWay
    <3>4. CASE ~(IdOf[d] = IdOf[c] /\ c \notin oneway)
      BY <1>0, <3>2, <3>4 DEF Register
    <3>5. QED  BY <3>3, <3>4
  <2>3. QED  BY <2>1, <2>2
<1>1. ASSUME NEW c \in Calls, UseRunning(c)
      PROVE  WantedIsPending'
  BY <1>0, <1>1 DEF UseRunning, Register
<1>2. ASSUME NEW c \in Calls, StopBeforeRestart(c)
      PROVE  WantedIsPending'
  BY <1>2 DEF StopBeforeRestart, StopProcess, ClearProcess, FailPending
<1>3. ASSUME NEW c \in Calls, StoppedBeforeRestart(c)
      PROVE  WantedIsPending'
  BY <1>3 DEF StoppedBeforeRestart
<1>4. ASSUME NEW c \in Calls, StartFresh(c)
      PROVE  WantedIsPending'
  BY <1>4 DEF StartFresh
<1>5. ASSUME NEW c \in Calls, Spawn(c)
      PROVE  WantedIsPending'
  BY <1>0, <1>5 DEF Spawn, Register
<1>6. ASSUME NEW c \in Calls, SpawnFails(c)
      PROVE  WantedIsPending'
  BY <1>6 DEF SpawnFails, Return
<1>7. ASSUME NEW c \in Calls, WriteLine(c)
      PROVE  WantedIsPending'
  BY <1>7 DEF WriteLine
<1>8. ASSUME NEW c \in Calls, Drained(c)
      PROVE  WantedIsPending'
  BY <1>8 DEF Drained, Return
<1>9. ASSUME NEW c \in Calls, WriteBroken(c)
      PROVE  WantedIsPending'
  BY <1>9 DEF WriteBroken, PopOwn, ClearProcess
<1>10. ASSUME NEW c \in Calls, FailureRecorded(c)
      PROVE  WantedIsPending'
  BY <1>10 DEF FailureRecorded
<1>11. ASSUME NEW c \in Calls, AwaitReturns(c)
      PROVE  WantedIsPending'
  BY <1>11 DEF AwaitReturns
<1>12. ASSUME NEW c \in Calls, TimeOut(c)
      PROVE  WantedIsPending'
  BY <1>12 DEF TimeOut, PopOwn, Return
<1>13. ASSUME NEW c \in Calls, GiveUp(c)
      PROVE  WantedIsPending'
  BY <1>13 DEF GiveUp, Return
<1>14. ASSUME NEW c \in Calls, ReadResponse(c)
      PROVE  WantedIsPending'
  BY <1>14 DEF ReadResponse
<1>15. ASSUME NEW p \in Calls, ReadGarbage(p)
      PROVE  WantedIsPending'
  BY <1>15 DEF ReadGarbage, FailPending
<1>16. ASSUME NEW p \in Calls, ReaderEnds(p)
      PROVE  WantedIsPending'
  BY <1>16 DEF ReaderEnds, FailPending
<1>17. CASE Aclose
  BY <1>17 DEF Aclose, StopProcess, ClearProcess, FailPending
<1>18. CASE UNCHANGED <<pending, pc, outcome, oneway>>
  BY <1>18
<1>19. QED
  BY <1>1, <1>2, <1>3, <1>4, <1>5, <1>6, <1>7, <1>8, <1>9, <1>10, <1>11,
      <1>12, <1>13, <1>14, <1>15, <1>16, <1>17, <1>18
  DEF Next, EnsureStarted, SpawnEnds, WriteEnds, AwaitEnds, vars, ReadEof,
      ReadFails, StopReading, ClearProcess, Die, NoticeExit, Kill, ReapIdle,
      IsRunning, StopProcess, FailPending

\* No reader is forgotten, and only a start makes one.
LEMMA ReadersRemain ==
  ASSUME TypeOK, TypeOK', CurrentIsRead, [Next]_vars
  PROVE  \A p \in Calls :
           /\ reader[p] # "none" => reader'[p] # "none"
           /\ reader[p] = "none" /\ reader'[p] # "none" => pc'[p] = "writing"
<1> USE NoCallAssumption DEF TypeOK
<1>1. ASSUME NEW c \in Calls, Spawn(c)
      PROVE  \A p \in Calls : /\ reader[p] # "none" => reader'[p] # "none"
                              /\ p # c => reader'[p] = reader[p]
                              /\ pc'[c] = "writing"
  BY <1>1 DEF Spawn, Register
<1>2. ASSUME process # NoCall, NEW b, StopProcess(process, b)
      PROVE  \A p \in Calls : /\ reader[p] # "none" => reader'[p] # "none"
                              /\ reader[p] = "none" => reader'[p] = reader[p]
  BY <1>2 DEF StopProcess, CurrentIsRead
<1>3. ASSUME NEW p \in Calls, StopReading(p) \/ ReaderEnds(p)
      PROVE  \A q \in Calls : /\ reader[q] # "none" => reader'[q] # "none"
                              /\ reader[q] = "none" => reader'[q] = reader[q]
  BY <1>3 DEF StopReading, ReaderEnds
<1>4. CASE reader' = reader
  BY <1>4
<1>5. CASE \E c \in Calls : StopBeforeRestart(c)
  BY <1>2, <1>5 DEF StopBeforeRestart
<1>6. CASE Aclose \/ ReapIdle
  BY <1>2, <1>6 DEF Aclose, ReapIdle, IsRunning
<1>7. QED
  BY <1>1, <1>3, <1>4, <1>5, <1>6
  DEF Next, EnsureStarted, SpawnEnds, WriteEnds, AwaitEnds, vars, procs,
      UseRunning, StoppedBeforeRestart, StartFresh, SpawnFails, WriteLine,
      Drained, WriteBroken, FailureRecorded, AwaitReturns, TimeOut, GiveUp,
      ReadResponse, ReadGarbage, ReadEof, ReadFails, Die, NoticeExit, Kill

\* A request starts a process, and displaces others, when it leaves the start.
LEMMA CleanStep ==
  ASSUME TypeOK, TypeOK', CurrentIsRead, FreshIsClean, [Next]_vars
  PROVE  FreshIsClean'
<1> USE DEF TypeOK, FreshIsClean
<1>1. ASSUME NEW c \in Calls, UseRunning(c) \/ Spawn(c)
      PROVE  FreshIsClean'
  BY <1>1 DEF UseRunning, Spawn, Register, procs
<1>2. ASSUME before' = before,
             \A c \in Calls : pc'[c] \in {"idle", "stopping", "spawning"} =>
               pc[c] \in {"idle", "stopping", "spawning"}
      PROVE  FreshIsClean'
  BY <1>2, ReadersRemain
<1>0. ASSUME NEW c \in Calls, StopBeforeRestart(c)
      PROVE  FreshIsClean'
  BY <1>0, <1>2 DEF StopBeforeRestart
<1>3. ASSUME NEW c \in Calls,
             \/ StoppedBeforeRestart(c) \/ StartFresh(c)
             \/ SpawnFails(c) \/ WriteEnds(c) \/ Drained(c) \/ FailureRecorded(c)
             \/ AwaitEnds(c) \/ GiveUp(c)
      PROVE  FreshIsClean'
  <2>1. before' = before
    BY <1>3 DEF StoppedBeforeRestart, StartFresh, SpawnFails,
                WriteEnds, WriteLine, WriteBroken, Drained, FailureRecorded,
                AwaitEnds, AwaitReturns, TimeOut, GiveUp
  <2>2. pc[c] \in {"idle", "stopping", "spawning"}
          \/ pc'[c] \notin {"idle", "stopping", "spawning"}
    BY <1>3 DEF WriteEnds, StoppedBeforeRestart, StartFresh,
                SpawnFails, WriteLine, WriteBroken, Drained, FailureRecorded,
                AwaitEnds, AwaitReturns, TimeOut, GiveUp, Return
  <2>3. \A d \in Calls \ {c} : pc'[d] = pc[d]
    BY <1>3 DEF WriteEnds, StoppedBeforeRestart, StartFresh,
                SpawnFails, WriteLine, WriteBroken, Drained, FailureRecorded,
                AwaitEnds, AwaitReturns, TimeOut, GiveUp, Return
  <2>4. QED  BY <1>2, <2>1, <2>2, <2>3
<1>4. CASE UNCHANGED <<pc, before>>
  BY <1>2, <1>4
<1>5. QED
  BY <1>0, <1>1, <1>3, <1>4
  DEF Next, EnsureStarted, SpawnEnds, vars, calls, ReadResponse, ReadGarbage,
      ReadEof, ReadFails, StopReading, ReaderEnds, Die, NoticeExit, Kill, Aclose,
      ReapIdle

\* A request captures a process that has a reader.
LEMMA LinesStep ==
  ASSUME TypeOK, TypeOK', CurrentIsRead, LinesHaveReaders, [Next]_vars
  PROVE  LinesHaveReaders'
<1> USE NoCallAssumption DEF TypeOK, LinesHaveReaders
<1>1. ASSUME NEW c \in Calls, UseRunning(c)
      PROVE  LinesHaveReaders'
  BY <1>1 DEF UseRunning, Register, IsRunning, CurrentIsRead, procs
<1>2. ASSUME NEW c \in Calls, StopBeforeRestart(c)
      PROVE  LinesHaveReaders'
  BY <1>2 DEF StopBeforeRestart, StopProcess, CurrentIsRead
<1>3. ASSUME NEW c \in Calls, Spawn(c)
      PROVE  LinesHaveReaders'
  BY <1>3 DEF Spawn, Register
<1>4. ASSUME UNCHANGED <<on, oneway>>,
             \A c \in Calls : c \in unread' =>
               c \in unread \/ (c \notin oneway /\ pc[c] = "writing"),
             \A c \in Calls :
               pc'[c] \in {"writing", "draining", "failing", "awaiting"} =>
               pc[c] \in {"writing", "draining", "failing", "awaiting"}
      PROVE  LinesHaveReaders'
  BY <1>4, ReadersRemain
<1>5. ASSUME NEW c \in Calls,
             \/ StoppedBeforeRestart(c) \/ StartFresh(c)
             \/ SpawnFails(c) \/ WriteEnds(c) \/ Drained(c) \/ FailureRecorded(c)
             \/ AwaitEnds(c) \/ GiveUp(c)
      PROVE  LinesHaveReaders'
  <2>0. UNCHANGED <<on, oneway>> /\ (unread' = unread \/ WriteLine(c))
    BY <1>5 DEF StoppedBeforeRestart, StartFresh, SpawnFails, procs,
                WriteEnds, WriteLine, WriteBroken, Drained, FailureRecorded,
                AwaitEnds, AwaitReturns, TimeOut, GiveUp
  <2>1. \A d \in Calls : d \in unread' =>
           d \in unread \/ (d \notin oneway /\ pc[d] = "writing")
    BY <2>0 DEF WriteLine
  <2>2. \/ pc[c] \in {"writing", "draining", "failing", "awaiting"}
        \/ pc'[c] \notin {"writing", "draining", "failing", "awaiting"}
    BY <1>5 DEF WriteEnds, StoppedBeforeRestart, StartFresh,
                SpawnFails, WriteLine, WriteBroken, Drained, FailureRecorded,
                AwaitEnds, AwaitReturns, TimeOut, GiveUp, Return
  <2>3. \A d \in Calls \ {c} : pc'[d] = pc[d]
    BY <1>5 DEF WriteEnds, StoppedBeforeRestart, StartFresh,
                SpawnFails, WriteLine, WriteBroken, Drained, FailureRecorded,
                AwaitEnds, AwaitReturns, TimeOut, GiveUp, Return
  <2>4. QED  BY <1>4, <2>0, <2>1, <2>2, <2>3
<1>6. CASE UNCHANGED <<pc, on, oneway>> /\ unread' \subseteq unread
  BY <1>4, <1>6
<1>7. ASSUME NEW p \in Calls,
             \/ ReadResponse(p) \/ ReadGarbage(p) \/ StopReading(p)
             \/ ReaderEnds(p) \/ Die(p) \/ NoticeExit(p) \/ Kill(p)
      PROVE  LinesHaveReaders'
  BY <1>6, <1>7 DEF ReadResponse, ReadGarbage, StopReading, ReaderEnds, Die,
                    NoticeExit, Kill, calls, procs
<1>8. CASE Aclose \/ ReapIdle
  BY <1>6, <1>8 DEF Aclose, ReapIdle
<1>9. CASE UNCHANGED vars
  BY <1>6, <1>9 DEF vars, calls, procs
<1>10. QED
  BY <1>1, <1>2, <1>3, <1>5, <1>7, <1>8, <1>9
  DEF Next, EnsureStarted, SpawnEnds, ReadEof, ReadFails

\* A request that registers notes who is under way with its id, and nobody comes
\* under way otherwise.
LEMMA SharersStep ==
  ASSUME TypeOK, TypeOK', CurrentIsRead, FreshIsClean, LinesHaveReaders,
         SharersKnown, [Next]_vars
  PROVE  SharersKnown'
<1> USE IdAssumption, NoCallAssumption DEF TypeOK
<1>1. ASSUME NEW c \in Calls, NEW p \in Calls, Register(c, p), oneway' = oneway,
             UNCHANGED <<outcome, unread>>,
             \A d \in Calls \ {c} : d \in unread => reader'[on[d]] = reader[on[d]]
      PROVE  SharersKnown'
  <2>1. \A d \in Calls \ {c} : UnderWay(d)' => UnderWay(d)
    BY <1>1 DEF Register, UnderWay, Outstanding
  <2>2. CASE c \in oneway
    <3>1. ~UnderWay(c)' /\ Waits(c)' => Waits(c)
      BY <1>1, <2>2 DEF UnderWay, Waits, Register
    <3>2. QED
      BY <1>1, <2>1, <2>2, <3>1 DEF SharersKnown, Register, Waits, UnderWay
  <2>3. CASE c \notin oneway
    BY <1>1, <2>1, <2>3 DEF SharersKnown, Register, Waits
  <2>4. QED  BY <2>2, <2>3
<1>2. ASSUME NEW c \in Calls, UseRunning(c)
      PROVE  SharersKnown'
  BY <1>1, <1>2 DEF UseRunning, IsRunning, procs, Register
<1>3. ASSUME NEW c \in Calls, Spawn(c)
      PROVE  SharersKnown'
  <2>1. \A d \in Calls : d \in unread => on[d] # c /\ on[d] \in Calls
    BY <1>3 DEF Spawn, FreshIsClean, LinesHaveReaders
  <2>2. Register(c, c) /\ UNCHANGED <<oneway, outcome, unread>>
    BY <1>3 DEF Spawn, Register
  <2>3. \A d \in Calls : d \in unread => reader'[on[d]] = reader[on[d]]
    BY <1>3, <2>1 DEF Spawn
  <2>4. QED  BY <1>1, <2>2, <2>3
<1>4. CASE pending' = [i \in Ids |-> NoCall]
  BY <1>4 DEF SharersKnown, Waits
<1>5. ASSUME /\ before' = before
             /\ \A c \in Calls : Waits(c)' => Waits(c)
             /\ \A c \in Calls : UnderWay(c)' => UnderWay(c)
      PROVE  SharersKnown'
  BY <1>5 DEF SharersKnown
<1>6. ASSUME NEW c \in Calls,
             \/ StoppedBeforeRestart(c) \/ StartFresh(c) \/ SpawnFails(c)
             \/ WriteLine(c) \/ WriteBroken(c) \/ Drained(c) \/ AwaitEnds(c)
             \/ GiveUp(c)
      PROVE  SharersKnown'
  <2>1. /\ UNCHANGED <<before, oneway, on, reader>>
        /\ \A d \in Calls : d \in unread' => d \in unread \/ UnderWay(d)
    BY <1>6 DEF StoppedBeforeRestart, StartFresh, SpawnFails, WriteLine, Drained,
                WriteBroken, AwaitEnds, AwaitReturns, TimeOut, GiveUp, UnderWay,
                procs
  <2>2. \A d \in Calls : Waits(d)' => Waits(d)
    BY <1>6 DEF StoppedBeforeRestart, StartFresh, SpawnFails, WriteLine, Drained,
                WriteBroken, AwaitEnds, AwaitReturns, TimeOut, GiveUp, PopOwn, Waits
  <2>3. \A d \in Calls : Outstanding(d)' => Outstanding(d)
    BY <1>6, <2>1
    DEF StoppedBeforeRestart, StartFresh, SpawnFails, WriteLine, Drained,
        WriteBroken, AwaitEnds, AwaitReturns, TimeOut, GiveUp, Return, Outstanding
  <2>4. \A d \in Calls : pc'[d] = "writing" => pc[d] = "writing"
    BY <1>6 DEF StoppedBeforeRestart, StartFresh, SpawnFails, WriteLine, Drained,
                WriteBroken, AwaitEnds, AwaitReturns, TimeOut, GiveUp, Return
  <2>5. \A d \in Calls : UnderWay(d)' => UnderWay(d)
    BY <2>1, <2>3, <2>4 DEF UnderWay
  <2>6. QED  BY <1>5, <2>1, <2>2, <2>5
<1>7. ASSUME NEW r \in Calls, ReadResponse(r)
      PROVE  SharersKnown'
  BY <1>5, <1>7 DEF ReadResponse, Waits, UnderWay, Outstanding
<1>8. ASSUME NEW p \in Calls,
             StopReading(p) \/ Die(p) \/ NoticeExit(p) \/ Kill(p)
      PROVE  SharersKnown'
  <2>1. UNCHANGED <<pending, calls, unread>>
    BY <1>8 DEF StopReading, Die, NoticeExit, Kill
  <2>2. \A q \in Calls : reader'[q] = "reading" => reader[q] = "reading"
    BY <1>8 DEF StopReading, Die, NoticeExit, Kill
  <2>3. \A d \in Calls : UnderWay(d)' => UnderWay(d)
    BY <2>1, <2>2 DEF UnderWay, Outstanding, calls, LinesHaveReaders
  <2>4. QED  BY <1>5, <2>1, <2>3 DEF Waits, calls
<1>9. CASE ReapIdle
  BY <1>4, <1>9 DEF ReapIdle, StopProcess
<1>10. CASE UNCHANGED vars
  BY <1>5, <1>10 DEF vars, calls, procs, Waits, UnderWay, Outstanding
<1>11. QED
  BY <1>2, <1>3, <1>4, <1>6, <1>7, <1>8, <1>9, <1>10
  DEF Next, EnsureStarted, SpawnEnds, WriteEnds, AwaitEnds, StopBeforeRestart,
      StopProcess, FailPending, FailureRecorded, ReadGarbage, ReaderEnds,
      ReadEof, ReadFails, Aclose

\* The request waiting under a response's id is the one the response answers, or
\* it registered while that one was under way.
LEMMA AnswerStep ==
  ASSUME TypeOK, TypeOK', WantInv, SharersKnown, FreshIsClean,
         LinesHaveReaders, OwnAnswer, [Next]_vars
  PROVE  OwnAnswer'
<1> USE IdAssumption, NoCallAssumption, OnewayAssumption DEF TypeOK, WantInv,
        PendingIsWanted, OwnAnswer, Outstanding, Waits, calls, procs
<1>1. ASSUME NEW c \in Calls, StopBeforeRestart(c)
      PROVE  OwnAnswer'
  BY <1>1 DEF StopBeforeRestart, StopProcess, ClearProcess, FailPending
<1>2. ASSUME NEW c \in Calls, SpawnFails(c)
      PROVE  OwnAnswer'
  BY <1>2 DEF SpawnFails, Return
<1>3. ASSUME NEW c \in Calls, Drained(c)
      PROVE  OwnAnswer'
  BY <1>3 DEF Drained, Return
<1>4. ASSUME NEW c \in Calls, FailureRecorded(c)
      PROVE  OwnAnswer'
  BY <1>4 DEF FailureRecorded
<1>5. ASSUME NEW c \in Calls, TimeOut(c)
      PROVE  OwnAnswer'
  BY <1>5 DEF TimeOut, PopOwn, Return
<1>6. ASSUME NEW c \in Calls, GiveUp(c)
      PROVE  OwnAnswer'
  BY <1>6 DEF GiveUp, Return
<1>7. ASSUME NEW c \in Calls, ReadResponse(c)
      PROVE  OwnAnswer'
  <2>1. UnderWay(c)
    BY <1>7 DEF ReadResponse, UnderWay, LinesHaveReaders
  <2>2. \A d \in Calls : pending[IdOf[c]] = d /\ d # c => c \in before[d]
    BY <2>1 DEF SharersKnown
  <2>3. QED  BY <1>7, <2>2 DEF ReadResponse
<1>8. ASSUME NEW p \in Calls, ReadGarbage(p)
      PROVE  OwnAnswer'
  BY <1>8 DEF ReadGarbage, FailPending
<1>9. ASSUME NEW p \in Calls, ReaderEnds(p)
      PROVE  OwnAnswer'
  BY <1>9 DEF ReaderEnds, FailPending
<1>10. CASE Aclose
  BY <1>10 DEF Aclose, StopProcess, ClearProcess, FailPending
<1>13. ASSUME NEW c \in Calls, UseRunning(c) \/ Spawn(c)
      PROVE  OwnAnswer'
  BY <1>13 DEF UseRunning, Spawn, Register, FreshHasNoResult
<1>11. CASE UNCHANGED <<outcome, answer, before>>
  BY <1>11
<1>12. QED
  BY <1>1, <1>2, <1>3, <1>4, <1>5, <1>6, <1>7, <1>8, <1>9, <1>10, <1>11,
      <1>13
  DEF Next, EnsureStarted, SpawnEnds, WriteEnds, AwaitEnds, vars, UseRunning,
      IsRunning, Register, StoppedBeforeRestart, StartFresh, Spawn, WriteLine,
      WriteBroken, PopOwn, ClearProcess, AwaitReturns, ReadEof, ReadFails, StopReading, Die,
      NoticeExit, Kill, ReapIdle, StopProcess, FailPending

\* The start lock is held over the whole of a restart.
LEMMA StartStep ==
  ASSUME TypeOK, TypeOK', StartInv, [Next]_vars
  PROVE  StartInv'
<1> USE IdAssumption, NoCallAssumption, OnewayAssumption DEF TypeOK, StartInv,
        calls, procs
<1>1. ASSUME NEW c \in Calls, UseRunning(c)
      PROVE  StartInv'
  BY <1>1 DEF UseRunning, IsRunning, Register
<1>2. ASSUME NEW c \in Calls, StopBeforeRestart(c)
      PROVE  StartInv'
  BY <1>2 DEF StopBeforeRestart, StopProcess, ClearProcess, FailPending
<1>3. ASSUME NEW c \in Calls, StoppedBeforeRestart(c)
      PROVE  StartInv'
  <2>1. startLock = c /\ process = NoCall
    BY <1>3 DEF StoppedBeforeRestart
  <2>2. \A d \in Calls : d # c => pc[d] \notin {"stopping", "spawning"}
    BY <2>1
  <2>3. QED
    BY <1>3, <2>1, <2>2 DEF StoppedBeforeRestart
<1>4. ASSUME NEW c \in Calls, StartFresh(c)
      PROVE  StartInv'
  BY <1>4 DEF StartFresh
<1>5. ASSUME NEW c \in Calls, Spawn(c)
      PROVE  StartInv'
  <2>1. startLock = c /\ process = NoCall
    BY <1>5 DEF Spawn
  <2>2. \A d \in Calls : d # c => pc[d] \notin {"stopping", "spawning"}
    BY <2>1
  <2>3. QED
    BY <1>5, <2>1, <2>2 DEF Spawn, Register
<1>6. ASSUME NEW c \in Calls, SpawnFails(c)
      PROVE  StartInv'
  <2>1. startLock = c /\ process = NoCall
    BY <1>6 DEF SpawnFails
  <2>2. \A d \in Calls : d # c => pc[d] \notin {"stopping", "spawning"}
    BY <2>1
  <2>3. QED
    BY <1>6, <2>1, <2>2 DEF SpawnFails, Return
<1>7. ASSUME NEW c \in Calls, WriteLine(c)
      PROVE  StartInv'
  BY <1>7 DEF WriteLine
<1>8. ASSUME NEW c \in Calls, Drained(c)
      PROVE  StartInv'
  BY <1>8 DEF Drained, Return
<1>9. ASSUME NEW c \in Calls, WriteBroken(c)
      PROVE  StartInv'
  BY <1>9 DEF WriteBroken, PopOwn, ClearProcess
<1>10. ASSUME NEW c \in Calls, FailureRecorded(c)
      PROVE  StartInv'
  BY <1>10 DEF FailureRecorded
<1>11. ASSUME NEW c \in Calls, AwaitReturns(c)
      PROVE  StartInv'
  BY <1>11 DEF AwaitReturns
<1>12. ASSUME NEW c \in Calls, TimeOut(c)
      PROVE  StartInv'
  BY <1>12 DEF TimeOut, PopOwn, Return
<1>13. ASSUME NEW c \in Calls, GiveUp(c)
      PROVE  StartInv'
  <2>1. \A d \in Calls : d # c /\ startLock = c => pc[d] \notin {"stopping", "spawning"}
    OBVIOUS
  <2>2. QED
    BY <1>13, <2>1 DEF GiveUp, Return
<1>14. ASSUME NEW p \in Calls, ReadEof(p) \/ ReadFails(p)
      PROVE  StartInv'
  BY <1>14 DEF ReadEof, ReadFails, StopReading, ClearProcess
<1>15. CASE Aclose
  BY <1>15 DEF Aclose, StopProcess, ClearProcess, FailPending
<1>16. CASE ReapIdle
  BY <1>16 DEF ReapIdle, IsRunning, StopProcess, ClearProcess, FailPending
<1>17. CASE UNCHANGED <<startLock, pc, process>>
  BY <1>17
<1>18. QED
  BY <1>1, <1>2, <1>3, <1>4, <1>5, <1>6, <1>7, <1>8, <1>9, <1>10, <1>11,
      <1>12, <1>13, <1>14, <1>15, <1>16, <1>17
  DEF Next, EnsureStarted, SpawnEnds, WriteEnds, AwaitEnds, vars,
      ReadResponse, ReadGarbage, FailPending, ReaderEnds, Die, NoticeExit,
      Kill

\* The write lock is held while a line is drained or its failure recorded.
LEMMA WriteLockStep ==
  ASSUME TypeOK, TypeOK', WriteLockInv, [Next]_vars
  PROVE  WriteLockInv'
<1> USE IdAssumption, NoCallAssumption, OnewayAssumption DEF TypeOK,
        WriteLockInv, calls, procs
<1>1. ASSUME NEW c \in Calls, UseRunning(c)
      PROVE  WriteLockInv'
  BY <1>1 DEF UseRunning, IsRunning, Register
<1>2. ASSUME NEW c \in Calls, StopBeforeRestart(c)
      PROVE  WriteLockInv'
  BY <1>2 DEF StopBeforeRestart, StopProcess, ClearProcess, FailPending
<1>3. ASSUME NEW c \in Calls, StoppedBeforeRestart(c)
      PROVE  WriteLockInv'
  BY <1>3 DEF StoppedBeforeRestart
<1>4. ASSUME NEW c \in Calls, StartFresh(c)
      PROVE  WriteLockInv'
  BY <1>4 DEF StartFresh
<1>5. ASSUME NEW c \in Calls, Spawn(c)
      PROVE  WriteLockInv'
  BY <1>5 DEF Spawn, Register
<1>6. ASSUME NEW c \in Calls, SpawnFails(c)
      PROVE  WriteLockInv'
  BY <1>6 DEF SpawnFails, Return
<1>7. ASSUME NEW c \in Calls, WriteLine(c)
      PROVE  WriteLockInv'
  BY <1>7 DEF WriteLine
<1>8. ASSUME NEW c \in Calls, Drained(c)
      PROVE  WriteLockInv'
  <2>1. writeLock = c
    BY <1>8 DEF Drained
  <2>2. \A d \in Calls : d # c => pc[d] \notin {"draining", "failing"}
    BY <2>1
  <2>3. QED
    BY <1>8, <2>1, <2>2 DEF Drained, Return
<1>9. ASSUME NEW c \in Calls, WriteBroken(c)
      PROVE  WriteLockInv'
  <2>1. writeLock \in {c, NoCall}
    BY <1>9 DEF WriteBroken
  <2>2. \A d \in Calls : d # c => pc[d] \notin {"draining", "failing"}
    BY <2>1
  <2>3. QED
    BY <1>9, <2>1, <2>2 DEF WriteBroken
<1>10. ASSUME NEW c \in Calls, FailureRecorded(c)
      PROVE  WriteLockInv'
  <2>1. writeLock = c
    BY <1>10 DEF FailureRecorded
  <2>2. \A d \in Calls : d # c => pc[d] \notin {"draining", "failing"}
    BY <2>1
  <2>3. QED
    BY <1>10, <2>1, <2>2 DEF FailureRecorded
<1>11. ASSUME NEW c \in Calls, AwaitReturns(c)
      PROVE  WriteLockInv'
  BY <1>11 DEF AwaitReturns
<1>12. ASSUME NEW c \in Calls, TimeOut(c)
      PROVE  WriteLockInv'
  BY <1>12 DEF TimeOut, PopOwn, Return
<1>13. ASSUME NEW c \in Calls, GiveUp(c)
      PROVE  WriteLockInv'
  <2>1. \A d \in Calls : d # c /\ writeLock = c => pc[d] \notin {"draining", "failing"}
    OBVIOUS
  <2>2. QED
    BY <1>13, <2>1 DEF GiveUp, Return
<1>14. CASE UNCHANGED <<writeLock, pc>>
  BY <1>14
<1>15. QED
  BY <1>1, <1>2, <1>3, <1>4, <1>5, <1>6, <1>7, <1>8, <1>9, <1>10, <1>11,
      <1>12, <1>13, <1>14
  DEF Next, EnsureStarted, SpawnEnds, WriteEnds, AwaitEnds, vars,
      ReadResponse, ReadGarbage, FailPending, ReadEof, ReadFails, StopReading, ClearProcess,
      ReaderEnds, Die, NoticeExit, Kill, Aclose,
      StopProcess, ReapIdle, IsRunning

\* Processes do not come back to life, and only a broken write fails.
LEMMA FailingStep ==
  ASSUME TypeOK, FailingOnDead, [Next]_vars
  PROVE  FailingOnDead'
<1> USE DEF TypeOK, FailingOnDead, calls, procs
<1>1. ASSUME NEW c \in Calls, UseRunning(c)
      PROVE  FailingOnDead'
  BY <1>1 DEF UseRunning, Register
<1>2. ASSUME NEW c \in Calls, StopBeforeRestart(c)
      PROVE  FailingOnDead'
  BY <1>2 DEF StopBeforeRestart
<1>3. ASSUME NEW c \in Calls, Spawn(c)
      PROVE  FailingOnDead'
  BY <1>3 DEF Spawn, Register
<1>4. ASSUME NEW c \in Calls, WriteBroken(c)
      PROVE  FailingOnDead'
  BY <1>4 DEF WriteBroken
<1>5. CASE /\ dead \subseteq dead'
           /\ UNCHANGED on
           /\ \A c \in Calls : pc'[c] = "failing" => pc[c] = "failing"
  BY <1>5
<1>6. QED
  BY <1>1, <1>2, <1>3, <1>4, <1>5
  DEF Next, EnsureStarted, SpawnEnds, WriteEnds, AwaitEnds, vars, StartFresh,
      StoppedBeforeRestart, SpawnFails, Return, WriteLine, Drained,
      FailureRecorded, AwaitReturns, TimeOut, GiveUp, ReadResponse,
      ReadGarbage, ReadEof, ReadFails, StopReading, ReaderEnds, Die, NoticeExit,
      Kill, Aclose, StopProcess, ReapIdle

\* Each process is started when there is none and forgotten only by a path
\* that terminates it, or that leaves a dead one to its reader.
LEMMA StrayStep ==
  ASSUME TypeOK, TypeOK', StartInv, FailingOnDead, CurrentIsRead,
         NoStrayProcess, [Next]_vars
  PROVE  NoStrayProcess'
<1> USE NoCallAssumption DEF TypeOK, CurrentIsRead, NoStrayProcess, Spawned,
        calls, procs
<1>1. ASSUME NEW c \in Calls, StopBeforeRestart(c)
      PROVE  NoStrayProcess'
  BY <1>1 DEF StopBeforeRestart, StopProcess, ClearProcess, FailPending
<1>2. ASSUME NEW c \in Calls, StoppedBeforeRestart(c)
      PROVE  NoStrayProcess'
  <2>1. startLock = c /\ process = NoCall
    BY <1>2 DEF StoppedBeforeRestart, StartInv
  <2>2. QED
    BY <1>2, <2>1 DEF StoppedBeforeRestart
<1>3. ASSUME NEW c \in Calls, Spawn(c)
      PROVE  NoStrayProcess'
  <2>1. startLock = c /\ process = NoCall
    BY <1>3 DEF Spawn, StartInv
  <2>2. QED
    BY <1>3, <2>1 DEF Spawn
<1>4. ASSUME NEW c \in Calls, WriteBroken(c)
      PROVE  NoStrayProcess'
  BY <1>4 DEF WriteBroken, PopOwn, ClearProcess
<1>5. ASSUME NEW c \in Calls, GiveUp(c)
      PROVE  NoStrayProcess'
  BY <1>5 DEF GiveUp, Return, FailingOnDead
<1>6. ASSUME NEW p \in Calls, ReadEof(p) \/ ReadFails(p)
      PROVE  NoStrayProcess'
  BY <1>6 DEF ReadEof, ReadFails, StopReading, ClearProcess
<1>7. ASSUME NEW p \in Calls, ReaderEnds(p)
      PROVE  NoStrayProcess'
  BY <1>7 DEF ReaderEnds, FailPending
<1>8. CASE Aclose
  BY <1>8 DEF Aclose, StopProcess, ClearProcess, FailPending
<1>9. CASE ReapIdle
  BY <1>9 DEF ReapIdle, IsRunning, StopProcess, ClearProcess, FailPending
<1>10. CASE UNCHANGED <<process, reader, stopping>> /\ dead \subseteq dead'
  BY <1>10
<1>11. QED
  BY <1>1, <1>2, <1>3, <1>4, <1>5, <1>6, <1>7, <1>8, <1>9, <1>10
  DEF Next, EnsureStarted, SpawnEnds, WriteEnds, AwaitEnds, vars, UseRunning,
      IsRunning, Register, StartFresh, SpawnFails, Return, WriteLine, Drained,
      FailureRecorded, AwaitReturns, TimeOut, PopOwn, ReadResponse,
      ReadGarbage, FailPending, Die, NoticeExit, Kill

\* _reader_task follows _process.
LEMMA CurrentStep ==
  ASSUME TypeOK, TypeOK', CurrentIsRead, [Next]_vars
  PROVE  CurrentIsRead'
<1> USE NoCallAssumption DEF TypeOK, CurrentIsRead, calls, procs
<1>1. ASSUME NEW c \in Calls, StopBeforeRestart(c)
      PROVE  CurrentIsRead'
  BY <1>1 DEF StopBeforeRestart, StopProcess, ClearProcess, FailPending
<1>2. ASSUME NEW c \in Calls, StoppedBeforeRestart(c)
      PROVE  CurrentIsRead'
  BY <1>2 DEF StoppedBeforeRestart
<1>3. ASSUME NEW c \in Calls, Spawn(c)
      PROVE  CurrentIsRead'
  BY <1>3 DEF Spawn, Register
<1>4. ASSUME NEW c \in Calls, WriteBroken(c)
      PROVE  CurrentIsRead'
  BY <1>4 DEF WriteBroken, PopOwn, ClearProcess
<1>5. ASSUME NEW p \in Calls, ReadEof(p) \/ ReadFails(p)
      PROVE  CurrentIsRead'
  BY <1>5 DEF ReadEof, ReadFails, StopReading, ClearProcess
<1>6. ASSUME NEW p \in Calls, ReaderEnds(p)
      PROVE  CurrentIsRead'
  BY <1>6 DEF ReaderEnds, FailPending
<1>7. CASE Aclose
  BY <1>7 DEF Aclose, StopProcess, ClearProcess, FailPending
<1>8. CASE ReapIdle
  BY <1>8 DEF ReapIdle, IsRunning, StopProcess, ClearProcess, FailPending
<1>9. CASE UNCHANGED <<process, reader, readerTask>>
  BY <1>9
<1>10. QED
  BY <1>1, <1>2, <1>3, <1>4, <1>5, <1>6, <1>7, <1>8, <1>9
  DEF Next, EnsureStarted, SpawnEnds, WriteEnds, AwaitEnds, vars, UseRunning,
      IsRunning, Register, StartFresh, SpawnFails, Return, WriteLine, Drained,
      FailureRecorded, AwaitReturns, TimeOut, PopOwn, GiveUp, ReadResponse,
      ReadGarbage, FailPending, Die, NoticeExit, Kill

\* A reader ends, or is cancelled, only together with every wait that it
\* could serve.
LEMMA ReadStep ==
  ASSUME TypeOK, TypeOK', WantInv, FreshIsClean, WantedIsPending,
         WantedIsPending', CurrentIsRead, LinesHaveReaders, NoUnreadWait,
         [Next]_vars
  PROVE  NoUnreadWait'
<1> USE IdAssumption, NoCallAssumption, OnewayAssumption DEF TypeOK, WantInv,
        PendingIsWanted, WantedIsPending, NoUnreadWait, CurrentIsRead,
        Outstanding, Waits, calls, procs
<1> \A d \in Calls : Displaced(d) => Displaced(d)'
  BY DisplacedStays
<1>1. ASSUME NEW c \in Calls, UseRunning(c)
      PROVE  NoUnreadWait'
  BY <1>1 DEF UseRunning, IsRunning, Register
<1>2. ASSUME NEW c \in Calls, StopBeforeRestart(c)
      PROVE  NoUnreadWait'
  BY <1>2 DEF StopBeforeRestart, StopProcess, ClearProcess, FailPending
<1>3. ASSUME NEW c \in Calls, StoppedBeforeRestart(c)
      PROVE  NoUnreadWait'
  BY <1>3 DEF StoppedBeforeRestart
<1>4. ASSUME NEW c \in Calls, StartFresh(c)
      PROVE  NoUnreadWait'
  BY <1>4 DEF StartFresh
<1>5. ASSUME NEW c \in Calls, Spawn(c)
      PROVE  NoUnreadWait'
  BY <1>5 DEF Spawn, Register
<1>6. ASSUME NEW c \in Calls, SpawnFails(c)
      PROVE  NoUnreadWait'
  BY <1>6 DEF SpawnFails, Return
<1>7. ASSUME NEW c \in Calls, WriteLine(c)
      PROVE  NoUnreadWait'
  BY <1>7 DEF WriteLine
<1>8. ASSUME NEW c \in Calls, Drained(c)
      PROVE  NoUnreadWait'
  BY <1>8 DEF Drained, Return
<1>9. ASSUME NEW c \in Calls, WriteBroken(c)
      PROVE  NoUnreadWait'
  BY <1>9 DEF WriteBroken, PopOwn, ClearProcess
<1>10. ASSUME NEW c \in Calls, FailureRecorded(c)
      PROVE  NoUnreadWait'
  BY <1>10 DEF FailureRecorded
<1>11. ASSUME NEW c \in Calls, AwaitReturns(c)
      PROVE  NoUnreadWait'
  BY <1>11 DEF AwaitReturns
<1>12. ASSUME NEW c \in Calls, TimeOut(c)
      PROVE  NoUnreadWait'
  BY <1>12 DEF TimeOut, PopOwn, Return
<1>13. ASSUME NEW c \in Calls, GiveUp(c)
      PROVE  NoUnreadWait'
  BY <1>13 DEF GiveUp, Return
<1>14. ASSUME NEW c \in Calls, ReadResponse(c)
      PROVE  NoUnreadWait'
  BY <1>14 DEF ReadResponse
<1>15. ASSUME NEW p \in Calls, ReadGarbage(p)
      PROVE  NoUnreadWait'
  BY <1>15 DEF ReadGarbage, FailPending
<1>16. ASSUME NEW p \in Calls, ReadEof(p) \/ ReadFails(p)
      PROVE  NoUnreadWait'
  <2>1. \A q \in Calls : reader[q] \in {"reading", "settling"} =>
                         reader'[q] \in {"reading", "settling"}
    BY <1>16 DEF ReadEof, ReadFails, StopReading
  <2>2. UNCHANGED <<pc, on, oneway, outcome>>
    BY <1>16 DEF ReadEof, ReadFails, StopReading
  <2>3. QED  BY <2>1, <2>2 DEF LinesHaveReaders
<1>17. ASSUME NEW p \in Calls, ReaderEnds(p)
      PROVE  NoUnreadWait'
  BY <1>17 DEF ReaderEnds, FailPending
<1>18. CASE Aclose
  BY <1>18 DEF Aclose, StopProcess, ClearProcess, FailPending
<1>19. CASE ReapIdle
  BY <1>19 DEF ReapIdle, IsRunning, StopProcess, ClearProcess, FailPending
<1>20. CASE UNCHANGED <<pc, on, outcome, reader, pending, oneway>>
  BY <1>20
<1>21. QED
  BY <1>1, <1>2, <1>3, <1>4, <1>5, <1>6, <1>7, <1>8, <1>9, <1>10, <1>11,
      <1>12, <1>13, <1>14, <1>15, <1>16, <1>17, <1>18, <1>19, <1>20
  DEF Next, EnsureStarted, SpawnEnds, WriteEnds, AwaitEnds, vars, Die,
      NoticeExit, Kill

-----------------------------------------------------------------------------
(* The theorems.                                                           *)

\* Every variable keeps its type.
THEOREM TypeCorrect == Spec => []TypeOK
BY InitiallyAll, TypeStep, PTL DEF Spec

\* _pending holds no request that is over, whatever ids the requests carry.
THEOREM NoPendingLeak == Spec => []PendingIsWanted
<1>1. Init => TypeOK /\ WantInv
  BY InitiallyAll
<1>2. TypeOK /\ WantInv /\ [Next]_vars => TypeOK' /\ WantInv'
  BY TypeStep, WantStep
<1>3. WantInv => PendingIsWanted
  BY DEF WantInv
<1>4. QED
  BY <1>1, <1>2, <1>3, PTL DEF Spec

\* What a request has returned is never changed by a late response, a late
\* reader or another request's failure.
THEOREM ResultsFinal == Spec => ResultIsFinal
<1>1. Init => TypeOK /\ WantInv
  BY InitiallyAll
<1>2. TypeOK /\ WantInv /\ [Next]_vars => TypeOK' /\ WantInv'
  BY TypeStep, WantStep
<1>3. TypeOK /\ WantInv /\ [Next]_vars => [ResultsKept]_vars
  BY FinalStep
<1>4. QED
  BY <1>1, <1>2, <1>3, PTL DEF Spec, ResultIsFinal, ResultsKept

\* The locks are held exactly by the requests that are in their sections.
THEOREM LocksCorrect == Spec => []LocksHeldByTheirUsers
<1>1. Init => TypeOK /\ StartInv /\ WriteLockInv
  BY InitiallyAll
<1>2. TypeOK /\ StartInv /\ WriteLockInv /\ [Next]_vars
        => TypeOK' /\ StartInv' /\ WriteLockInv'
  BY TypeStep, StartStep, WriteLockStep
<1>3. StartInv /\ WriteLockInv => LocksHeldByTheirUsers
  BY DEF StartInv, WriteLockInv, LocksHeldByTheirUsers
<1>4. QED
  BY <1>1, <1>2, <1>3, PTL DEF Spec

\* No start, crash, close or reap makes the transport forget a process that
\* nobody terminates, or leaves the current process without its reader.
THEOREM ProcessesAccountedFor == Spec => [](NoStrayProcess /\ CurrentIsRead)
<1> DEFINE Inv == TypeOK /\ StartInv /\ FailingOnDead /\ NoStrayProcess
                    /\ CurrentIsRead
<1>1. Init => Inv
  BY InitiallyAll
<1>2. Inv /\ [Next]_vars => Inv'
  BY TypeStep, StartStep, FailingStep, StrayStep, CurrentStep
<1>3. Inv => NoStrayProcess /\ CurrentIsRead
  OBVIOUS
<1> HIDE DEF Inv
<1>4. QED
  BY <1>1, <1>2, <1>3, PTL DEF Spec

\* Whatever ids the callers choose, a response reaches the request it answers or
\* one under the same id that registered while that one was under way; and a
\* request loses its registration only to such a one.
THEOREM ResponsesRouted == Spec => [](OwnAnswer /\ WantedIsPending)
<1> DEFINE Inv == /\ TypeOK /\ WantInv /\ CurrentIsRead
                  /\ FreshIsClean /\ LinesHaveReaders /\ SharersKnown
                  /\ WantedIsPending /\ OwnAnswer
<1>1. Init => Inv
  BY InitiallyAll
<1>2. Inv /\ [Next]_vars => Inv'
  BY TypeStep, WantStep, CurrentStep, CleanStep, LinesStep, SharersStep,
     WantedStep, AnswerStep
<1>3. Inv => OwnAnswer /\ WantedIsPending
  OBVIOUS
<1> HIDE DEF Inv
<1>4. QED
  BY <1>1, <1>2, <1>3, PTL DEF Spec

\* A request that still wants its response is registered, whichever of its
\* writers, readers, closers and restarts ran in between, unless a later request
\* under its id displaced it.
THEOREM RegistrationsKept == Spec => []WantedIsPending
<1>1. Spec => [](OwnAnswer /\ WantedIsPending)
  BY ResponsesRouted
<1>2. QED  BY <1>1, PTL

\* No request that has not been displaced waits for a process nobody reads.
THEOREM WaitsAreServed == Spec => []NoUnreadWait
<1> DEFINE Inv == /\ TypeOK /\ WantInv /\ FreshIsClean /\ CurrentIsRead
                  /\ LinesHaveReaders /\ WantedIsPending /\ NoUnreadWait
<1>1. Init => Inv
  BY InitiallyAll
<1>2. Inv /\ [Next]_vars => Inv'
  BY TypeStep, WantStep, CleanStep, LinesStep, WantedStep, CurrentStep, ReadStep
<1>3. Inv => NoUnreadWait
  OBVIOUS
<1> HIDE DEF Inv
<1>4. QED
  BY <1>1, <1>2, <1>3, PTL DEF Spec


-----------------------------------------------------------------------------
(***************************************************************************)
(* StdioPool, for any sets of calls and services, any limit and any number *)
(* of configuration changes.  Everything that drops clients from the pool  *)
(* (replacement, eviction, removal, shutdown) does it with CloseClients,   *)
(* so it is treated once, in CloseKeeps.                                   *)
(***************************************************************************)

InLock == {"replacing", "making", "evicting"}
Using  == {"holding", "spawning", "writing", "pending"}

\* What a client was made for does not change: its maker has begun.
MadeFor(k, c) ==
  k \in PoolCalls /\ stage[k] # "idle" /\ svc[k] = svc[c] /\ sig[k] = sig[c]

PoolCallInv ==
  /\ \A c \in PoolCalls : stage[c] # "idle" => svc[c] \in Services
  /\ \A c \in PoolCalls : stage[c] \in Using => MadeFor(handle[c], c)
  /\ \A s \in Services : clients[s] # None =>
       stage[clients[s]] # "idle" /\ svc[clients[s]] = s

\* Whoever makes room holds the lock, and its service has no client.
PoolLockInv ==
  \A c \in PoolCalls : stage[c] \in InLock => poolLock = c /\ clients[svc[c]] = None

\* A client has one starter at a time, no process while it has one, and a
\* process it has lives and was started for it.
PoolStartInv ==
  /\ \A k \in PoolCalls : current[k] # None =>
       proc[current[k]] = "live" /\ handle[current[k]] = k
  /\ \A c \in PoolCalls : stage[c] = "spawning" => current[handle[c]] = None
  /\ \A c, d \in PoolCalls : /\ stage[c] = "spawning" /\ stage[d] = "spawning"
                             /\ handle[c] = handle[d]
                             => c = d

\* A call that has yet to start or use its client finds it in the pool, or is
\* late; a process that lives is its client's.
HoldInv ==
  /\ \A c \in PoolCalls : stage[c] \in {"holding", "spawning"} =>
       handle[c] \in Pooled \/ c \in late
  /\ \A p \in PoolCalls : proc[p] # "none" =>
       stage[p] \in {"writing", "pending", "done"} /\ handle[p] \in PoolCalls
  /\ LiveProcessIsFindable

LimitInv == IsFiniteSet(Pooled) /\ PoolWithinLimit

PoolInv == PoolTypeOK /\ PoolCallInv /\ PoolLockInv /\ PoolStartInv /\ HoldInv

-----------------------------------------------------------------------------

LEMMA PoolInitInv == PoolInit => PoolInv
<1> SUFFICES ASSUME PoolInit PROVE PoolInv
  OBVIOUS
<1>1. PoolTypeOK
  <2>1. 0 \in 0..MaxConfig
    BY MaxConfigAssumption
  <2>2. /\ config \in [Services -> 0..MaxConfig]
        /\ sig \in [PoolCalls -> 0..MaxConfig]
    BY <2>1 DEF PoolInit
  <2>3. QED  BY <2>2 DEF PoolInit, PoolTypeOK
<1>2. PoolCallInv /\ PoolLockInv
  BY DEF PoolInit, PoolCallInv, Using, PoolLockInv, InLock
<1>3. PoolStartInv /\ HoldInv
  BY DEF PoolInit, PoolStartInv, HoldInv, LiveProcessIsFindable
<1>4. QED  BY <1>1, <1>2, <1>3 DEF PoolInv

\* What dropping clients does, as far as the invariants can tell.
LEMMA CloseEffect ==
  ASSUME PoolTypeOK, NEW S \in SUBSET Services, CloseClients(S)
  PROVE  /\ clients' \in [Services -> PoolCalls \cup {None}]
         /\ current' \in [PoolCalls -> PoolCalls \cup {None}]
         /\ proc' \in [PoolCalls -> {"none", "live", "stopping", "gone"}]
         /\ late' \subseteq PoolCalls
         /\ \A s \in S : clients'[s] = None
         /\ \A s \in Services : clients'[s] \in {None, clients[s]}
         /\ \A k \in PoolCalls : current'[k] \in {None, current[k]}
         /\ \A p \in PoolCalls : proc'[p] # "none" <=> proc[p] # "none" \/ proc'[p] = "stopping"
         /\ \A p \in PoolCalls : proc'[p] \in {"stopping", proc[p]}
         /\ \A p \in PoolCalls : proc'[p] # proc[p] => \E k \in PoolCalls : current[k] = p
         /\ \A k \in PoolCalls :
              current[k] \in PoolCalls /\ (k \in Pooled \ Pooled' \/ current'[k] = None)
              => proc'[current[k]] = "stopping"
         /\ \A k \in Pooled \ Pooled' : HoldersOf(k) \subseteq late'
         /\ late \subseteq late'
<1> DEFINE K == {clients[s] : s \in S} \ {None}
           P == {current[k] : k \in K} \ {None}
<1>1. /\ clients' = [s \in Services |-> IF s \in S THEN None ELSE clients[s]]
      /\ current' = [k \in PoolCalls |-> IF k \in K THEN None ELSE current[k]]
      /\ proc' = [p \in PoolCalls |-> IF p \in P THEN "stopping" ELSE proc[p]]
      /\ late' = late \cup UNION {HoldersOf(k) : k \in K}
  BY DEF CloseClients
<1>2. K \subseteq PoolCalls /\ P \subseteq PoolCalls
  BY DEF PoolTypeOK
<1>3. \A k : k \in Pooled \ Pooled' => k \in K
  BY <1>1 DEF Pooled, PoolTypeOK
<1> HIDE DEF K
<1>4. \A k \in K : HoldersOf(k) \subseteq late'
  BY <1>1
<1>5. late' \subseteq PoolCalls /\ late \subseteq late'
  BY <1>1 DEF HoldersOf, PoolTypeOK
<1>6. \A k \in K : current[k] \in PoolCalls => proc'[current[k]] = "stopping"
  BY <1>1, <1>2, NoneAssumption
<1>7. \A k \in PoolCalls : current'[k] = None /\ current[k] # None => k \in K
  BY <1>1
<1>8. \A p \in PoolCalls : proc'[p] # proc[p] => \E k \in PoolCalls : current[k] = p
  BY <1>1, <1>2
<1>9. QED
  BY <1>1, <1>2, <1>3, <1>4, <1>5, <1>6, <1>7, <1>8, NoneAssumption DEF PoolTypeOK

\* Dropping clients keeps the invariant, for whoever does it with the lock.
LEMMA CloseKeeps ==
  ASSUME PoolInv, PoolTypeOK', NEW S \in SUBSET Services, CloseClients(S),
         UNCHANGED <<svc, sig, handle>>,
         \A d \in PoolCalls : stage'[d] \in InLock => poolLock' = d /\ clients'[svc[d]] = None,
         \A d \in PoolCalls : \/ stage'[d] = stage[d]
                              \/ stage[d] = "pending" /\ stage'[d] = "done"
                              \/ stage[d] \in {"locking", "making"} /\ stage'[d] \in InLock
  PROVE  PoolInv'
<1> USE NoneAssumption
<1>0. PoolTypeOK
  BY DEF PoolInv
<1>1. PoolCallInv'
  BY CloseEffect, <1>0 DEF PoolInv, PoolTypeOK, PoolCallInv, Using, MadeFor, InLock
<1>2. PoolLockInv'
  BY DEF PoolLockInv
<1>3. ASSUME NEW k \in PoolCalls, current'[k] # None
      PROVE  proc'[current'[k]] = "live" /\ handle'[current'[k]] = k
  <2>1. current'[k] = current[k]
    BY CloseEffect, <1>0, <1>3
  <2>2. proc[current[k]] = "live" /\ handle[current[k]] = k
    BY <1>3, <2>1 DEF PoolInv, PoolStartInv
  <2> DEFINE K == {clients[s] : s \in S} \ {None}
             P == {current[j] : j \in K} \ {None}
  <2>3. proc' = [p \in PoolCalls |-> IF p \in P THEN "stopping" ELSE proc[p]]
    BY DEF CloseClients
  <2>4. k \notin K
    BY <1>3 DEF CloseClients
  <2>5. \A j \in K : current[j] # current[k]
    BY <1>3, <2>1, <2>2, <2>4, <1>0 DEF PoolInv, PoolStartInv, PoolTypeOK
  <2>6. current[k] \in PoolCalls /\ current[k] \notin P
    BY <1>3, <2>1, <2>5, <1>0 DEF PoolTypeOK
  <2>7. proc'[current[k]] = "live"
    BY <2>2, <2>3, <2>6
  <2>8. QED  BY <2>1, <2>2, <2>7
<1>4. PoolStartInv'
  <2>1. \A d \in PoolCalls :
          stage'[d] = "spawning" => stage[d] = "spawning" /\ handle[d] \in PoolCalls
    BY DEF PoolInv, PoolCallInv, MadeFor, Using, InLock
  <2>2. \A d \in PoolCalls : stage'[d] = "spawning" => current'[handle[d]] = None
    BY CloseEffect, <1>0, <2>1 DEF PoolInv, PoolStartInv
  <2>3. QED  BY <1>3, <2>1, <2>2 DEF PoolInv, PoolStartInv
<1>5. \A c \in PoolCalls : stage'[c] \in {"holding", "spawning"} =>
        handle[c] \in Pooled' \/ c \in late'
  BY CloseEffect, <1>0 DEF PoolInv, HoldInv, HoldersOf, InLock
<1>6. \A p \in PoolCalls : proc'[p] # "none" => proc[p] # "none"
  BY CloseEffect, <1>0 DEF PoolInv, PoolStartInv
<1>7. \A p \in PoolCalls : proc'[p] # "none" =>
        stage'[p] \in {"writing", "pending", "done"} /\ handle'[p] \in PoolCalls
  BY <1>6 DEF PoolInv, HoldInv, InLock
<1>8. ASSUME NEW p \in PoolCalls, proc'[p] = "live"
      PROVE  current'[handle'[p]] = p /\ (handle'[p] \in Pooled' \/ p \in late')
  <2>1. proc[p] = "live"
    BY CloseEffect, <1>0, <1>8
  <2>2. /\ current[handle[p]] = p /\ handle[p] \in PoolCalls
        /\ handle[p] \in Pooled \/ p \in late
    BY <2>1 DEF PoolInv, HoldInv, LiveProcessIsFindable
  <2>3. current'[handle[p]] # None
    BY CloseEffect, <1>0, <1>8, <2>2
  <2>4. handle[p] \notin Pooled \ Pooled'
    BY CloseEffect, <1>0, <1>8, <2>2
  <2>5. QED  BY CloseEffect, <1>0, <2>2, <2>3, <2>4
<1>9. HoldInv'
  BY <1>5, <1>7, <1>8 DEF HoldInv, LiveProcessIsFindable
<1>10. QED  BY <1>1, <1>2, <1>4, <1>9 DEF PoolInv

LEMMA PoolTypeStep == PoolInv /\ [PoolNext]_poolVars => PoolTypeOK'
<1> SUFFICES ASSUME PoolInv, [PoolNext]_poolVars PROVE PoolTypeOK'
  OBVIOUS
<1>0. PoolTypeOK
  BY DEF PoolInv
<1> USE <1>0, NoneAssumption, MaxConfigAssumption
    DEF PoolTypeOK, callVars, adminVars, clientVars
<1>1. ASSUME NEW c \in PoolCalls, NEW s \in Services, Begin(c, s)
      PROVE  PoolTypeOK'
  BY <1>1 DEF Begin
<1>2. ASSUME NEW c \in PoolCalls, Found(c)
      PROVE  PoolTypeOK'
  BY <1>2 DEF Found, Matches, PoolInv, PoolCallInv
<1>3. ASSUME NEW S \in SUBSET Services, CloseClients(S),
             UNCHANGED <<svc, sig, handle, config>>,
             poolLock' \in PoolCalls \cup {None}, removed' = removed,
             closing' \subseteq closing, down' \in BOOLEAN,
             awaits' \in [PoolCalls -> PoolCalls \cup {None}],
             stage' \in [PoolCalls -> {"idle", "locking", "replacing", "making", "evicting",
                                       "holding", "spawning", "writing", "pending", "done"}],
             result' \in [PoolCalls -> {"none", "ok", "failed", "closed", "capacity"}]
      PROVE  PoolTypeOK'
  BY <1>3, CloseEffect
<1>4. ASSUME NEW S \in SUBSET Services
      PROVE  /\ StageAfterClose(S) \in
                  [PoolCalls -> {"idle", "locking", "replacing", "making", "evicting",
                                 "holding", "spawning", "writing", "pending", "done"}]
             /\ ResultAfterClose(S) \in
                  [PoolCalls -> {"none", "ok", "failed", "closed", "capacity"}]
  BY DEF StageAfterClose, StageAfterFailing, ResultAfterClose
<1>5. ASSUME NEW c \in PoolCalls, Replace(c)
      PROVE  PoolTypeOK'
  <2>1. svc[c] \in Services /\ current[clients[svc[c]]] \in PoolCalls \cup {None}
    BY <1>5 DEF Replace, PoolInv, PoolCallInv
  <2>2. {svc[c]} \in SUBSET Services
    BY <2>1
  <2>3. QED  BY <1>3, <1>4, <1>5, <2>1, <2>2 DEF Replace
<1>6. ASSUME NEW c \in PoolCalls, NEW s \in Services, Evict(c, s)
      PROVE  PoolTypeOK'
  <2>1. current[clients[s]] \in PoolCalls \cup {None}
    BY <1>6 DEF Evict, Candidates
  <2>2. {s} \in SUBSET Services
    OBVIOUS
  <2>3. QED  BY <1>3, <1>4, <1>6, <2>1, <2>2 DEF Evict
<1>7. ASSUME NEW c \in PoolCalls, Missing(c) \/ ClosedOther(c)
      PROVE  PoolTypeOK'
  BY <1>7 DEF Missing, ClosedOther
<1>8. ASSUME NEW c \in PoolCalls, Create(c) \/ NotAllowed(c) \/ Refuse(c)
      PROVE  PoolTypeOK'
  BY <1>8 DEF Create, NotAllowed, Refuse, Finish
<1>9. ASSUME NEW c \in PoolCalls, Request(c) \/ StartEnds(c)
      PROVE  PoolTypeOK'
  BY <1>9 DEF Request, UseProcess, StartProcess, StartEnds, Started, StartFails, Finish
<1>10. ASSUME NEW c \in PoolCalls, 
             FailsWhileWriting(c) \/ DrainEnds(c) \/ RequestEnds(c) \/ Exit(c)
       PROVE  PoolTypeOK'
  BY <1>10 DEF FailsWhileWriting, DrainEnds, RequestEnds, Exit, Finish
<1>11. ASSUME NEW c \in PoolCalls, Crash(c)
       PROVE  PoolTypeOK'
  BY <1>11 DEF Crash, StageAfterFailing
<1>12. ASSUME NEW s \in Services, Reconfigure(s) \/ Remove(s)
       PROVE  PoolTypeOK'
  BY <1>12 DEF Reconfigure, Remove
<1>13. ASSUME NEW s \in Services, CloseForService(s)
       PROVE  PoolTypeOK'
  <2>1. {s} \in SUBSET Services
    OBVIOUS
  <2>2. QED  BY <1>3, <1>4, <1>13, <2>1 DEF CloseForService
<1>14. CASE Shutdown
  <2>1. Services \in SUBSET Services
    OBVIOUS
  <2>2. QED  BY <1>3, <1>14, <2>1 DEF Shutdown
<1>15. CASE UNCHANGED poolVars
  BY <1>15 DEF poolVars
<1>16. QED
  BY <1>1, <1>2, <1>5, <1>6, <1>7, <1>8, <1>9, <1>10, <1>11, <1>12, <1>13,
     <1>14, <1>15 DEF PoolNext, Acquire, Make

LEMMA PoolInvStep == PoolInv /\ [PoolNext]_poolVars => PoolInv'
<1> SUFFICES ASSUME PoolInv, [PoolNext]_poolVars PROVE PoolInv'
  OBVIOUS
<1>0. PoolTypeOK /\ PoolTypeOK'
  BY PoolTypeStep DEF PoolInv
<1>p. \A S : \A d \in PoolCalls : \/ StageAfterClose(S)[d] = stage[d]
                                  \/ stage[d] = "pending" /\ StageAfterClose(S)[d] = "done"
  BY DEF StageAfterClose, StageAfterFailing
<1>q. \A d \in PoolCalls : stage[d] \in InLock => poolLock = d /\ clients[svc[d]] = None
  BY DEF PoolInv, PoolLockInv
<1>1. ASSUME NEW c \in PoolCalls, Replace(c)
      PROVE  PoolInv'
  <2>1. {svc[c]} \in SUBSET Services /\ stage[c] = "locking" /\ poolLock = None
    BY <1>1 DEF Replace, PoolInv, PoolCallInv
  <2>2. /\ CloseClients({svc[c]})
        /\ UNCHANGED <<svc, sig, handle>>
        /\ poolLock' = c
        /\ stage' = [StageAfterClose({svc[c]}) EXCEPT ![c] = "replacing"]
    BY <1>1 DEF Replace
  <2>3. clients'[svc[c]] = None
    BY <1>0, <2>1, <2>2, CloseEffect
  <2>4. \A d \in PoolCalls : stage[d] \notin InLock
    BY <1>q, <2>1, NoneAssumption
  <2>5. /\ stage'[c] = "replacing"
        /\ \A d \in PoolCalls \ {c} : stage'[d] = StageAfterClose({svc[c]})[d]
    BY <2>2 DEF StageAfterClose, StageAfterFailing
  <2>6. QED
    BY <1>0, <1>p, <2>1, <2>2, <2>3, <2>4, <2>5, CloseKeeps DEF InLock
<1>2. ASSUME NEW c \in PoolCalls, NEW s \in Services, Evict(c, s)
      PROVE  PoolInv'
  <2>1. {s} \in SUBSET Services /\ stage[c] = "making" /\ poolLock = c /\ clients[svc[c]] = None
    BY <1>2, <1>q DEF Evict, InLock
  <2>2. /\ CloseClients({s})
        /\ UNCHANGED <<svc, sig, handle, poolLock>>
        /\ stage' = [StageAfterClose({s}) EXCEPT ![c] = "evicting"]
    BY <1>2 DEF Evict
  <2>3. svc[c] \in Services /\ clients'[svc[c]] = None
    BY <1>0, <2>1, <2>2, CloseEffect DEF PoolInv, PoolCallInv
  <2>4. \A d \in PoolCalls \ {c} : stage[d] \notin InLock
    BY <1>q, <2>1
  <2>5. /\ stage'[c] = "evicting"
        /\ \A d \in PoolCalls \ {c} : stage'[d] = StageAfterClose({s})[d]
    BY <2>2 DEF StageAfterClose, StageAfterFailing
  <2>6. QED
    BY <1>0, <1>p, <2>1, <2>2, <2>3, <2>4, <2>5, CloseKeeps DEF InLock
<1>3. ASSUME NEW s \in Services, CloseForService(s)
      PROVE  PoolInv'
  <2>1. /\ {s} \in SUBSET Services
        /\ CloseClients({s})
        /\ UNCHANGED <<svc, sig, handle, poolLock>>
        /\ stage' = StageAfterClose({s})
        /\ poolLock = None
    BY <1>3 DEF CloseForService
  <2>2. \A d \in PoolCalls : stage[d] \notin InLock
    BY <1>q, <2>1, NoneAssumption
  <2>3. QED  BY <1>0, <1>p, <2>1, <2>2, CloseKeeps DEF InLock
<1>4. CASE Shutdown
  <2>1. /\ Services \in SUBSET Services
        /\ CloseClients(Services)
        /\ UNCHANGED <<svc, sig, handle, poolLock, stage>>
        /\ \A c \in PoolCalls : stage[c] \in {"idle", "done"}
    BY <1>4 DEF Shutdown, callVars
  <2>2. QED  BY <1>0, <2>1, CloseKeeps DEF InLock
<1> USE <1>0, NoneAssumption
    DEF PoolInv, PoolCallInv, Using, MadeFor, PoolLockInv, InLock, PoolStartInv, HoldInv,
        LiveProcessIsFindable, Pooled, callVars, adminVars, clientVars
<1>5. ASSUME NEW c \in PoolCalls, NEW s \in Services, Begin(c, s)
      PROVE  PoolInv'
  BY <1>5 DEF Begin, PoolTypeOK
<1>6. ASSUME NEW c \in PoolCalls, Found(c)
      PROVE  PoolInv'
  BY <1>6 DEF Found, Matches, PoolTypeOK
<1>7. ASSUME NEW c \in PoolCalls, Missing(c) \/ ClosedOther(c)
      PROVE  PoolInv'
  BY <1>7, SMTT(20) DEF Missing, ClosedOther, PoolTypeOK
<1>8. ASSUME NEW c \in PoolCalls, Create(c)
      PROVE  PoolInv'
  BY <1>8 DEF Create, PoolTypeOK
<1>9. ASSUME NEW c \in PoolCalls, NotAllowed(c) \/ Refuse(c) \/ StartFails(c)
               \/ FailsWhileWriting(c) \/ DrainEnds(c) \/ RequestEnds(c)
      PROVE  PoolInv'
  BY <1>9 DEF NotAllowed, Refuse, StartFails, FailsWhileWriting, DrainEnds,
              RequestEnds, Finish, PoolTypeOK
<1>10. ASSUME NEW c \in PoolCalls, Request(c)
       PROVE  PoolInv'
  BY <1>10 DEF Request, UseProcess, StartProcess, StarterOf, PoolTypeOK
<1>11. ASSUME NEW c \in PoolCalls, Started(c)
       PROVE  PoolInv'
  BY <1>11 DEF Started, PoolTypeOK
<1>12. ASSUME NEW p \in PoolCalls, Crash(p)
       PROVE  PoolInv'
  BY <1>12 DEF Crash, PendingOn, StageAfterFailing, PoolTypeOK
<1>13. ASSUME NEW p \in PoolCalls, Exit(p)
       PROVE  PoolInv'
  BY <1>13 DEF Exit, PoolTypeOK
<1>14. CASE UNCHANGED poolVars \/ \E s \in Services : Reconfigure(s) \/ Remove(s)
  BY <1>14 DEF poolVars, Reconfigure, Remove
<1>15. QED
  BY <1>1, <1>2, <1>3, <1>4, <1>5, <1>6, <1>7, <1>8, <1>9, <1>10, <1>11,
     <1>12, <1>13, <1>14 DEF PoolNext, Acquire, Make, StartEnds

-----------------------------------------------------------------------------
(* The limit.  Closing clients only removes from the pool; the one action  *)
(* that adds checks the capacity in the same step.                         *)

LEMMA LimitStep == PoolInv /\ LimitInv /\ [PoolNext]_poolVars => LimitInv'
<1> SUFFICES ASSUME PoolInv, LimitInv, [PoolNext]_poolVars PROVE LimitInv'
  OBVIOUS
<1>0. PoolTypeOK
  BY DEF PoolInv
<1> USE MaxProcessesAssumption, NoneAssumption
<1>1. ASSUME Pooled' \subseteq Pooled
      PROVE  LimitInv'
  <2>1. IsFiniteSet(Pooled') /\ Cardinality(Pooled') <= Cardinality(Pooled)
    BY <1>1, FS_Subset DEF LimitInv
  <2>2. Cardinality(Pooled) \in Nat /\ Cardinality(Pooled') \in Nat
    BY <2>1, FS_CardinalityType DEF LimitInv
  <2>3. QED  BY <2>1, <2>2 DEF LimitInv, PoolWithinLimit
<1>2. ASSUME NEW S \in SUBSET Services, CloseClients(S)
      PROVE  LimitInv'
  BY <1>0, <1>1, <1>2, CloseEffect DEF Pooled
<1>3. ASSUME NEW c \in PoolCalls, Create(c)
      PROVE  LimitInv'
  <2>1. Pooled' \subseteq Pooled \cup {c}
    BY <1>0, <1>3 DEF Create, Pooled, PoolTypeOK
  <2>2. /\ IsFiniteSet(Pooled \cup {c})
        /\ Cardinality(Pooled \cup {c}) <= Cardinality(Pooled) + 1
        /\ Cardinality(Pooled) \in Nat
    <3>1. IsFiniteSet(Pooled) /\ Cardinality(Pooled) \in Nat
      BY FS_CardinalityType DEF LimitInv
    <3>2. /\ IsFiniteSet(Pooled \cup {c})
          /\ Cardinality(Pooled \cup {c}) =
               IF c \in Pooled THEN Cardinality(Pooled) ELSE Cardinality(Pooled) + 1
      BY <3>1, FS_AddElement
    <3>3. QED  BY <3>1, <3>2
  <2>3. Cardinality(Pooled) < MaxProcesses
    BY <1>3, <2>2 DEF Create, AtCapacity
  <2>4. IsFiniteSet(Pooled') /\ Cardinality(Pooled') <= Cardinality(Pooled \cup {c})
    BY <2>1, <2>2, FS_Subset
  <2>5. Cardinality(Pooled') \in Nat /\ Cardinality(Pooled \cup {c}) \in Nat
    BY <2>2, <2>4, FS_CardinalityType
  <2>6. QED  BY <2>2, <2>3, <2>4, <2>5 DEF LimitInv, PoolWithinLimit
<1>4. ASSUME NEW c \in PoolCalls, Replace(c)
      PROVE  LimitInv'
  <2>1. svc[c] \in Services
    BY <1>4 DEF Replace, PoolInv, PoolCallInv
  <2>2. QED  BY <1>2, <1>4, <2>1 DEF Replace
<1>5. ASSUME NEW c \in PoolCalls, NEW s \in Services, Evict(c, s) \/ CloseForService(s)
      PROVE  LimitInv'
  BY <1>2, <1>5 DEF Evict, CloseForService
<1>6. CASE Shutdown
  BY <1>2, <1>6 DEF Shutdown
<1>7. ASSUME UNCHANGED clients
      PROVE  LimitInv'
  BY <1>1, <1>7 DEF Pooled
<1>8. ASSUME NEW c \in PoolCalls,
             \/ \E s \in Services : Begin(c, s)
             \/ Found(c) \/ Missing(c) \/ ClosedOther(c) \/ NotAllowed(c) \/ Refuse(c)
             \/ Request(c) \/ StartEnds(c) \/ FailsWhileWriting(c) \/ DrainEnds(c)
             \/ RequestEnds(c) \/ Crash(c) \/ Exit(c)
      PROVE  UNCHANGED clients
  BY <1>8 DEF Begin, Found, Missing, ClosedOther, NotAllowed, Refuse, Request,
              UseProcess, StartProcess, StartEnds, Started, StartFails,
              FailsWhileWriting, DrainEnds, RequestEnds, Crash, Exit
<1>9. CASE UNCHANGED poolVars \/ \E s \in Services : Reconfigure(s) \/ Remove(s)
  BY <1>7, <1>9 DEF poolVars, Reconfigure, Remove
<1>10. CASE \E s \in Services : CloseForService(s)
  BY <1>2, <1>10 DEF CloseForService
<1>11. QED
  BY <1>3, <1>4, <1>5, <1>6, <1>7, <1>8, <1>9, <1>10 DEF PoolNext, Acquire, Make

-----------------------------------------------------------------------------

\* The variables keep their types.
THEOREM PoolTypeCorrect == PoolSpec => []PoolTypeOK
<1>1. PoolInv => PoolTypeOK
  BY DEF PoolInv
<1>2. QED  BY <1>1, PoolInitInv, PoolInvStep, PTL DEF PoolSpec

\* The pool never holds more clients than the configured maximum.
THEOREM LimitKept == PoolSpec => []PoolWithinLimit
<1>1. PoolInit => LimitInv
  <2> SUFFICES ASSUME PoolInit PROVE LimitInv
    OBVIOUS
  <2>1. Pooled = {}
    BY DEF PoolInit, Pooled
  <2>2. QED
    BY <2>1, FS_EmptySet, MaxProcessesAssumption DEF LimitInv, PoolWithinLimit
<1>2. LimitInv => PoolWithinLimit
  BY DEF LimitInv
<1>3. QED  BY <1>1, <1>2, PoolInitInv, PoolInvStep, LimitStep, PTL DEF PoolSpec

\* A call is only given a client made for its service and configuration.
THEOREM ConfigurationServed == PoolSpec => []ServedAsConfigured
<1>1. PoolInv => ServedAsConfigured
  BY NoneAssumption DEF PoolInv, PoolCallInv, MadeFor, Using, ServedAsConfigured
<1>2. QED  BY <1>1, PoolInitInv, PoolInvStep, PTL DEF PoolSpec

\* A running process is its client's, and the pool finds it unless it dropped
\* the client under the call that started it.
THEOREM ProcessesFindable == PoolSpec => []LiveProcessIsFindable
<1>1. PoolInv => LiveProcessIsFindable
  BY DEF PoolInv, HoldInv
<1>2. QED  BY <1>1, PoolInitInv, PoolInvStep, PTL DEF PoolSpec

\* Making room for one service fails no pending request of another.
THEOREM EvictionSpares == PoolSpec => EvictionSparesPending
<1>1. ASSUME PoolInv, NEW c \in PoolCalls, NEW s \in Services, Evict(c, s),
             NEW d \in PoolCalls, IsPending(d)
      PROVE  IsPending(d)'
  <2>1. FailedBy({s}) = {}
    BY <1>1 DEF Evict, Candidates, FailedBy
  <2>2. /\ stage[c] = "making" /\ result' = ResultAfterClose({s})
        /\ stage' = [StageAfterClose({s}) EXCEPT ![c] = "evicting"]
    BY <1>1 DEF Evict
  <2>3. result'[d] = result[d] /\ stage'[d] = stage[d]
    BY <1>1, <2>1, <2>2
    DEF StageAfterClose, StageAfterFailing, ResultAfterClose, IsPending
  <2>4. QED  BY <1>1, <2>3 DEF IsPending
<1>2. PoolInv => [\A c \in PoolCalls, s \in Services : Evict(c, s) =>
                \A d \in PoolCalls : IsPending(d) => IsPending(d)']_poolVars
  BY <1>1
<1>3. QED  BY <1>2, PoolInitInv, PoolInvStep, PTL DEF PoolSpec, EvictionSparesPending

=============================================================================
