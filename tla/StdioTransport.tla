--------------------------- MODULE StdioTransport ---------------------------
(***************************************************************************)
(* One StdioMcpTransport (proxy/stdio.py): a client that starts a child    *)
(* process on demand, writes JSON-RPC requests to its stdin, and has a     *)
(* reader task that hands each response to the request waiting under the   *)
(* same id.  The client restarts the child when it is gone, and is closed  *)
(* or reaped from outside.                                                 *)
(*                                                                         *)
(* A step is what the event loop runs between two awaits.  Every request   *)
(* starts at most one process, so a process is named after the request     *)
(* that started it.  Death of a process, the loop's noticing it (returncode*)
(* is set) and end of file on stdout are three different moments.          *)
(***************************************************************************)
EXTENDS Naturals, FiniteSets

CONSTANTS
  Calls,    \* requests made of this transport
  Ids,      \* JSON-RPC ids
  IdOf,     \* the id each request carries: the caller chooses it
  Oneway,   \* requests that may be made with expect_response=False
  NoCall,   \* no request, no process
  MaxStarts \* bound: processes that are started, further starts fail

ASSUME IdAssumption     == IdOf \in [Calls -> Ids]
ASSUME OnewayAssumption == Oneway \subseteq Calls
ASSUME NoCallAssumption == NoCall \notin Calls

VARIABLES
  process,    \* _process
  startLock,  \* holder of _start_lock
  writeLock,  \* holder of _write_lock
  readerTask, \* _reader_task, by the process it reads
  pending,    \* _pending: id -> request whose future is registered
  pc,         \* where each request is in request() / _ensure_started()
  on,         \* the process a request has captured
  oneway,     \* the requests that are
  outcome,    \* state of the request's future, and how request() ended
  answer,     \* whose response an answered request was given
  unread,     \* requests a process has received and not yet answered
  reader,     \* per process: its _read_stdout_loop task
  stopping,   \* processes that a stop or failure path will terminate
  killed,     \* processes that were sent SIGKILL
  dead,       \* processes that have died
  exited,     \* processes whose returncode is set
  before      \* history, per request: those under its id that were under way
              \* when it registered

calls == <<pc, on, oneway, outcome, answer, before>>
procs == <<unread, reader, stopping, killed, dead, exited>>
vars  == <<process, startLock, writeLock, readerTask, pending, calls, procs>>

Spawned == {p \in Calls : reader[p] # "none"}

TypeOK ==
  /\ process \in Calls \cup {NoCall}
  /\ startLock \in Calls \cup {NoCall}
  /\ writeLock \in Calls \cup {NoCall}
  /\ readerTask \in Calls \cup {NoCall}
  /\ pending \in [Ids -> Calls \cup {NoCall}]
  /\ pc \in [Calls -> {"idle", "stopping", "spawning", "writing", "draining",
                       "failing", "awaiting", "done"}]
  /\ on \in [Calls -> Calls \cup {NoCall}]
  /\ oneway \subseteq Oneway
  /\ outcome \in [Calls -> {"none", "answered", "failed", "timeout", "sent"}]
  /\ answer \in [Calls -> Calls \cup {NoCall}]
  /\ unread \subseteq Calls
  /\ reader \in [Calls -> {"none", "reading", "settling", "cancelled", "done"}]
  /\ stopping \subseteq Calls
  /\ killed \subseteq Calls
  /\ dead \subseteq Calls
  /\ exited \subseteq Calls
  /\ before \in [Calls -> SUBSET Calls]

Init ==
  /\ process = NoCall
  /\ startLock = NoCall
  /\ writeLock = NoCall
  /\ readerTask = NoCall
  /\ pending = [i \in Ids |-> NoCall]
  /\ pc = [c \in Calls |-> "idle"]
  /\ on = [c \in Calls |-> NoCall]
  /\ oneway \in SUBSET Oneway
  /\ outcome = [c \in Calls |-> "none"]
  /\ answer = [c \in Calls |-> NoCall]
  /\ unread = {}
  /\ reader = [p \in Calls |-> "none"]
  /\ stopping = {}
  /\ killed = {}
  /\ dead = {}
  /\ exited = {}
  /\ before = [c \in Calls |-> {}]

-----------------------------------------------------------------------------
(* Helpers shared by several paths.                                        *)

IsRunning ==
  /\ process # NoCall
  /\ process \notin exited
  /\ readerTask # NoCall => reader[readerTask] # "done"

Waits(c) == pending[IdOf[c]] = c

\* a request whose response is still wanted
Outstanding(c) ==
  /\ c \notin oneway
  /\ pc[c] \in {"writing", "draining", "awaiting"}
  /\ outcome[c] = "none"

\* a request whose response is wanted, or may yet come
UnderWay(c) ==
  /\ c \notin oneway
  /\ \/ Outstanding(c)
     \/ pc[c] = "writing"
     \/ c \in unread /\ reader[on[c]] = "reading"

\* _fail_pending: every registered future, whichever process it waits for
FailPending ==
  /\ pending' = [i \in Ids |-> NoCall]
  /\ outcome' = [c \in Calls |-> IF Waits(c) THEN "failed" ELSE outcome[c]]

ClearProcess(p) == process' = IF process = p THEN NoCall ELSE process

\* _stop_process up to its wait for the exit: forget the process, fail what
\* waits (unless the caller asked not to), cancel the current reader
StopProcess(p, failPending) ==
  /\ ClearProcess(p)
  /\ IF failPending THEN FailPending ELSE UNCHANGED <<pending, outcome>>
  /\ reader' = [q \in Calls |-> IF q = readerTask THEN "cancelled" ELSE reader[q]]
  /\ readerTask' = NoCall
  /\ stopping' = stopping \cup {p}

\* the part of request() that follows _ensure_started without an await
Register(c, p) ==
  /\ pc' = [pc EXCEPT ![c] = "writing"]
  /\ on' = [on EXCEPT ![c] = p]
  /\ UNCHANGED oneway
  /\ IF c \in oneway THEN UNCHANGED <<pending, before>>
     ELSE /\ pending' = [pending EXCEPT ![IdOf[c]] = c]
          /\ before' = [before EXCEPT ![c] =
               {d \in Calls \ {c} : IdOf[d] = IdOf[c] /\ UnderWay(d)}]

PopOwn(c) == pending' = [pending EXCEPT ![IdOf[c]] = IF @ = c THEN NoCall ELSE @]

Return(c, result) ==
  /\ pc' = [pc EXCEPT ![c] = "done"]
  /\ outcome' = [outcome EXCEPT ![c] = result]

-----------------------------------------------------------------------------
(* _ensure_started, under _start_lock.                                     *)

UseRunning(c) ==
  /\ pc[c] = "idle"
  /\ startLock = NoCall
  /\ IsRunning
  /\ Register(c, process)
  /\ UNCHANGED <<process, startLock, writeLock, readerTask, outcome, answer,
                 procs>>

StopBeforeRestart(c) ==
  /\ pc[c] = "idle"
  /\ startLock = NoCall
  /\ process # NoCall
  /\ ~IsRunning
  /\ startLock' = c
  /\ pc' = [pc EXCEPT ![c] = "stopping"]
  /\ on' = [on EXCEPT ![c] = process]
  /\ StopProcess(process, TRUE)
  /\ UNCHANGED <<writeLock, answer, before, oneway, unread, killed, dead,
                 exited>>

StoppedBeforeRestart(c) ==
  /\ pc[c] = "stopping"
  /\ on[c] \in exited
  /\ process' = NoCall
  /\ pc' = [pc EXCEPT ![c] = "spawning"]
  /\ UNCHANGED <<startLock, writeLock, readerTask, pending, on, outcome,
                 answer, before, oneway, procs>>

\* mistake: the process is started without _start_lock
StartFreshUnlocked(c) ==
  /\ pc[c] = "idle"
  /\ process = NoCall
  /\ pc' = [pc EXCEPT ![c] = "spawning"]
  /\ UNCHANGED <<process, startLock, writeLock, readerTask, pending, on,
                 outcome, answer, before, oneway, procs>>

StartFresh(c) ==
  /\ pc[c] = "idle"
  /\ startLock = NoCall
  /\ process = NoCall
  /\ startLock' = c
  /\ pc' = [pc EXCEPT ![c] = "spawning"]
  /\ UNCHANGED <<process, writeLock, readerTask, pending, on, outcome, answer,
                 before, oneway, procs>>

Spawn(c) ==
  /\ pc[c] = "spawning"
  /\ Cardinality(Spawned) < MaxStarts
  /\ process' = c
  /\ startLock' = NoCall
  /\ readerTask' = c
  /\ reader' = [reader EXCEPT ![c] = "reading"]
  /\ Register(c, c)
  /\ UNCHANGED <<writeLock, outcome, answer, unread, stopping, killed, dead,
                 exited>>

\* create_subprocess_exec raises OSError
SpawnFails(c) ==
  /\ pc[c] = "spawning"
  /\ startLock' = NoCall
  /\ Return(c, "failed")
  /\ UNCHANGED <<process, writeLock, readerTask, pending, on, answer, before,
                 oneway, procs>>

-----------------------------------------------------------------------------
(* The rest of request(): write, drain, wait.                              *)

\* what is written to a process that has just died is lost
WriteLine(c) ==
  /\ pc[c] = "writing"
  /\ writeLock = NoCall
  /\ writeLock' = c
  /\ pc' = [pc EXCEPT ![c] = "draining"]
  /\ unread' = IF c \in oneway \/ on[c] \in dead THEN unread ELSE unread \cup {c}
  /\ UNCHANGED <<process, startLock, readerTask, pending, on, outcome, answer,
                 before, oneway, reader, stopping, killed, dead, exited>>

\* mistake: the write lock is not released
DrainedKeepsLock(c) ==
  /\ pc[c] = "draining"
  /\ IF c \in oneway
     THEN Return(c, "sent")
     ELSE pc' = [pc EXCEPT ![c] = "awaiting"] /\ UNCHANGED outcome
  /\ UNCHANGED <<process, startLock, writeLock, readerTask, pending, on,
                 answer, before, oneway, procs>>

\* the child has read enough of its stdin for drain() to return
Drained(c) ==
  /\ pc[c] = "draining"
  /\ writeLock' = NoCall
  /\ IF c \in oneway
     THEN Return(c, "sent")
     ELSE pc' = [pc EXCEPT ![c] = "awaiting"] /\ UNCHANGED outcome
  /\ UNCHANGED <<process, startLock, readerTask, pending, on, answer, before,
                 oneway, procs>>

\* BrokenPipeError or ConnectionResetError: the failure is recorded while the
\* write lock is held
WriteBroken(c) ==
  /\ \/ pc[c] = "writing" /\ writeLock = NoCall
     \/ pc[c] = "draining"
  /\ on[c] \in dead
  /\ writeLock' = c
  /\ pc' = [pc EXCEPT ![c] = "failing"]
  /\ PopOwn(c)
  /\ ClearProcess(on[c])
  /\ stopping' = stopping \cup {on[c]}
  /\ UNCHANGED <<startLock, readerTask, on, outcome, answer, before, oneway,
                 unread, reader, killed, dead, exited>>

FailureRecorded(c) ==
  /\ pc[c] = "failing"
  /\ on[c] \in exited
  /\ writeLock' = NoCall
  /\ pending' = [i \in Ids |-> NoCall]
  /\ outcome' = [d \in Calls |-> IF Waits(d) \/ d = c THEN "failed" ELSE outcome[d]]
  /\ answer' = [answer EXCEPT ![c] = NoCall]
  /\ pc' = [pc EXCEPT ![c] = "done"]
  /\ UNCHANGED <<process, startLock, readerTask, on, before, oneway, procs>>

AwaitReturns(c) ==
  /\ pc[c] = "awaiting"
  /\ outcome[c] # "none"
  /\ pc' = [pc EXCEPT ![c] = "done"]
  /\ UNCHANGED <<process, startLock, writeLock, readerTask, pending, on,
                 outcome, answer, before, oneway, procs>>

\* mistake: a request that times out stays registered
TimeOutKeepsEntry(c) ==
  /\ pc[c] = "awaiting"
  /\ outcome[c] = "none"
  /\ Return(c, "timeout")
  /\ UNCHANGED <<process, startLock, writeLock, readerTask, pending, on,
                 answer, before, oneway, procs>>

\* mistake: a request that times out takes all the others along
TimeOutClearsAll(c) ==
  /\ pc[c] = "awaiting"
  /\ outcome[c] = "none"
  /\ pending' = [i \in Ids |-> NoCall]
  /\ Return(c, "timeout")
  /\ UNCHANGED <<process, startLock, writeLock, readerTask, on, answer, before,
                 oneway, procs>>

TimeOut(c) ==
  /\ pc[c] = "awaiting"
  /\ outcome[c] = "none"
  /\ PopOwn(c)
  /\ Return(c, "timeout")
  /\ UNCHANGED <<process, startLock, writeLock, readerTask, on, answer, before,
                 oneway, procs>>

\* the caller of a one-way request waits two seconds and then cancels it,
\* wherever it is.  The locks are released and a process that was being
\* started is killed; a process whose failure was being recorded may not have
\* been terminated yet, and then only its reader will find it
GiveUp(c) ==
  /\ c \in oneway
  /\ pc[c] # "done"
  /\ Return(c, "timeout")
  /\ startLock' = IF startLock = c THEN NoCall ELSE startLock
  /\ writeLock' = IF writeLock = c THEN NoCall ELSE writeLock
  /\ \/ UNCHANGED stopping
     \/ /\ pc[c] = "failing"
        /\ reader[on[c]] = "reading"
        /\ stopping' = stopping \ {on[c]}
  /\ UNCHANGED <<process, readerTask, pending, on, answer, before, oneway,
                 unread, reader, killed, dead, exited>>

-----------------------------------------------------------------------------
(* The reader task of a process.                                           *)

\* mistake: a response goes to whichever request waits, whatever its id
ReadResponseInOrder(r) ==
  /\ r \in unread
  /\ reader[on[r]] = "reading"
  /\ unread' = unread \ {r}
  /\ \E waiter \in {pending[i] : i \in Ids} \ {NoCall} :
       /\ pending' = [pending EXCEPT ![IdOf[waiter]] = NoCall]
       /\ outcome' = [outcome EXCEPT ![waiter] = "answered"]
       /\ answer' = [answer EXCEPT ![waiter] = r]
  /\ UNCHANGED <<process, startLock, writeLock, readerTask, pc, on, before,
                 oneway, reader, stopping, killed, dead, exited>>

\* the response to request r: given to whoever waits under r's id
ReadResponse(r) ==
  /\ r \in unread
  /\ reader[on[r]] = "reading"
  /\ unread' = unread \ {r}
  /\ LET waiter == pending[IdOf[r]] IN
       /\ pending' = [pending EXCEPT ![IdOf[r]] = NoCall]
       /\ outcome' = [c \in Calls |-> IF c = waiter THEN "answered" ELSE outcome[c]]
       /\ answer' = [c \in Calls |-> IF c = waiter THEN r ELSE answer[c]]
  /\ UNCHANGED <<process, startLock, writeLock, readerTask, pc, on, before,
                 oneway, reader, stopping, killed, dead, exited>>

\* an oversize line, a line that is not JSON, or JSON that is no object
ReadGarbage(p) ==
  /\ reader[p] = "reading"
  /\ FailPending
  /\ UNCHANGED <<process, startLock, writeLock, readerTask, pc, on, answer,
                 before, oneway, procs>>

\* the reader leaves its loop: what its finally clause does up to the wait
StopReading(p) ==
  /\ reader[p] = "reading"
  /\ reader' = [reader EXCEPT ![p] = "settling"]
  /\ readerTask' = IF readerTask = p THEN NoCall ELSE readerTask
  /\ ClearProcess(p)
  /\ stopping' = stopping \cup {p}
  /\ UNCHANGED <<startLock, writeLock, pending, calls, unread, killed, dead,
                 exited>>

ReadEof(p) ==
  /\ p \in dead
  /\ StopReading(p)

\* readline raises, with the child alive: a line over the stream's own limit
ReadFails(p) ==
  /\ p \notin dead
  /\ StopReading(p)

\* the end of _record_process_failure in the reader's finally clause
ReaderEnds(p) ==
  /\ reader[p] = "settling"
  /\ p \in exited
  /\ reader' = [reader EXCEPT ![p] = "done"]
  /\ FailPending
  /\ UNCHANGED <<process, startLock, writeLock, readerTask, pc, on, answer,
                 before, oneway, unread, stopping, killed, dead, exited>>

-----------------------------------------------------------------------------
(* The transport's owner, and the child process.                           *)

Aclose ==
  /\ process # NoCall
  /\ StopProcess(process, TRUE)
  /\ UNCHANGED <<startLock, writeLock, pc, on, answer, before, oneway, unread,
                 killed, dead, exited>>

\* mistake: reap_idle does not look at _pending
ReapAnyway ==
  /\ IsRunning
  /\ StopProcess(process, FALSE)
  /\ UNCHANGED <<startLock, writeLock, pc, on, answer, before, oneway, unread,
                 killed, dead, exited>>

\* when the idle time has passed is left open
ReapIdle ==
  /\ IsRunning
  /\ \A i \in Ids : pending[i] = NoCall
  /\ StopProcess(process, FALSE)
  /\ UNCHANGED <<startLock, writeLock, pc, on, answer, before, oneway, unread,
                 killed, dead, exited>>

\* the child exits or closes its pipes
Die(p) ==
  /\ p \in Spawned \ dead
  /\ dead' = dead \cup {p}
  /\ UNCHANGED <<process, startLock, writeLock, readerTask, pending, calls,
                 unread, reader, stopping, killed, exited>>

NoticeExit(p) ==
  /\ p \in dead \ exited
  /\ exited' = exited \cup {p}
  /\ UNCHANGED <<process, startLock, writeLock, readerTask, pending, calls,
                 unread, reader, stopping, killed, dead>>

\* mistake: a child that ignores the request to terminate is left alone
KillOnlyDead(p) ==
  /\ p \in (stopping \cap dead) \ exited
  /\ killed' = killed \cup {p}
  /\ UNCHANGED <<process, startLock, writeLock, readerTask, pending, calls,
                 unread, reader, stopping, dead, exited>>

\* _wait_for_exit_or_terminate, on whichever path runs it: it waits, asks the
\* child to terminate and waits again, which the child may heed (Die) or not;
\* when both times are over it kills the child and waits for the exit
Kill(p) ==
  /\ p \in stopping \ exited
  /\ killed' = killed \cup {p}
  /\ dead' = dead \cup {p}
  /\ UNCHANGED <<process, startLock, writeLock, readerTask, pending, calls,
                 unread, reader, stopping, exited>>

-----------------------------------------------------------------------------

EnsureStarted(c) == UseRunning(c) \/ StopBeforeRestart(c) \/ StartFresh(c)
SpawnEnds(c)     == Spawn(c) \/ SpawnFails(c)
WriteEnds(c)     == WriteLine(c) \/ WriteBroken(c)
AwaitEnds(c)     == AwaitReturns(c) \/ TimeOut(c)

Next ==
  \/ \E c \in Calls :
       \/ EnsureStarted(c)
       \/ StoppedBeforeRestart(c)
       \/ SpawnEnds(c)
       \/ WriteEnds(c)
       \/ Drained(c)
       \/ FailureRecorded(c)
       \/ AwaitEnds(c)
       \/ GiveUp(c)
       \/ ReadResponse(c)
  \/ \E p \in Calls :
       \/ ReadGarbage(p)
       \/ ReadEof(p)
       \/ ReadFails(p)
       \/ ReaderEnds(p)
       \/ Die(p)
       \/ NoticeExit(p)
       \/ Kill(p)
  \/ Aclose
  \/ ReapIdle

\* The event loop runs every ready task, and timers fire.
LoopFairness ==
  \A c \in Calls :
    /\ WF_vars(StoppedBeforeRestart(c))
    /\ WF_vars(SpawnEnds(c))
    /\ WF_vars(WriteEnds(c))
    /\ WF_vars(FailureRecorded(c))
    /\ WF_vars(AwaitEnds(c))
    /\ WF_vars(Kill(c))
    /\ WF_vars(ReadEof(c))
    /\ WF_vars(ReaderEnds(c))

\* The kernel ends a child that is killed, and the loop is told; nothing is
\* assumed of a child that was only asked to terminate.
KillIsFinal ==
  \A c \in Calls : WF_vars(c \in killed /\ NoticeExit(c))

\* The child keeps reading its stdin, or dies.
ChildReads == \A c \in Calls : WF_vars(Drained(c))

Spec     == Init /\ [][Next]_vars
FairSpec == Spec /\ LoopFairness /\ KillIsFinal /\ ChildReads

-----------------------------------------------------------------------------
(* Properties.                                                             *)

\* a request whose entry another one under the same id took over
Displaced(c) == \E d \in Calls : c \in before[d]

\* _pending never keeps a request that is over: a leaked entry would make
\* reap_idle and the pool's eviction, which both look at it, pass over the
\* client for ever.
PendingIsWanted ==
  \A i \in Ids : pending[i] # NoCall =>
    /\ IdOf[pending[i]] = i
    /\ Outstanding(pending[i])

\* A request that still wants its response is registered under its id, so
\* that a response, a failure or a close reaches it, whichever of its writers,
\* readers, closers and restarts ran in between.  Ids are chosen by clients, and
\* the only way to lose the entry is a later request under the same id, which
\* overwrites it (stdio.py:219-223): the earlier one is left to its timeout.
WantedIsPending == \A c \in Calls : Outstanding(c) => Waits(c) \/ Displaced(c)

\* A request is given the response to itself, or to one under the same id that
\* was still under way when it registered: written, timed out and not yet
\* answered by the child, or displaced by it.  No other interleaving, late
\* response or restart hands out somebody else's response (stdio.py:219-223,
\* 380-382).
OwnAnswer ==
  \A c \in Calls : outcome[c] = "answered" => answer[c] \in {c} \cup before[c]

\* The transport loses no process: each one it started is the current one, is
\* being terminated, or has died under a reader that is about to find out,
\* whatever start, crash, close, reap and cancellation interleave.
NoStrayProcess ==
  \A p \in Spawned :
    p = process \/ p \in stopping \/ (p \in dead /\ reader[p] = "reading")

\* The current process has its reader, and _reader_task is that reader: no
\* start, end of file or cancellation of an earlier reader takes it away.
CurrentIsRead ==
  process # NoCall => readerTask = process /\ reader[process] = "reading"

\* No request is left to time out on a process that nobody reads any more:
\* its reader is at work or about to fail it, unless a later request under its
\* id has taken its entry over.
NoUnreadWait ==
  \A c \in Calls : Outstanding(c) =>
    reader[on[c]] \in {"reading", "settling"} \/ Displaced(c)

\* Only the starter of a process and the writer of a line hold the locks, and
\* they hold them (asyncio.Lock around _ensure_started and the write).
LocksHeldByTheirUsers ==
  \A c \in Calls :
    /\ startLock = c <=> pc[c] \in {"stopping", "spawning"}
    /\ writeLock = c <=> pc[c] \in {"draining", "failing"}

\* A request's result is final: a late response, a late reader or a second
\* failure never changes what a request has returned.
ResultIsFinal ==
  [][\A c \in Calls : pc[c] = "done" => outcome'[c] = outcome[c]
                                        /\ answer'[c] = answer[c]]_vars

\* Every request that was started returns: no lock is held for ever, no
\* future is forgotten, no stop waits for a process nobody ends.
RequestReturns == \A c \in Calls : pc[c] # "idle" ~> pc[c] = "done"

\* A process that some path set out to stop exits, though it may ignore the
\* request to terminate, and though the request that was stopping it may be
\* cancelled half way (stdio.py:456-483, main.py:744): then its reader
\* takes the stop over.
StoppedProcessExits == \A p \in Calls : p \in stopping ~> p \in exited

=============================================================================
