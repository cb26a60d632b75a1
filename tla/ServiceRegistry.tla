-------------------------- MODULE ServiceRegistry ---------------------------
(***************************************************************************)
(* The registry of services (db/repository_services.py,                    *)
(* db/repository_catalog.py, db/repository_jobs.py): validate_service of   *)
(* main.py with the job that reports it, the admin's changes, the health   *)
(* probe and the reaper of stuck jobs.  All of them share one database     *)
(* connection: a statement is visible to everybody at once, and whoever    *)
(* commits commits everybody's statements.  A stop of the process goes     *)
(* back to what was committed.                                             *)
(* A validation pauses at every await; a step is what runs between two.    *)
(* The rows of Uris are a service's resources; its templates and prompts   *)
(* are replaced the same way, without a shadow policy.  Of its tools the   *)
(* model keeps whether any is active.                                      *)
(***************************************************************************)
EXTENDS Integers, FiniteSets

CONSTANTS
  Services, Uris,
  Validations,  \* calls of validate_service
  Reported,     \* those of the endpoint, which have a job; the others are of
                \* the scheduled refresh and of the probe that found a drift
  Old,          \* a service an earlier process validated, with all uris
  NoService,
  MaxEvents     \* bound: admin changes, probe answers and stops in one behaviour

ASSUME NoServiceIsNone == NoService \notin Services
ASSUME EventsAssumption == MaxEvents \in Nat /\ Reported \subseteq Validations
ASSUME OldAssumption == Old \subseteq Services /\ \A s, t \in Old : s = t

\* "off" stands for draft and disabled, which nothing but an admin or a validation ends
Statuses == {"off", "validating", "active", "error", "deleted"}
RowStates == {"none", "active", "disabled", "deprecated"}
JobStates == {"none", "queued", "running", "success", "failed"}
Steps == {"idle", "created", "read", "marked", "answered", "wipedTools", "toolsIn",
          "rows", "writing", "stored", "claimed", "replaced", "failing", "judged",
          "active", "claimedAgain", "told", "failed", "done"}

VARIABLES
  status,   \* per service: mcp_services.status
  deleted,  \* per service: deleted_at is set
  tools,    \* per service: service_tools has an active row
  rows,     \* per service and uri: service_resources.status
  job,      \* per validation: jobs.status
  disk,     \* what has been committed
  pc,       \* per validation: where it pauses
  svc,      \* per validation: its service
  read,     \* per validation: the status it read before it changed it
  todo,     \* per validation: uris still to be stored
  found,    \* per validation: the uri looked up, and whether its row existed
  claims,   \* per validation: uris the shadow policy takes from others
  verdict,  \* per validation: the status it will leave
  events,   \* admin changes, probe answers and stops so far
  outcome,  \* history, per validation with a job: how it ended
  alone,    \* history, per validation: no other one of its service ran with it
  sound,    \* history, per validation: it began on an active service with tools
  cut,      \* history: services whose validation was cut short, since one of them ended
  calm      \* history: no overlap, stop, crash or return has disturbed the uris

tables   == <<status, deleted, tools, rows, job>>
runVars  == <<pc, svc, read, todo, found, claims, verdict>>
history  == <<outcome, alone, sound, cut, calm>>
vars == <<tables, disk, runVars, events, history>>

Db == [status |-> status, deleted |-> deleted, tools |-> tools, rows |-> rows, job |-> job]

Commit == disk' = Db'

Running == {v \in Validations : pc[v] \notin {"idle", "done"}}

NothingFound == [uri |-> NoService, existed |-> FALSE]

Init ==
  /\ status = [s \in Services |-> IF s \in Old THEN "active" ELSE "off"]
  /\ tools = [s \in Services |-> s \in Old]
  /\ rows = [s \in Services |-> [u \in Uris |-> IF s \in Old THEN "active" ELSE "none"]]
  /\ deleted = [s \in Services |-> FALSE]
  /\ job = [v \in Validations |-> "none"]
  /\ disk = Db
  /\ pc = [v \in Validations |-> "idle"]
  /\ svc = [v \in Validations |-> NoService]
  /\ read = [v \in Validations |-> "off"]
  /\ todo = [v \in Validations |-> {}]
  /\ found = [v \in Validations |-> NothingFound]
  /\ claims = [v \in Validations |-> {}]
  /\ verdict = [v \in Validations |-> "off"]
  /\ events = 0
  /\ outcome = [v \in Validations |-> "none"]
  /\ alone = [v \in Validations |-> TRUE]
  /\ sound = [v \in Validations |-> FALSE]
  /\ cut = {}
  /\ calm = TRUE

TypeOK ==
  /\ status \in [Services -> Statuses]
  /\ deleted \in [Services -> BOOLEAN]
  /\ tools \in [Services -> BOOLEAN]
  /\ rows \in [Services -> [Uris -> RowStates]]
  /\ job \in [Validations -> JobStates]
  /\ pc \in [Validations -> Steps]
  /\ svc \in [Validations -> Services \cup {NoService}]
  /\ \A v \in Validations :
       /\ svc[v] = NoService <=> pc[v] \in {"idle", "done"}
       /\ todo[v] \subseteq Uris
       /\ claims[v] \subseteq Uris
       /\ verdict[v] \in Statuses /\ read[v] \in Statuses
  /\ events \in 0..MaxEvents

-----------------------------------------------------------------------------
(* A validation.                                                           *)

At(v, step) == pc[v] = step
Go(v, step) == pc' = [pc EXCEPT ![v] = step]

\* it is over: nothing of it is left but its job
Leave(v) ==
  /\ Go(v, "done")
  /\ svc' = [svc EXCEPT ![v] = NoService]
  /\ read' = [read EXCEPT ![v] = "off"]
  /\ todo' = [todo EXCEPT ![v] = {}]
  /\ found' = [found EXCEPT ![v] = NothingFound]
  /\ claims' = [claims EXCEPT ![v] = {}]
  /\ verdict' = [verdict EXCEPT ![v] = "off"]
  /\ alone' = [alone EXCEPT ![v] = TRUE]
  /\ sound' = [sound EXCEPT ![v] = FALSE]

\* the endpoint creates a job first
Begin(v, s) ==
  /\ At(v, "idle") /\ ~deleted[s]
  /\ Go(v, "created")
  /\ svc' = [svc EXCEPT ![v] = s]
  /\ job' = IF v \in Reported THEN [job EXCEPT ![v] = "queued"] ELSE job
  /\ LET others == {w \in Running : svc[w] = s}
     IN  alone' = [w \in Validations |->
                     IF w = v THEN others = {} ELSE alone[w] /\ w \notin others]
  /\ calm' = (calm /\ Running = {})
  /\ UNCHANGED <<status, deleted, tools, rows, read, todo, found, claims,
                 verdict, events, outcome, sound, cut>>
  /\ Commit

\* service not found: the ValueError leaves the job queued
ServiceGone(v) ==
  /\ At(v, "created") /\ deleted[svc[v]]
  /\ Leave(v)
  /\ UNCHANGED <<tables, disk, events, outcome, cut, calm>>

\* mistake: the row is read only when it already says validating
ReadAsMarked(v) ==
  /\ At(v, "created") /\ ~deleted[svc[v]]
  /\ Go(v, "read")
  /\ read' = [read EXCEPT ![v] = "validating"]
  /\ sound' = [sound EXCEPT ![v] = status[svc[v]] = "active" /\ tools[svc[v]]]
  /\ UNCHANGED <<tables, disk, svc, todo, found, claims, verdict, events,
                 outcome, alone, cut, calm>>

\* the service's row, as it is before this validation changes it
Read(v) ==
  /\ At(v, "created") /\ ~deleted[svc[v]]
  /\ Go(v, "read")
  /\ read' = [read EXCEPT ![v] = status[svc[v]]]
  /\ sound' = [sound EXCEPT ![v] = status[svc[v]] = "active" /\ tools[svc[v]]]
  /\ UNCHANGED <<tables, disk, svc, todo, found, claims, verdict, events,
                 outcome, alone, cut, calm>>

\* an UPDATE of the service's status that spares a deleted service
SetStatus(s, st) == status' = IF deleted[s] THEN status ELSE [status EXCEPT ![s] = st]

Mark(v) ==
  /\ At(v, "read")
  /\ SetStatus(svc[v], "validating")
  /\ Go(v, "marked")
  /\ UNCHANGED <<deleted, tools, rows, job, svc, read, todo, found, claims,
                 verdict, events, history>>
  /\ Commit

SetJob(v, j) == job' = IF v \notin Reported THEN job ELSE [job EXCEPT ![v] = j]

\* the job runs, then initialize and tools/list are answered or fail
Ask(v) ==
  /\ At(v, "marked")
  /\ SetJob(v, "running")
  /\ \E step \in {"answered", "failing"} : Go(v, step)
  /\ UNCHANGED <<status, deleted, tools, rows, svc, read, todo, found, claims,
                 verdict, events, history>>
  /\ Commit

\* an exception that no handler of validate_service catches ends it: the answer
\* to one of its five requests breaks off while its body is read (an httpx
\* error), or a row that was not there has been inserted by somebody else
BreakOff(v) == Leave(v) /\ cut' = cut \cup {svc[v]}

AnswerBreaks(v) ==
  /\ pc[v] \in {"marked", "toolsIn", "replaced"}
  /\ IF At(v, "marked") THEN SetJob(v, "running") ELSE UNCHANGED job
  /\ BreakOff(v)
  /\ UNCHANGED <<status, deleted, tools, rows, events, outcome, calm>>
  /\ IF At(v, "marked") THEN Commit ELSE UNCHANGED disk

\* replace_service_tools disables all rows ...
WipeTools(v) ==
  /\ At(v, "answered")
  /\ tools' = [tools EXCEPT ![svc[v]] = FALSE]
  /\ Go(v, "wipedTools")
  /\ UNCHANGED <<status, deleted, rows, job, disk, svc, read, todo, found,
                 claims, verdict, events, history>>

\* ... and stores the answer, which may be empty
StoreTools(v) ==
  /\ At(v, "wipedTools")
  /\ \E any \in BOOLEAN : tools' = [tools EXCEPT ![svc[v]] = any]
  /\ Go(v, "toolsIn")
  /\ UNCHANGED <<status, deleted, rows, job, svc, read, todo, found, claims,
                 verdict, events, history>>
  /\ Commit

\* resources/list is answered, with nothing when it fails, and the rows are disabled
WipeRows(v) ==
  /\ At(v, "toolsIn")
  /\ \E listed \in SUBSET Uris : todo' = [todo EXCEPT ![v] = listed]
  /\ rows' = [rows EXCEPT ![svc[v]] =
                [u \in Uris |-> IF @[u] = "none" THEN "none" ELSE "disabled"]]
  /\ Go(v, "rows")
  /\ UNCHANGED <<status, deleted, tools, job, disk, svc, read, found, claims, verdict,
                 events, history>>

\* per uri: is there a row?
LookUpRow(v) ==
  /\ At(v, "rows")
  /\ \E u \in todo[v] :
       /\ found' = [found EXCEPT ![v] = [uri |-> u, existed |-> rows[svc[v]][u] # "none"]]
       /\ todo' = [todo EXCEPT ![v] = @ \ {u}]
  /\ Go(v, "writing")
  /\ UNCHANGED <<tables, disk, svc, read, claims, verdict, events, history>>

Inserts(v) == ~found[v].existed
RowAppeared(v) == rows[svc[v]][found[v].uri] # "none"

\* it is updated, or inserted
StoreRow(v) ==
  /\ At(v, "writing") /\ ~(Inserts(v) /\ RowAppeared(v))
  /\ rows' = [rows EXCEPT ![svc[v]][found[v].uri] = "active"]
  /\ found' = [found EXCEPT ![v] = NothingFound]
  /\ Go(v, "rows")
  /\ UNCHANGED <<status, deleted, tools, job, disk, svc, read, todo, claims,
                 verdict, events, history>>

\* somebody inserted it meanwhile: the constraint fails
InsertFails(v) ==
  /\ At(v, "writing") /\ Inserts(v) /\ RowAppeared(v)
  /\ BreakOff(v)
  /\ UNCHANGED <<tables, disk, events, outcome, calm>>

-----------------------------------------------------------------------------
(* The shadow policy: one service per uri, the one refreshed last.         *)

Serving(s) == ~deleted[s] /\ status[s] = "active"

Claims(s) ==
  {u \in Uris : /\ Serving(s) /\ rows[s][u] = "active"
                /\ \E o \in Services \ {s} : Serving(o) /\ rows[o][u] = "active"}

Decide(v, step) ==
  /\ claims' = [claims EXCEPT ![v] = Claims(svc[v])]
  /\ Go(v, step)
  /\ UNCHANGED <<tables, disk, svc, read, todo, found, verdict,
                 events, history>>

\* the rows of the others are deprecated, and each one's audit entry commits
Deprecate(v) ==
  rows' = [s \in Services |-> [u \in Uris |->
             IF s # svc[v] /\ u \in claims[v] /\ rows[s][u] = "active"
             THEN "deprecated" ELSE rows[s][u]]]

\* replace_service_resources ends with the policy ...
ClaimInReplace(v) == At(v, "rows") /\ todo[v] = {} /\ Decide(v, "claimed")

\* ... and a commit
EndReplace(v) ==
  /\ At(v, "claimed")
  /\ Deprecate(v)
  /\ claims' = [claims EXCEPT ![v] = {}]
  /\ verdict' = [verdict EXCEPT ![v] = "active"]
  /\ Go(v, "replaced")
  /\ UNCHANGED <<status, deleted, tools, job, svc, read, todo, found,
                 events, history>>
  /\ Commit

\* mistake: a failed validation puts back the status it read
JudgeRestores(v) ==
  /\ At(v, "failing")
  /\ verdict' = [verdict EXCEPT ![v] = IF tools[svc[v]] THEN read[v] ELSE "error"]
  /\ Go(v, "judged")
  /\ UNCHANGED <<tables, disk, svc, read, todo, found, claims, events,
                 history>>

\* a failed validation keeps an active service with tools active
Judge(v) ==
  /\ At(v, "failing")
  /\ verdict' = [verdict EXCEPT ![v] =
                   IF tools[svc[v]] /\ read[v] = "active" THEN "active" ELSE "error"]
  /\ Go(v, "judged")
  /\ UNCHANGED <<tables, disk, svc, read, todo, found, claims, events,
                 history>>

\* an endpoint that is not safe is an error whatever there was
Unsafe(v) ==
  /\ At(v, "marked")
  /\ SetJob(v, "running")
  /\ verdict' = [verdict EXCEPT ![v] = "error"]
  /\ sound' = [sound EXCEPT ![v] = FALSE]
  /\ Go(v, "judged")
  /\ UNCHANGED <<status, deleted, tools, rows, svc, read, todo, found, claims, events,
                 outcome, alone, cut, calm>>
  /\ Commit

\* mark_service_validated writes the status of a deleted service too
MarkValidated(v) ==
  /\ At(v, "replaced") \/ At(v, "judged")
  /\ status' = [status EXCEPT ![svc[v]] = verdict[v]]
  /\ cut' = cut \ {svc[v]}
  /\ Go(v, IF At(v, "replaced") THEN "active" ELSE "failed")
  /\ UNCHANGED <<deleted, tools, rows, job, svc, read, todo, found, claims,
                 verdict, events, outcome, alone, sound, calm>>
  /\ Commit

\* mistake: the policy is not applied again when the service is active
ActiveClaimsNothing(v) ==
  /\ At(v, "active")
  /\ Go(v, "claimedAgain")
  /\ UNCHANGED <<tables, disk, svc, read, todo, found, claims, verdict,
                 events, history>>

ClaimWhenActive(v) == At(v, "active") /\ Decide(v, "claimedAgain")

\* the audit entries commit
ShadowOthers(v) ==
  /\ At(v, "claimedAgain")
  /\ Deprecate(v)
  /\ claims' = [claims EXCEPT ![v] = {}]
  /\ Go(v, "told")
  /\ UNCHANGED <<status, deleted, tools, job, svc, read, todo, found, verdict,
                 events, history>>
  /\ Commit

\* the audit entry, and the job is told how it went
Finish(v, step, how) ==
  /\ At(v, step)
  /\ SetJob(v, how)
  /\ outcome' = IF v \in Reported THEN [outcome EXCEPT ![v] = how] ELSE outcome
  /\ Leave(v)
  /\ UNCHANGED <<status, deleted, tools, rows, events, cut, calm>>
  /\ Commit

-----------------------------------------------------------------------------
(* The others.                                                             *)

Event == events < MaxEvents /\ events' = events + 1

\* an admin sets the status: PATCH of the service (which takes any text; the
\* model has in use and not in use)
Patch(s, st) ==
  /\ Event
  /\ ~deleted[s] /\ status[s] # st
  /\ SetStatus(s, st)
  /\ calm' = (calm /\ st # "active")
  /\ UNCHANGED <<deleted, tools, rows, job, runVars, outcome, alone,
                 sound, cut>>
  /\ Commit

\* soft_delete_mcp_service; the audit entry commits
Delete(s) ==
  /\ Event
  /\ ~deleted[s]
  /\ status' = [status EXCEPT ![s] = "deleted"]
  /\ deleted' = [deleted EXCEPT ![s] = TRUE]
  /\ UNCHANGED <<tools, rows, job, runVars, history>>
  /\ Commit

\* the health probe asks a service that is in use; an answer brings one in
\* error back, a failure is only counted (the columns nothing decides on)
ProbeAnswered(s) ==
  /\ Event
  /\ ~deleted[s] /\ status[s] = "error"
  /\ SetStatus(s, "active")
  /\ calm' = FALSE
  /\ UNCHANGED <<deleted, tools, rows, job, runVars, outcome, alone, sound,
                 cut>>
  /\ Commit

\* mistake: the reaper does not look at the job's status
ReapAnyJob(v) ==
  /\ job[v] # "none" /\ job[v] # "failed"
  /\ job' = [job EXCEPT ![v] = "failed"]
  /\ UNCHANGED <<status, deleted, tools, rows, runVars, events, history>>
  /\ Commit

\* mark_stuck_jobs_failed; how long a job may take is left out
ReapJob(v) ==
  /\ job[v] \in {"queued", "running"}
  /\ job' = [job EXCEPT ![v] = "failed"]
  /\ UNCHANGED <<status, deleted, tools, rows, runVars, events, history>>
  /\ Commit

\* any other request commits what it and everybody else wrote
OtherCommit ==
  /\ disk # Db
  /\ disk' = Db
  /\ UNCHANGED <<tables, runVars, events, history>>

\* the process stops and starts again on what was committed
Stop ==
  /\ Event
  /\ status' = disk.status /\ deleted' = disk.deleted /\ tools' = disk.tools
  /\ rows' = disk.rows /\ job' = disk.job
  /\ pc' = [v \in Validations |-> IF pc[v] = "idle" THEN "idle" ELSE "done"]
  /\ svc' = [v \in Validations |-> NoService]
  /\ read' = [v \in Validations |-> "off"]
  /\ todo' = [v \in Validations |-> {}]
  /\ found' = [v \in Validations |-> NothingFound]
  /\ claims' = [v \in Validations |-> {}]
  /\ verdict' = [v \in Validations |-> "off"]
  /\ cut' = cut \cup {svc[v] : v \in Running}
  /\ calm' = FALSE
  /\ alone' = [v \in Validations |-> TRUE]
  /\ sound' = [v \in Validations |-> FALSE]
  /\ UNCHANGED <<disk, outcome>>

-----------------------------------------------------------------------------
Validate(v) ==
  \/ \E s \in Services : Begin(v, s)
  \/ ServiceGone(v) \/ Read(v) \/ Mark(v) \/ Ask(v) \/ AnswerBreaks(v)
  \/ WipeTools(v) \/ StoreTools(v) \/ WipeRows(v)
  \/ LookUpRow(v) \/ StoreRow(v) \/ InsertFails(v)
  \/ ClaimInReplace(v) \/ EndReplace(v)
  \/ Judge(v) \/ Unsafe(v) \/ MarkValidated(v)
  \/ ClaimWhenActive(v) \/ ShadowOthers(v)
  \/ Finish(v, "told", "success") \/ Finish(v, "failed", "failed")

Next ==
  \/ \E v \in Validations : Validate(v) \/ ReapJob(v)
  \/ \E s \in Services : \/ Patch(s, "active") \/ Patch(s, "off")
                         \/ Delete(s) \/ ProbeAnswered(s)
  \/ OtherCommit \/ Stop

Spec == Init /\ [][Next]_vars

-----------------------------------------------------------------------------
(* Properties.                                                             *)

\* A validation that fails with an error of the downstream, one that its
\* handler catches, leaves a service that was active with tools active, unless
\* another validation of the service ran with it: that one's status is what it
\* read (validate_service, main.py).  One that is cut short leaves the service
\* validating: NothingStaysValidating says when that can be.
FailureKeepsActive ==
  \A v \in Validations :
    At(v, "judged") /\ alone[v] /\ sound[v] => verdict[v] = "active"

\* Whatever validations of a service overlap, fail or find it deleted, none of
\* those that end in an answer or a handled error leaves it validating, which
\* no probe would end: it is validating while a validation of it is at work, or
\* because one was cut short, by a stop or an exception that nobody handles,
\* and none has ended since.
NothingStaysValidating ==
  \A s \in Services : status[s] = "validating" =>
    s \in cut \/ \E v \in Running : svc[v] = s

\* A job whose validation has ended, in success or in an error that it handled,
\* says how it ended, also when it was reaped as stuck before, and after a stop.
\* (That of a validation cut short stays running until it is reaped.)
JobTellsOutcome ==
  \A v \in Validations : outcome[v] # "none" => job[v] = outcome[v]

\* README.md:81: of the services that list a uri only the one validated last
\* keeps it active, the others' rows are deprecated.  So no two have it, and a
\* row is deprecated because another service has the uri, or had it later.
OneKeepsUri ==
  Running = {} =>
    \A u \in Uris :
      /\ Cardinality({s \in Services : Serving(s) /\ rows[s][u] = "active"}) <= 1
      /\ \A s \in Services : rows[s][u] = "deprecated" =>
            \E o \in Services : rows[o][u] \in {"active", "disabled"}

\* This holds as long as validations do not overlap, the process does not
\* stop, and no service becomes active otherwise than by its validation.
CalmKeepsUri == calm => OneKeepsUri
=============================================================================
