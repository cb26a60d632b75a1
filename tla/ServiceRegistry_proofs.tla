------------------------ MODULE ServiceRegistry_proofs ------------------------
(***************************************************************************)
(* Proofs about ServiceRegistry, for any sets of services, uris and        *)
(* validations.  Four invariants, one per property: AloneInv says what a   *)
(* validation that is the only one of its service can rely on, TellInv     *)
(* that a job's last word is on disk, StuckInv why a service can be        *)
(* validating, and CalmInv follows one validation through its statements   *)
(* and says at each who may hold a uri.                                    *)
(***************************************************************************)
EXTENDS ServiceRegistry, FiniteSetTheorems, TLAPS

Tables == [status : [Services -> Statuses], deleted : [Services -> BOOLEAN],
           tools : [Services -> BOOLEAN], rows : [Services -> [Uris -> RowStates]],
           job : [Validations -> JobStates]]

TablesOK ==
  /\ status \in [Services -> Statuses]
  /\ deleted \in [Services -> BOOLEAN]
  /\ tools \in [Services -> BOOLEAN]
  /\ rows \in [Services -> [Uris -> RowStates]]
  /\ job \in [Validations -> JobStates]

RunOK ==
  /\ pc \in [Validations -> Steps]
  /\ svc \in [Validations -> Services \cup {NoService}]
  /\ \A v \in Validations : svc[v] = NoService <=> pc[v] \in {"idle", "done"}
  /\ read \in [Validations -> Statuses]
  /\ todo \in [Validations -> SUBSET Uris]
  /\ found \in [Validations -> [uri : Uris \cup {NoService}, existed : BOOLEAN]]
  /\ claims \in [Validations -> SUBSET Uris]
  /\ verdict \in [Validations -> Statuses]

HistoryOK ==
  /\ events \in 0..MaxEvents
  /\ outcome \in [Validations -> JobStates]
  /\ alone \in [Validations -> BOOLEAN]
  /\ sound \in [Validations -> BOOLEAN]
  /\ cut \in SUBSET (Services \cup {NoService})
  /\ calm \in BOOLEAN

TypeInv == TablesOK /\ disk \in Tables /\ RunOK /\ HistoryOK

LEMMA TypesAreOK == TypeInv => TypeOK
BY DEF TypeInv, TypeOK, TablesOK, RunOK, HistoryOK

LEMMA DbOK == (TablesOK <=> Db \in Tables) /\ (TablesOK' <=> Db' \in Tables)
BY DEF TablesOK, Tables, Db

LEMMA InitTypes == Init => TypeInv
BY NoServiceIsNone, EventsAssumption
DEF Init, TypeInv, TablesOK, Tables, Db, RunOK, HistoryOK, Statuses, RowStates, JobStates,
    Steps, NothingFound

\* A validation at work has a service.
LEMMA HasService ==
  ASSUME TypeInv, NEW v \in Validations, pc[v] \notin {"idle", "done"}
  PROVE  svc[v] \in Services
BY DEF TypeInv, RunOK

LEMMA LeaveTypes ==
  ASSUME TypeInv, NEW v \in Validations, Leave(v)
  PROVE  /\ RunOK'
         /\ alone' \in [Validations -> BOOLEAN] /\ sound' \in [Validations -> BOOLEAN]
BY DEF Leave, Go, TypeInv, RunOK, HistoryOK, Steps, Statuses, NothingFound

\* A step that sets the tables to rows of the right kind may commit or not.
LEMMA ValidateTypes ==
  ASSUME TypeInv, NEW v \in Validations, Validate(v)
  PROVE  TypeInv'
<1>a. ASSUME TablesOK', Commit \/ UNCHANGED disk, RunOK', HistoryOK'
      PROVE  TypeInv'
  BY <1>a, DbOK DEF TypeInv, Commit
<1> USE DEF Go, At
<1>1. ASSUME NEW s \in Services, Begin(v, s)
      PROVE  TypeInv'
  <2>1. TablesOK'
    BY <1>1 DEF Begin, TypeInv, TablesOK, JobStates
  <2>2. RunOK'
    BY <1>1, NoServiceIsNone DEF Begin, TypeInv, RunOK, Steps
  <2>3. HistoryOK'
    BY <1>1 DEF Begin, TypeInv, HistoryOK
  <2>4. QED  BY <1>1, <2>1, <2>2, <2>3, <1>a DEF Begin
<1>2. CASE ServiceGone(v) \/ InsertFails(v) \/ AnswerBreaks(v)
  <2>1. TablesOK'
    BY <1>2 DEF ServiceGone, InsertFails, AnswerBreaks, SetJob, tables, TypeInv, TablesOK,
                JobStates
  <2>2. cut' = cut \/ cut' = cut \cup {svc[v]}
    BY <1>2 DEF ServiceGone, InsertFails, AnswerBreaks, BreakOff
  <2>3. HistoryOK'
    BY <1>2, <2>2, LeaveTypes DEF ServiceGone, InsertFails, AnswerBreaks, BreakOff, TypeInv,
                                  RunOK, HistoryOK
  <2>4. QED
    BY <1>2, <2>1, <2>3, LeaveTypes, <1>a DEF ServiceGone, InsertFails, AnswerBreaks,
                                            BreakOff, tables
<1>3. CASE Read(v) \/ Mark(v) \/ Ask(v)
  <2>1. svc[v] \in Services
    BY <1>3, HasService DEF Read, Mark, Ask
  <2>2. TablesOK'
    BY <1>3, <2>1 DEF Read, Mark, Ask, SetStatus, SetJob, tables, TypeInv, TablesOK,
                      Statuses, JobStates
  <2>3. RunOK'
    <3>1. CASE Read(v)
      BY <3>1, <2>1 DEF Read, TypeInv, RunOK, TablesOK, Steps
    <3>2. CASE Mark(v) \/ Ask(v)
      BY <3>2 DEF Mark, Ask, TypeInv, RunOK, Steps
    <3>3. QED  BY <1>3, <3>1, <3>2
  <2>4. HistoryOK'
    BY <1>3 DEF Read, Mark, Ask, TypeInv, HistoryOK, history
  <2>5. QED  BY <1>3, <2>2, <2>3, <2>4, <1>a DEF Read, Mark, Ask
<1>4. CASE WipeTools(v) \/ StoreTools(v) \/ WipeRows(v)
  <2>1. svc[v] \in Services
    BY <1>4, HasService DEF WipeTools, StoreTools, WipeRows
  <2>2. TablesOK'
    <3>1. CASE WipeTools(v) \/ StoreTools(v)
      BY <3>1, <2>1 DEF WipeTools, StoreTools, TypeInv, TablesOK
    <3>2. CASE WipeRows(v)
      BY <3>2, <2>1 DEF WipeRows, TypeInv, TablesOK, RowStates
    <3>3. QED  BY <1>4, <3>1, <3>2
  <2>3. RunOK'
    BY <1>4, ZenonT(40) DEF WipeTools, StoreTools, WipeRows, TypeInv, RunOK, Steps
  <2>4. HistoryOK'
    BY <1>4 DEF WipeTools, StoreTools, WipeRows, TypeInv, HistoryOK, history
  <2>5. QED  BY <1>4, <2>2, <2>3, <2>4, <1>a DEF WipeTools, StoreTools, WipeRows
<1>5. CASE LookUpRow(v) \/ StoreRow(v)
  <2>1. svc[v] \in Services
    BY <1>5, HasService DEF LookUpRow, StoreRow
  <2>2. TablesOK'
    <3>1. CASE LookUpRow(v)
      BY <3>1 DEF LookUpRow, tables, TypeInv, TablesOK
    <3>2. CASE StoreRow(v)
      BY <3>2, <2>1 DEF StoreRow, TypeInv, TablesOK, RowStates
    <3>3. QED  BY <1>5, <3>1, <3>2
  <2>3. RunOK'
    <3>1. CASE LookUpRow(v)
      BY <3>1 DEF LookUpRow, TypeInv, RunOK, Steps
    <3>2. CASE StoreRow(v)
      BY <3>2 DEF StoreRow, TypeInv, RunOK, Steps, NothingFound
    <3>3. QED  BY <1>5, <3>1, <3>2
  <2>4. HistoryOK'
    BY <1>5 DEF LookUpRow, StoreRow, TypeInv, HistoryOK, history
  <2>5. QED  BY <1>5, <2>2, <2>3, <2>4, <1>a DEF LookUpRow, StoreRow
<1>6. CASE ClaimInReplace(v) \/ ClaimWhenActive(v)
  <2>1. RunOK'
    <3>1. Claims(svc[v]) \in SUBSET Uris
      BY DEF Claims
    <3>2. QED
      BY <1>6, <3>1, SMTT(20) DEF ClaimInReplace, ClaimWhenActive, Decide, TypeInv, RunOK, Steps
  <2>2. QED
    BY <1>6, <2>1, <1>a DEF ClaimInReplace, ClaimWhenActive, Decide, tables, TypeInv,
                            TablesOK, HistoryOK, history
<1>7. CASE EndReplace(v) \/ ShadowOthers(v)
  <2>1. TablesOK'
    BY <1>7 DEF EndReplace, ShadowOthers, Deprecate, TypeInv, TablesOK, RowStates
  <2>2. RunOK'
    BY <1>7 DEF EndReplace, ShadowOthers, TypeInv, RunOK, Steps, Statuses
  <2>3. HistoryOK'
    BY <1>7 DEF EndReplace, ShadowOthers, TypeInv, HistoryOK, history
  <2>4. QED  BY <1>7, <2>1, <2>2, <2>3, <1>a DEF EndReplace, ShadowOthers
<1>8. CASE Judge(v) \/ Unsafe(v) \/ MarkValidated(v)
  <2>1. TablesOK'
    <3>1. CASE Judge(v) \/ Unsafe(v)
      BY <3>1 DEF Judge, Unsafe, SetJob, tables, TypeInv, TablesOK, JobStates
    <3>2. CASE MarkValidated(v)
      BY <3>2 DEF MarkValidated, TypeInv, TablesOK, RunOK
    <3>3. QED  BY <1>8, <3>1, <3>2
  <2>2. RunOK'
    BY <1>8, ZenonT(40) DEF Judge, Unsafe, MarkValidated, TypeInv, RunOK, Steps, Statuses
  <2>3. HistoryOK'
    BY <1>8 DEF Judge, Unsafe, MarkValidated, TypeInv, HistoryOK, history
  <2>4. QED  BY <1>8, <2>1, <2>2, <2>3, <1>a DEF Judge, Unsafe, MarkValidated
<1>9. ASSUME NEW step, NEW how \in {"success", "failed"}, Finish(v, step, how)
      PROVE  TypeInv'
  <2>1. TablesOK'
    BY <1>9 DEF Finish, SetJob, TypeInv, TablesOK, JobStates
  <2>2. HistoryOK'
    BY <1>9, LeaveTypes DEF Finish, TypeInv, HistoryOK, JobStates
  <2>3. QED  BY <1>9, <2>1, <2>2, LeaveTypes, <1>a DEF Finish
<1>10. QED
  BY <1>1, <1>2, <1>3, <1>4, <1>5, <1>6, <1>7, <1>8, <1>9 DEF Validate

Others ==
  \/ \E s \in Services : \/ Patch(s, "active") \/ Patch(s, "off")
                         \/ Delete(s) \/ ProbeAnswered(s)
  \/ \E v \in Validations : ReapJob(v)
  \/ OtherCommit

LEMMA OthersTypes ==
  ASSUME TypeInv, Others
  PROVE  TypeInv'
<1>1. RunOK'
  BY DEF Others, Patch, Delete, ProbeAnswered, ReapJob, OtherCommit, runVars, TypeInv,
         RunOK
<1>2. HistoryOK'
  <2>1. events' \in 0..MaxEvents
    BY EventsAssumption DEF Others, Patch, Delete, ProbeAnswered, ReapJob, OtherCommit,
                            Event, TypeInv, HistoryOK
  <2>2. CASE \E s \in Services : Patch(s, "active") \/ Patch(s, "off") \/ ProbeAnswered(s)
    BY <2>1, <2>2 DEF Patch, ProbeAnswered, TypeInv, HistoryOK
  <2>3. CASE \/ \E s \in Services : Delete(s)
             \/ \E v \in Validations : ReapJob(v)
             \/ OtherCommit
    BY <2>1, <2>3 DEF Delete, ReapJob, OtherCommit, history, TypeInv, HistoryOK
  <2>4. QED  BY <2>2, <2>3 DEF Others
<1>3. TablesOK'
  <2>1. CASE \E s \in Services : Patch(s, "active") \/ Patch(s, "off") \/ ProbeAnswered(s)
    BY <2>1 DEF Patch, ProbeAnswered, SetStatus, TypeInv, TablesOK, Statuses
  <2>2. CASE \/ \E s \in Services : Delete(s)
             \/ \E v \in Validations : ReapJob(v)
             \/ OtherCommit
    BY <2>2 DEF Delete, ReapJob, OtherCommit, tables, TypeInv, TablesOK, Statuses,
                JobStates
  <2>3. QED  BY <2>1, <2>2 DEF Others
<1>4. disk' \in Tables
  BY <1>3, DbOK DEF Others, Patch, Delete, ProbeAnswered, ReapJob, OtherCommit, Commit,
              TypeInv
<1>5. QED  BY <1>1, <1>2, <1>3, <1>4 DEF TypeInv

LEMMA StopTypes ==
  ASSUME TypeInv, Stop
  PROVE  TypeInv'
<1>1. RunOK'
  BY DEF Stop, TypeInv, RunOK, Steps, Statuses, NothingFound
<1>2. HistoryOK'
  <2>1. events' \in 0..MaxEvents
    BY EventsAssumption DEF Stop, Event, TypeInv, HistoryOK
  <2>2. cut' \in SUBSET (Services \cup {NoService})
    BY DEF Stop, TypeInv, HistoryOK, RunOK, Running
  <2>3. QED  BY <2>1, <2>2 DEF Stop, TypeInv, HistoryOK
<1>3. TablesOK' /\ disk' \in Tables
  BY DEF Stop, TypeInv, TablesOK, Tables
<1>4. QED  BY <1>1, <1>2, <1>3 DEF TypeInv

\* The steps, sorted.
LEMMA StepCases ==
  ASSUME [Next]_vars
  PROVE  \/ \E v \in Validations : Validate(v)
         \/ Others \/ Stop \/ UNCHANGED vars
BY DEF Next, Others

LEMMA TypesStep == TypeInv /\ [Next]_vars => TypeInv'
<1>1. ASSUME TypeInv, UNCHANGED vars
      PROVE  TypeInv'
  BY <1>1 DEF vars, tables, runVars, history, TypeInv, TablesOK, RunOK, HistoryOK
<1>2. QED  BY <1>1, StepCases, ValidateTypes, OthersTypes, StopTypes

LEMMA TypesHold == Spec => []TypeInv
BY InitTypes, TypesStep, PTL DEF Spec

\* The variables keep their types.
THEOREM TypeCorrect == Spec => []TypeOK
BY TypesAreOK, TypesHold, PTL

-----------------------------------------------------------------------------
(* Jobs.  Only the validation itself speaks after its job was created, and *)
(* its last word is committed with its end.                                *)

TellInv ==
  \A v \in Validations : outcome[v] # "none" =>
    /\ outcome[v] \in {"success", "failed"}
    /\ pc[v] = "done"
    /\ job[v] = outcome[v] /\ disk.job[v] = outcome[v]

LEMMA InitTell == Init => TellInv
BY DEF Init, TellInv

LEMMA ValidateTells ==
  ASSUME TypeInv, TellInv, NEW v \in Validations, Validate(v)
  PROVE  TellInv'
<1> USE DEF TypeInv, TablesOK, RunOK, HistoryOK
<1>1. pc[v] # "done" /\ outcome[v] = "none"
  BY DEF Validate, Begin, ServiceGone, Read, Mark, Ask, WipeTools, StoreTools, WipeRows,
         LookUpRow, StoreRow, InsertFails, AnswerBreaks, BreakOff, ClaimInReplace, EndReplace, Judge, Unsafe,
         MarkValidated, ClaimWhenActive, ShadowOthers, Finish, At, TellInv
<1>2. \A w \in Validations \ {v} : pc'[w] = pc[w] /\ job'[w] = job[w] /\ outcome'[w] = outcome[w]
  BY DEF Validate, Begin, ServiceGone, Read, Mark, Ask, WipeTools, StoreTools, WipeRows,
         LookUpRow, StoreRow, InsertFails, AnswerBreaks, BreakOff, ClaimInReplace, EndReplace, Judge, Unsafe,
         MarkValidated, ClaimWhenActive, ShadowOthers, Finish, Leave, Go, Decide, SetJob,
         tables, history
<1>3. disk' = disk \/ disk'.job = job'
  BY DEF Validate, Begin, ServiceGone, Read, Mark, Ask, WipeTools, StoreTools, WipeRows,
         LookUpRow, StoreRow, InsertFails, AnswerBreaks, BreakOff, ClaimInReplace, EndReplace, Judge, Unsafe,
         MarkValidated, ClaimWhenActive, ShadowOthers, Finish, Decide, Commit, Db
<1>4. CASE Finish(v, "told", "success") \/ Finish(v, "failed", "failed")
  <2>1. disk'.job = job'
    BY <1>4 DEF Finish, Commit, Db
  <2>2. pc'[v] = "done"
    BY <1>4 DEF Finish, Leave, Go
  <2>3. CASE v \in Reported
    BY <1>1, <1>2, <1>4, <2>1, <2>2, <2>3 DEF Finish, SetJob, TellInv
  <2>4. CASE v \notin Reported
    BY <1>1, <1>2, <1>4, <2>1, <2>2, <2>4 DEF Finish, SetJob, TellInv
  <2>5. QED  BY <2>3, <2>4
<1>5. CASE ~(Finish(v, "told", "success") \/ Finish(v, "failed", "failed"))
  <2>1. outcome' = outcome
    BY <1>5 DEF Validate, Begin, ServiceGone, Read, Mark, Ask, WipeTools, StoreTools,
         WipeRows, LookUpRow, StoreRow, InsertFails, AnswerBreaks, BreakOff, ClaimInReplace, EndReplace, Judge,
         Unsafe, MarkValidated, ClaimWhenActive, ShadowOthers, Decide, history
  <2>2. QED  BY <1>1, <1>2, <1>3, <2>1 DEF TellInv
<1>6. QED  BY <1>4, <1>5

LEMMA TellStep == TypeInv /\ TellInv /\ [Next]_vars => TellInv'
<1> SUFFICES ASSUME TypeInv, TellInv, [Next]_vars PROVE TellInv'
  OBVIOUS
<1>1. CASE Others
  <2>1. UNCHANGED <<pc, outcome>>
    BY <1>1 DEF Others, Patch, Delete, ProbeAnswered, ReapJob, OtherCommit, runVars,
                history
  <2>2. disk'.job = job'
    <3>1. CASE OtherCommit
      BY <3>1 DEF OtherCommit, Db, tables
    <3>2. CASE ~OtherCommit
      <4>1. Commit
        BY <1>1, <3>2 DEF Others, Patch, Delete, ProbeAnswered, ReapJob
      <4>2. QED  BY <4>1 DEF Commit, Db
    <3>3. QED  BY <3>1, <3>2
  <2>3. \A v \in Validations : job[v] \in {"success", "failed"} => job'[v] = job[v]
    BY <1>1 DEF Others, Patch, Delete, ProbeAnswered, ReapJob, OtherCommit, tables,
                TypeInv, TablesOK
  <2>4. QED  BY <2>1, <2>2, <2>3 DEF TellInv
<1>2. CASE Stop
  BY <1>2 DEF Stop, TellInv
<1>3. CASE UNCHANGED vars
  BY <1>3 DEF vars, tables, runVars, history, TellInv
<1>4. QED  BY <1>1, <1>2, <1>3, StepCases, ValidateTells

\* A job whose validation has ended says how it ended, for ever.
THEOREM JobsTellOutcomes == Spec => []JobTellsOutcome
<1>1. TellInv => JobTellsOutcome
  BY DEF TellInv, JobTellsOutcome
<1>2. QED  BY <1>1, InitTell, TellStep, TypesHold, PTL DEF Spec

-----------------------------------------------------------------------------
(* Failed validations.                                                     *)

\* No other validation of its service is at work beside one that is alone, so
\* what it read and the service's tools stay until it replaces them.
AloneInv ==
  /\ \A v, w \in Running : alone[v] /\ svc[v] = svc[w] => v = w
  /\ \A v \in Validations : alone[v] /\ sound[v] =>
       /\ pc[v] \in {"read", "marked", "failing"} =>
            tools[svc[v]] /\ read[v] = "active"
       /\ pc[v] = "judged" => verdict[v] = "active"

LEMMA InitAlone == Init => AloneInv
BY DEF Init, AloneInv, Running

\* A step of a validation at work concerns what is known of it alone, and the
\* tools of its service.
LEMMA AloneWork ==
  ASSUME TypeInv, AloneInv, NEW v \in Validations,
         pc[v] \notin {"idle", "done"}, svc' = svc, alone' = alone,
         \A w \in Validations \ {v} :
           /\ pc'[w] = pc[w] /\ sound'[w] = sound[w]
           /\ read'[w] = read[w] /\ verdict'[w] = verdict[w],
         \A s \in Services \ {svc[v]} : tools'[s] = tools[s],
         alone[v] /\ sound'[v] =>
           /\ pc'[v] \in {"read", "marked", "failing"} =>
                tools'[svc[v]] /\ read'[v] = "active"
           /\ pc'[v] = "judged" => verdict'[v] = "active"
  PROVE  AloneInv'
<1> USE DEF Running, TypeInv, RunOK, AloneInv
<1>1. \A u, w \in Running' : alone'[u] /\ svc'[u] = svc'[w] => u = w
  BY v \in Running
<1>2. ASSUME NEW w \in Validations \ {v}, alone'[w], sound'[w]
      PROVE  /\ pc'[w] \in {"read", "marked", "failing"} =>
                  tools'[svc'[w]] /\ read'[w] = "active"
             /\ pc'[w] = "judged" => verdict'[w] = "active"
  <2>1. CASE pc[w] \in {"read", "marked", "failing"}
    <3>1. w \in Running /\ v \in Running
      BY <2>1
    <3>2. svc[w] \in Services \ {svc[v]}
      BY <1>2, <2>1, <3>1
    <3>3. QED  BY <1>2, <2>1, <3>2
  <2>2. CASE pc[w] \notin {"read", "marked", "failing"}
    BY <1>2, <2>2
  <2>3. QED  BY <2>1, <2>2
<1>3. QED  BY <1>1, <1>2

LEMMA ValidateAlone ==
  ASSUME TypeInv, AloneInv, NEW v \in Validations, Validate(v)
  PROVE  AloneInv'
<1> USE DEF TypeInv, TablesOK, RunOK, HistoryOK, Go, At
<1>1. ASSUME NEW s \in Services, Begin(v, s)
      PROVE  AloneInv'
  BY <1>1, NoServiceIsNone DEF Begin, AloneInv, Running
<1>a. ASSUME Leave(v), tools' = tools
      PROVE  AloneInv'
  BY <1>a DEF Leave, AloneInv, Running
<1>2. CASE ServiceGone(v) \/ InsertFails(v) \/ AnswerBreaks(v)
  BY <1>a, <1>2 DEF ServiceGone, InsertFails, AnswerBreaks, BreakOff, tables
<1>3. ASSUME NEW step, NEW how, Finish(v, step, how)
      PROVE  AloneInv'
  BY <1>a, <1>3 DEF Finish
<1>4. CASE Read(v)
  BY <1>4, AloneWork DEF Read, tables
<1>5. CASE Mark(v) \/ Ask(v)
  <2>1. pc[v] \in {"read", "marked"} /\ UNCHANGED <<svc, alone, sound, read, verdict, tools>>
    BY <1>5 DEF Mark, Ask, history
  <2>2. alone[v] /\ sound[v] => tools[svc[v]] /\ read[v] = "active"
    BY <2>1 DEF AloneInv
  <2>3. pc' = [pc EXCEPT ![v] = pc'[v]] /\ pc'[v] # "judged"
    BY <1>5 DEF Mark, Ask
  <2>4. QED  BY <2>1, <2>2, <2>3, AloneWork
<1>6. CASE WipeTools(v) \/ StoreTools(v)
  <2>1. /\ pc[v] \in {"answered", "wipedTools"}
        /\ UNCHANGED <<svc, alone, sound, read, verdict>>
    BY <1>6 DEF WipeTools, StoreTools, history
  <2>2. /\ pc' = [pc EXCEPT ![v] = pc'[v]]
        /\ pc'[v] \notin {"read", "marked", "failing", "judged"}
    BY <1>6 DEF WipeTools, StoreTools
  <2>3. \A s \in Services \ {svc[v]} : tools'[s] = tools[s]
    BY <1>6 DEF WipeTools, StoreTools
  <2>4. QED  BY <2>1, <2>2, <2>3, AloneWork
<1>7. CASE WipeRows(v) \/ LookUpRow(v) \/ StoreRow(v)
  BY <1>7, AloneWork DEF WipeRows, LookUpRow, StoreRow, tables, history
<1>8. CASE ClaimInReplace(v) \/ ClaimWhenActive(v)
  BY <1>8, AloneWork DEF ClaimInReplace, ClaimWhenActive, Decide, tables, history
<1>9. CASE EndReplace(v) \/ ShadowOthers(v)
  BY <1>9, AloneWork DEF EndReplace, ShadowOthers, history
<1>10. CASE Judge(v)
  BY <1>10, AloneWork, ZenonT(40) DEF Judge, tables, history, AloneInv
<1>11. CASE Unsafe(v)
  BY <1>11, AloneWork DEF Unsafe, tables
<1>12. CASE MarkValidated(v)
  BY <1>12, AloneWork DEF MarkValidated
<1>13. QED
  BY <1>1, <1>2, <1>3, <1>4, <1>5, <1>6, <1>7, <1>8, <1>9, <1>10, <1>11, <1>12
  DEF Validate

LEMMA AloneStep == TypeInv /\ AloneInv /\ [Next]_vars => AloneInv'
<1> SUFFICES ASSUME TypeInv, AloneInv, [Next]_vars PROVE AloneInv'
  OBVIOUS
<1>1. CASE Others
  BY <1>1 DEF Others, Patch, Delete, ProbeAnswered, ReapJob, OtherCommit, tables,
              runVars, history, AloneInv, Running
<1>2. CASE Stop
  BY <1>2 DEF Stop, AloneInv, Running
<1>3. CASE UNCHANGED vars
  BY <1>3 DEF vars, tables, runVars, history, AloneInv, Running
<1>4. QED  BY <1>1, <1>2, <1>3, StepCases, ValidateAlone

\* A failed validation keeps the service it found active and equipped, unless
\* another validation of the service ran with it.
THEOREM FailuresKeepActive == Spec => []FailureKeepsActive
<1>1. AloneInv => FailureKeepsActive
  BY DEF AloneInv, FailureKeepsActive, At
<1>2. QED  BY <1>1, InitAlone, AloneStep, TypesHold, PTL DEF Spec

-----------------------------------------------------------------------------
(* Services left validating.  A validation has marked its service until it *)
(* writes a verdict, which never says validating, or is cut short; and     *)
(* what is on disk of a status is what the table says.                     *)

MarkedSteps == {"marked", "answered", "wipedTools", "toolsIn", "rows", "writing",
                "claimed", "replaced", "failing", "judged"}

HasReason(s) ==
  s \in cut \/ \E v \in Validations : svc[v] = s /\ pc[v] \in MarkedSteps

StuckInv ==
  /\ disk.status = status
  /\ \A v \in Validations : verdict[v] # "validating"
  /\ \A s \in Services : status[s] = "validating" => HasReason(s)

LEMMA InitStuck == Init => StuckInv
BY DEF Init, Db, StuckInv

LEMMA ValidateStuck ==
  ASSUME TypeInv, StuckInv, NEW v \in Validations, Validate(v)
  PROVE  StuckInv'
<1> USE DEF TypeInv, TablesOK, RunOK, HistoryOK, Go, At
<1>1. disk'.status = status'
  BY DEF Validate, Begin, ServiceGone, Read, Mark, Ask, WipeTools, StoreTools, WipeRows,
         LookUpRow, StoreRow, InsertFails, AnswerBreaks, BreakOff, ClaimInReplace,
         EndReplace, Judge, Unsafe, MarkValidated, ClaimWhenActive, ShadowOthers, Finish,
         Decide, Commit, Db, tables, StuckInv
<1>2. \A w \in Validations \ {v} :
        pc'[w] = pc[w] /\ svc'[w] = svc[w] /\ verdict'[w] = verdict[w]
  BY DEF Validate, Begin, ServiceGone, Read, Mark, Ask, WipeTools, StoreTools, WipeRows,
         LookUpRow, StoreRow, InsertFails, AnswerBreaks, BreakOff, ClaimInReplace,
         EndReplace, Judge, Unsafe, MarkValidated, ClaimWhenActive, ShadowOthers, Finish,
         Leave, Decide
<1>3. verdict'[v] # "validating"
  BY DEF Validate, Begin, ServiceGone, Read, Mark, Ask, WipeTools, StoreTools, WipeRows,
         LookUpRow, StoreRow, InsertFails, AnswerBreaks, BreakOff, ClaimInReplace,
         EndReplace, Judge, Unsafe, MarkValidated, ClaimWhenActive, ShadowOthers, Finish,
         Leave, Decide, StuckInv
<1>4. ASSUME NEW s \in Services, status'[s] = "validating"
      PROVE  HasReason(s)'
  <2>1. CASE MarkValidated(v)
    <3>1. s # svc[v] /\ status[s] = "validating"
      BY <1>4, <2>1 DEF MarkValidated, StuckInv
    <3>2. cut' = cut \ {svc[v]}
      BY <2>1 DEF MarkValidated
    <3>3. HasReason(s)
      BY <3>1 DEF StuckInv
    <3>4. QED  BY <1>2, <3>1, <3>2, <3>3 DEF HasReason
  <2>2. CASE Mark(v)
    <3>1. /\ pc[v] = "read" /\ pc'[v] = "marked" /\ svc' = svc /\ cut' = cut
          /\ status[s] = "validating" \/ s = svc[v]
      BY <1>4, <2>2 DEF Mark, SetStatus, history
    <3>2. CASE s = svc[v]
      BY <3>1, <3>2 DEF HasReason, MarkedSteps
    <3>3. CASE s # svc[v]
      BY <1>2, <3>1, <3>3 DEF StuckInv, HasReason
    <3>4. QED  BY <3>2, <3>3
  <2>3. CASE InsertFails(v) \/ AnswerBreaks(v)
    <3>1. status' = status /\ cut' = cut \cup {svc[v]}
      BY <2>3 DEF InsertFails, AnswerBreaks, BreakOff, tables
    <3>2. HasReason(s)
      BY <1>4, <3>1 DEF StuckInv
    <3>3. QED  BY <1>2, <3>1, <3>2 DEF HasReason
  <2>4. CASE ~(MarkValidated(v) \/ Mark(v) \/ InsertFails(v) \/ AnswerBreaks(v))
    <3>1. status' = status /\ cut' = cut
      BY <2>4 DEF Validate, Begin, ServiceGone, Read, Ask, WipeTools, StoreTools,
         WipeRows, LookUpRow, StoreRow, ClaimInReplace, EndReplace, Judge, Unsafe,
         ClaimWhenActive, ShadowOthers, Finish, Decide, tables, history
    <3>2. pc[v] \in MarkedSteps => svc'[v] = svc[v] /\ pc'[v] \in MarkedSteps
      BY <2>4 DEF Validate, Begin, ServiceGone, Read, Ask, WipeTools, StoreTools,
         WipeRows, LookUpRow, StoreRow, ClaimInReplace, EndReplace, Judge, Unsafe,
         ClaimWhenActive, ShadowOthers, Finish, Decide, MarkedSteps
    <3>3. HasReason(s)
      BY <1>4, <3>1 DEF StuckInv
    <3>4. QED  BY <1>2, <3>1, <3>2, <3>3 DEF HasReason
  <2>5. QED  BY <2>1, <2>2, <2>3, <2>4
<1>5. QED  BY <1>1, <1>2, <1>3, <1>4 DEF StuckInv

LEMMA StuckStep == TypeInv /\ StuckInv /\ [Next]_vars => StuckInv'
<1> SUFFICES ASSUME TypeInv, StuckInv, [Next]_vars PROVE StuckInv'
  OBVIOUS
<1>1. CASE Others
  <2>1. UNCHANGED <<pc, svc, verdict, cut>>
    BY <1>1 DEF Others, Patch, Delete, ProbeAnswered, ReapJob, OtherCommit, runVars,
                history
  <2>2. \A s \in Services : status'[s] = "validating" => status[s] = "validating"
    BY <1>1 DEF Others, Patch, Delete, ProbeAnswered, ReapJob, OtherCommit, SetStatus,
                tables, TypeInv, TablesOK
  <2>3. disk'.status = status'
    BY <1>1 DEF Others, Patch, Delete, ProbeAnswered, ReapJob, OtherCommit, Commit, Db,
                tables
  <2>4. QED  BY <2>1, <2>2, <2>3 DEF StuckInv, HasReason
<1>2. CASE Stop
  <2>1. status' = status /\ disk' = disk /\ \A v \in Validations : verdict'[v] = "off"
    BY <1>2 DEF Stop, StuckInv
  <2>2. cut' = cut \cup {svc[v] : v \in Running}
    BY <1>2 DEF Stop
  <2>3. \A v \in Validations : pc[v] \in MarkedSteps => v \in Running
    BY DEF MarkedSteps, Running
  <2>4. QED  BY <2>1, <2>2, <2>3 DEF StuckInv, HasReason
<1>3. CASE UNCHANGED vars
  BY <1>3 DEF vars, tables, runVars, history, StuckInv, HasReason
<1>4. QED  BY <1>1, <1>2, <1>3, StepCases, ValidateStuck

\* A service is validating only during a validation or after one cut short.
THEOREM NothingIsLeftValidating == Spec => []NothingStaysValidating
<1>1. StuckInv => NothingStaysValidating
  BY DEF StuckInv, HasReason, MarkedSteps, NothingStaysValidating, Running
<1>2. QED  BY <1>1, InitStuck, StuckStep, TypesHold, PTL DEF Spec

-----------------------------------------------------------------------------
(* The shadow policy, one validation at a time.  At work, a validation has *)
(* taken its service out of the competition (Mark) and brings it back      *)
(* either with the rows it had, which no other service can have got hold   *)
(* of, or with new rows that the policy then takes from the others.        *)

Holds(s, u) == Serving(s) /\ rows[s][u] = "active"

OneHolder(S) ==
  \A u \in Uris : \A o, p \in S : Holds(o, u) /\ Holds(p, u) => o = p

NoOther(s) ==
  \A u \in Uris : \A o \in Services \ {s} : rows[s][u] = "active" => ~Holds(o, u)

\* a deprecated row has its successor
Succeeded ==
  \A s \in Services, u \in Uris : rows[s][u] = "deprecated" =>
    \E o \in Services : rows[o][u] \in {"active", "disabled"}

InPlace == {"created", "read", "told", "failed"}

CalmWork(v) ==
  /\ OneHolder(Services \ {svc[v]})
  /\ pc[v] \in InPlace => OneHolder(Services)
  /\ pc[v] \notin InPlace \cup {"active", "claimedAgain"} => ~Serving(svc[v])
  /\ pc[v] \in {"read", "marked", "failing"} /\ read[v] = "active" => NoOther(svc[v])
  /\ pc[v] = "judged" /\ verdict[v] = "active" => NoOther(svc[v])
  /\ pc[v] = "claimed" => claims[v] = {}
  /\ pc[v] = "claimedAgain" =>
       /\ \A u \in claims[v] : rows[svc[v]][u] = "active"
       /\ \A u \in Uris \ claims[v] : \A o \in Services \ {svc[v]} :
            ~(Holds(svc[v], u) /\ Holds(o, u))

CalmInv ==
  calm =>
    /\ Succeeded
    /\ Running = {} => OneHolder(Services)
    /\ \A v \in Running : CalmWork(v)
    /\ \A v, w \in Running : v = w

LEMMA InitCalm == Init => CalmInv
<1> SUFFICES ASSUME Init PROVE CalmInv
  OBVIOUS
<1>1. Succeeded /\ Running = {}
  BY DEF Init, Succeeded, Running
<1>2. OneHolder(Services)
  BY OldAssumption DEF Init, OneHolder, Holds, Serving
<1>3. QED  BY <1>1, <1>2 DEF CalmInv

\* The one validation at work takes a step and is still at work.
LEMMA WorkGoesOn ==
  ASSUME CalmInv, NEW v \in Validations, pc[v] \notin {"idle", "done"},
         pc'[v] \notin {"idle", "done"},
         \A w \in Validations \ {v} : pc'[w] = pc[w],
         calm' = calm, calm => Succeeded' /\ CalmWork(v)'
  PROVE  CalmInv'
<1> SUFFICES ASSUME calm PROVE CalmInv'
  BY DEF CalmInv
<1>1. Running = {v}
  BY DEF CalmInv, Running
<1>2. Running' = {v}
  BY <1>1 DEF Running
<1>3. QED  BY <1>2 DEF CalmInv

\* It ends.
LEMMA WorkEnds ==
  ASSUME TypeInv, CalmInv, NEW v \in Validations, pc[v] \notin {"idle", "done"},
         Leave(v), calm' = calm, UNCHANGED <<status, deleted, rows>>,
         pc[v] \in InPlace \/ (calm => ~Serving(svc[v]))
  PROVE  CalmInv'
<1> SUFFICES ASSUME calm PROVE CalmInv'
  BY DEF CalmInv
<1>1. Running' = {} /\ CalmWork(v) /\ Succeeded
  BY DEF Leave, Go, CalmInv, Running, TypeInv, RunOK
<1>2. OneHolder(Services)
  BY <1>1 DEF CalmWork, OneHolder, Holds
<1>3. OneHolder(Services)' /\ Succeeded'
  BY <1>1, <1>2 DEF OneHolder, Holds, Serving, Succeeded
<1>4. QED  BY <1>1, <1>3 DEF CalmInv

LEMMA WorkersFacts ==
  ASSUME CalmInv, calm, NEW v \in Validations, pc[v] \notin {"idle", "done"}
  PROVE  CalmWork(v) /\ Succeeded
BY DEF CalmInv, Running

LEMMA ValidateCalm ==
  ASSUME TypeInv, CalmInv, NEW v \in Validations, Validate(v)
  PROVE  CalmInv'
<1> USE DEF TypeInv, TablesOK, RunOK, HistoryOK, Go, At, Steps, InPlace
<1>1. ASSUME NEW s \in Services, Begin(v, s)
      PROVE  CalmInv'
  <2> SUFFICES ASSUME calm, Running = {} PROVE CalmInv'
    BY <1>1 DEF Begin, CalmInv
  <2>1. Running' = {v} /\ pc'[v] = "created" /\ UNCHANGED <<status, deleted, rows>>
    BY <1>1 DEF Begin, Running
  <2>2. OneHolder(Services) /\ Succeeded
    BY DEF CalmInv
  <2>3. OneHolder(Services)' /\ Succeeded'
    BY <2>1, <2>2 DEF OneHolder, Holds, Serving, Succeeded
  <2>4. CalmWork(v)'
    BY <2>1, <2>3 DEF CalmWork, OneHolder
  <2>5. QED  BY <2>1, <2>3, <2>4 DEF CalmInv
<1>2. CASE ServiceGone(v)
  BY <1>2, WorkEnds DEF ServiceGone, tables
<1>3. CASE InsertFails(v) \/ AnswerBreaks(v)
  BY <1>3, WorkEnds, WorkersFacts DEF InsertFails, AnswerBreaks, BreakOff, tables, CalmWork
<1>4. ASSUME NEW step \in {"told", "failed"}, NEW how, Finish(v, step, how)
      PROVE  CalmInv'
  BY <1>4, WorkEnds DEF Finish
<1>5. CASE Read(v)
  <2>1. calm => CalmWork(v) /\ Succeeded
    BY <1>5, WorkersFacts DEF Read
  <2>2. calm /\ read'[v] = "active" => NoOther(svc[v])
    <3>1. svc[v] \in Services
      BY <1>5 DEF Read
    <3>2. read'[v] = "active" => Serving(svc[v])
      BY <1>5, <3>1 DEF Read, Serving
    <3>3. calm => OneHolder(Services)
      BY <1>5, <2>1 DEF Read, CalmWork
    <3>4. QED  BY <3>1, <3>2, <3>3 DEF OneHolder, NoOther, Holds
  <2>3. /\ OneHolder(Services)' = OneHolder(Services)
        /\ OneHolder(Services \ {svc[v]})' = OneHolder(Services \ {svc[v]})
        /\ NoOther(svc[v])' = NoOther(svc[v]) /\ Succeeded' = Succeeded
    BY <1>5 DEF Read, tables, OneHolder, NoOther, Holds, Serving, Succeeded
  <2>4. calm => CalmWork(v)' /\ Succeeded'
    BY <1>5, <2>1, <2>2, <2>3 DEF Read, CalmWork
  <2>5. QED  BY <1>5, <2>4, WorkGoesOn DEF Read
<1>6. CASE Mark(v)
  <2>1. calm => CalmWork(v) /\ Succeeded
    BY <1>6, WorkersFacts DEF Mark
  <2>2. ~Serving(svc[v])' /\ \A o \in Services : Serving(o)' => Serving(o)
    BY <1>6 DEF Mark, SetStatus, Serving
  <2>3. calm => CalmWork(v)' /\ Succeeded'
    BY <1>6, <2>1, <2>2 DEF Mark, CalmWork, OneHolder, NoOther, Holds, Succeeded
  <2>4. QED  BY <1>6, <2>3, WorkGoesOn DEF Mark, history
<1>7. CASE Ask(v) \/ WipeTools(v) \/ StoreTools(v) \/ LookUpRow(v) \/ Judge(v) \/ Unsafe(v)
  <2>1. /\ pc[v] \in {"marked", "answered", "wipedTools", "rows", "failing"}
        /\ UNCHANGED <<status, deleted, rows, svc, read, calm>>
        /\ \A w \in Validations \ {v} : pc'[w] = pc[w]
        /\ pc'[v] \in {"answered", "failing", "wipedTools", "toolsIn", "writing", "judged"}
    BY <1>7 DEF Ask, WipeTools, StoreTools, LookUpRow, Judge, Unsafe, tables, history
  <2>2. calm => CalmWork(v) /\ Succeeded
    BY <2>1, WorkersFacts
  <2>3. pc'[v] = "failing" => pc[v] = "marked"
    BY <1>7 DEF Ask, WipeTools, StoreTools, LookUpRow, Judge, Unsafe
  <2>4. pc'[v] = "judged" /\ verdict'[v] = "active" => pc[v] = "failing" /\ read[v] = "active"
    BY <1>7 DEF Ask, WipeTools, StoreTools, LookUpRow, Judge, Unsafe
  <2>5. calm => CalmWork(v)' /\ Succeeded'
    BY <2>1, <2>2, <2>3, <2>4 DEF CalmWork, OneHolder, NoOther, Holds, Serving, Succeeded
  <2>6. QED  BY <2>1, <2>5, WorkGoesOn
<1>8. CASE WipeRows(v) \/ StoreRow(v)
  <2>1. /\ pc[v] \in {"toolsIn", "writing"} /\ pc'[v] = "rows"
        /\ UNCHANGED <<status, deleted, svc, calm>>
        /\ \A w \in Validations \ {v} : pc'[w] = pc[w]
        /\ \A o \in Services \ {svc[v]} : rows'[o] = rows[o]
    BY <1>8 DEF WipeRows, StoreRow, history
  <2>2. calm => CalmWork(v) /\ Succeeded
    BY <2>1, WorkersFacts
  <2>3. svc[v] \in Services
    BY <2>1
  <2>4. \A u \in Uris :
          /\ rows'[svc[v]][u] = "deprecated" => rows[svc[v]][u] = "deprecated"
          /\ rows[svc[v]][u] \in {"active", "disabled"} =>
               rows'[svc[v]][u] \in {"active", "disabled"}
    <3>1. CASE WipeRows(v)
      BY <2>3, <3>1 DEF WipeRows
    <3>2. CASE StoreRow(v)
      BY <2>3, <3>2 DEF StoreRow
    <3>3. QED  BY <1>8, <3>1, <3>2
  <2>5. calm => Succeeded'
    <3> SUFFICES ASSUME calm, NEW s \in Services, NEW u \in Uris,
                        rows'[s][u] = "deprecated"
                 PROVE  \E o \in Services : rows'[o][u] \in {"active", "disabled"}
      BY DEF Succeeded
    <3>1. rows[s][u] = "deprecated"
      BY <2>1, <2>4
    <3>2. PICK o \in Services : rows[o][u] \in {"active", "disabled"}
      BY <2>2, <3>1 DEF Succeeded
    <3>3. rows'[o][u] \in {"active", "disabled"}
      BY <2>1, <2>4, <3>2
    <3>4. QED  BY <3>3
  <2>6. calm => CalmWork(v)'
    BY <2>1, <2>2 DEF CalmWork, OneHolder, Holds, Serving
  <2>7. QED  BY <2>1, <2>5, <2>6, WorkGoesOn
<1>9. CASE ClaimInReplace(v) \/ ClaimWhenActive(v)
  <2>1. /\ UNCHANGED <<status, deleted, rows, svc, calm>>
        /\ \A w \in Validations \ {v} : pc'[w] = pc[w]
        /\ claims'[v] = Claims(svc[v])
        /\ \/ pc[v] = "rows" /\ pc'[v] = "claimed"
           \/ pc[v] = "active" /\ pc'[v] = "claimedAgain"
    BY <1>9 DEF ClaimInReplace, ClaimWhenActive, Decide, tables, history
  <2>2. calm => CalmWork(v) /\ Succeeded
    BY <2>1, WorkersFacts
  <2>3. svc[v] \in Services
    BY <2>1
  <2>4. calm => CalmWork(v)' /\ Succeeded'
    BY <2>1, <2>2, <2>3 DEF Claims, CalmWork, OneHolder, Holds, Serving, Succeeded
  <2>5. QED  BY <2>1, <2>4, WorkGoesOn
<1>10. CASE EndReplace(v)
  <2>1. calm => CalmWork(v) /\ Succeeded
    BY <1>10, WorkersFacts DEF EndReplace
  <2>2. calm => rows' = rows
    BY <1>10, <2>1 DEF EndReplace, Deprecate, CalmWork
  <2>3. calm => CalmWork(v)' /\ Succeeded'
    BY <1>10, <2>1, <2>2 DEF EndReplace, CalmWork, OneHolder, Holds, Serving, Succeeded
  <2>4. QED  BY <1>10, <2>3, WorkGoesOn DEF EndReplace, history
<1>11. CASE ShadowOthers(v)
  <2>1. calm => CalmWork(v) /\ Succeeded
    BY <1>11, WorkersFacts DEF ShadowOthers
  <2>2. svc[v] \in Services
    BY <1>11 DEF ShadowOthers
  <2>3. \A s \in Services, u \in Uris :
          rows'[s][u] = IF s # svc[v] /\ u \in claims[v] /\ rows[s][u] = "active"
                        THEN "deprecated" ELSE rows[s][u]
    BY <1>11 DEF ShadowOthers, Deprecate
  <2>4. calm => Succeeded'
    <3> SUFFICES ASSUME calm, NEW s \in Services, NEW u \in Uris,
                        rows'[s][u] = "deprecated"
                 PROVE  \E o \in Services : rows'[o][u] \in {"active", "disabled"}
      BY DEF Succeeded
    <3>1. CASE u \in claims[v]
      <4>1. rows'[svc[v]][u] = "active"
        BY <1>11, <2>1, <2>2, <2>3, <3>1 DEF ShadowOthers, CalmWork
      <4>2. QED  BY <2>2, <4>1
    <3>2. CASE u \notin claims[v]
      BY <2>1, <2>3, <3>2, ZenonT(40) DEF Succeeded
    <3>3. QED  BY <3>1, <3>2
  <2>5. calm => OneHolder(Services)'
    <3> SUFFICES ASSUME calm, NEW u \in Uris, NEW o \in Services, NEW p \in Services,
                        Holds(o, u)', Holds(p, u)'
                 PROVE  o = p
      BY DEF OneHolder
    <3>1. Holds(o, u) /\ Holds(p, u)
      BY <1>11, <2>3 DEF ShadowOthers, Holds, Serving
    <3>2. CASE o # svc[v] /\ p # svc[v]
      BY <2>1, <3>1, <3>2 DEF CalmWork, OneHolder
    <3>3. CASE u \in claims[v]
      BY <2>3, <3>3, ZenonT(30) DEF Holds
    <3>4. CASE u \notin claims[v] /\ (o = svc[v] \/ p = svc[v])
      BY <1>11, <2>1, <3>1, <3>4 DEF ShadowOthers, CalmWork
    <3>5. QED  BY <3>2, <3>3, <3>4
  <2>6. calm => CalmWork(v)'
    BY <1>11, <2>5 DEF ShadowOthers, CalmWork, OneHolder
  <2>7. QED  BY <1>11, <2>4, <2>6, WorkGoesOn DEF ShadowOthers, history
<1>12. CASE MarkValidated(v)
  <2>1. calm => CalmWork(v) /\ Succeeded
    BY <1>12, WorkersFacts DEF MarkValidated
  <2>2. svc[v] \in Services
    BY <1>12 DEF MarkValidated
  <2>3. \A o \in Services \ {svc[v]} : Serving(o)' = Serving(o)
    BY <1>12 DEF MarkValidated, Serving
  <2>4. Serving(svc[v])' => verdict[v] = "active"
    BY <1>12, <2>2 DEF MarkValidated, Serving
  <2>5. calm => OneHolder(Services \ {svc[v]})'
    BY <1>12, <2>1, <2>3 DEF MarkValidated, CalmWork, OneHolder, Holds
  <2>6. calm /\ At(v, "judged") => OneHolder(Services)'
    BY <1>12, <2>1, <2>2, <2>3, <2>4, ZenonT(40) DEF MarkValidated, CalmWork, OneHolder, NoOther, Holds
  <2>7. calm => CalmWork(v)'
    BY <1>12, <2>5, <2>6 DEF MarkValidated, CalmWork
  <2>8. calm => Succeeded'
    BY <1>12, <2>1 DEF MarkValidated, Succeeded
  <2>9. QED  BY <1>12, <2>7, <2>8, WorkGoesOn DEF MarkValidated
<1>13. QED
  BY <1>1, <1>2, <1>3, <1>4, <1>5, <1>6, <1>7, <1>8, <1>9, <1>10, <1>11, <1>12
  DEF Validate

\* Steps of others take services out of use, or end the calm.
LEMMA OthersCalm ==
  ASSUME TypeInv, CalmInv, Others
  PROVE  CalmInv'
<1> SUFFICES ASSUME calm' PROVE CalmInv'
  BY DEF CalmInv
<1>1. calm /\ UNCHANGED <<rows, pc, svc, read, claims, verdict>>
  BY DEF Others, Patch, Delete, ProbeAnswered, ReapJob, OtherCommit, tables, runVars,
         history
<1>2. \A s \in Services : Serving(s)' => Serving(s)
  BY DEF Others, Patch, Delete, ProbeAnswered, ReapJob, OtherCommit, SetStatus, tables,
         Serving, TypeInv, TablesOK
<1>3. \A S \in SUBSET Services : OneHolder(S) => OneHolder(S)'
  BY <1>1, <1>2 DEF OneHolder, Holds
<1>4. \A s \in Services : NoOther(s) => NoOther(s)'
  BY <1>1, <1>2 DEF NoOther, Holds
<1>5. Succeeded' /\ Running' = Running
  BY <1>1 DEF CalmInv, Succeeded, Running
<1>6. ASSUME NEW v \in Running
      PROVE  CalmWork(v)'
  <2>1. CalmWork(v) /\ svc[v] \in Services
    BY <1>1 DEF CalmInv, Running, TypeInv, RunOK
  <2>2. OneHolder(Services \ {svc[v]}) => OneHolder(Services \ {svc[v]})'
    BY <1>1, <1>2 DEF OneHolder, Holds
  <2>3. QED
    BY <1>1, <1>2, <1>3, <1>4, <2>1, <2>2 DEF CalmWork, Holds
<1>7. QED  BY <1>1, <1>3, <1>5, <1>6 DEF CalmInv

LEMMA CalmStep == TypeInv /\ CalmInv /\ [Next]_vars => CalmInv'
<1> SUFFICES ASSUME TypeInv, CalmInv, [Next]_vars PROVE CalmInv'
  OBVIOUS
<1>1. CASE Stop
  BY <1>1 DEF Stop, CalmInv
<1>2. CASE UNCHANGED vars
  BY <1>2 DEF vars, tables, runVars, history, CalmInv, Succeeded, Running, OneHolder,
              NoOther, Holds, Serving, CalmWork
<1>3. QED  BY <1>1, <1>2, StepCases, ValidateCalm, OthersCalm

\* As long as validations follow one another, the process does not stop and no
\* service becomes active otherwise, one service at most keeps each uri.
THEOREM CalmKeepsUris == Spec => []CalmKeepsUri
<1>1. ASSUME NEW S, \A s, t \in S : s = t
      PROVE  Cardinality(S) <= 1
  <2>1. CASE S = {}
    BY <2>1, FS_EmptySet
  <2>2. ASSUME NEW s \in S
        PROVE  Cardinality(S) <= 1
    <3>1. S = {s}
      BY <1>1
    <3>2. Cardinality(S) = 1
      BY <3>1, FS_Singleton
    <3>3. QED  BY <3>2
  <2>3. QED  BY <2>1, <2>2
<1>2. CalmInv => CalmKeepsUri
  <2> SUFFICES ASSUME CalmInv, calm, Running = {}, NEW u \in Uris
               PROVE  /\ Cardinality({s \in Services : Holds(s, u)}) <= 1
                      /\ \A s \in Services : rows[s][u] = "deprecated" =>
                           \E o \in Services : rows[o][u] \in {"active", "disabled"}
    BY DEF CalmKeepsUri, OneKeepsUri, Holds
  <2>1. \A s, t \in {o \in Services : Holds(o, u)} : s = t
    BY DEF CalmInv, OneHolder
  <2>2. QED  BY <1>1, <2>1 DEF CalmInv, Succeeded
<1>3. QED  BY <1>2, InitCalm, CalmStep, TypesHold, PTL DEF Spec

=============================================================================
