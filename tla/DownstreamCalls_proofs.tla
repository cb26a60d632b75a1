------------------------ MODULE DownstreamCalls_proofs ------------------------
(***************************************************************************)
(* Proofs about CircuitBreaker and DownstreamCalls, which extends it, for  *)
(* any sets of services, calls, administrators' requests and secret_refs,  *)
(* every threshold and every cooldown.  The entry of a service mirrors the *)
(* history of its outcomes (BreakerInv, inductive); with it, the breaker   *)
(* refuses a call exactly when BreakerPromise does, so every step of the   *)
(* breaker is a step of the promise.  A step of the composition is a step  *)
(* of the breaker or leaves it alone, so all of that holds there too.      *)
(* RefInv says where a secret_ref may be: it is given out once, waits with *)
(* the request that stored it, is the active row of one service, and once  *)
(* replaced never comes back.                                              *)
(***************************************************************************)
EXTENDS DownstreamCalls, TLAPS

-----------------------------------------------------------------------------
(* The breaker by itself.                                                  *)

BreakerInv == TypeOK /\ EntryMirrorsHistory /\ HistoryIsPast

LEMMA BreakerInitially == Init => BreakerInv
BY ThresholdAssumption, MaxNowAssumption
DEF Init, BreakerInv, TypeOK, EntryMirrorsHistory, HistoryIsPast, Never

\* before_request lets a request through: at most open -> half-open, and only
\* when the cooldown is over.
LEMMA AdmitKeeps ==
  ASSUME NEW s \in Services, BreakerInv, Admit(s),
         UNCHANGED <<now, history>>, TypeOK'
  PROVE  BreakerInv'
BY CooldownAssumption, ThresholdAssumption
DEF BreakerInv, TypeOK, EntryMirrorsHistory, HistoryIsPast, Admit, Rejects,
    RetryAfter, entry, history, Never

LEMMA SuccessKeeps ==
  ASSUME NEW s \in Services, BreakerInv, RecordSuccess(s), now' = now, TypeOK'
  PROVE  BreakerInv'
BY CooldownAssumption, ThresholdAssumption
DEF BreakerInv, TypeOK, EntryMirrorsHistory, HistoryIsPast, RecordSuccess,
    Never

LEMMA FailureKeeps ==
  ASSUME NEW s \in Services, BreakerInv, RecordFailure(s), now' = now, TypeOK'
  PROVE  BreakerInv'
BY CooldownAssumption, ThresholdAssumption
DEF BreakerInv, TypeOK, EntryMirrorsHistory, HistoryIsPast, RecordFailure,
    CountedFailures, Never

\* Every step of the callers keeps the types; an outcome keeps the counts
\* natural numbers.
LEMMA TypeStep == TypeOK /\ [Next]_vars => TypeOK'
<1> SUFFICES ASSUME TypeOK, [Next]_vars
             PROVE  TypeOK'
  OBVIOUS
<1> USE ThresholdAssumption, MaxNowAssumption DEF TypeOK
<1>1. ASSUME NEW c \in Calls, NEW s \in Services, Dispatch(c, s)
      PROVE  TypeOK'
  <2>1. state' \in [Services -> {"closed", "open", "half-open"}]
    BY <1>1 DEF Dispatch, Admit, entry
  <2>2. openedAt' \in [Services -> Nat \cup {Never}]
    BY <1>1 DEF Dispatch, Admit, entry
  <2>3. /\ now' \in 0..MaxNow
        /\ failureCount' \in [Services -> Nat]
        /\ target' \in [Calls -> Services \cup {NoService}]
        /\ streak' \in [Services -> Nat]
        /\ lastFailure' \in [Services -> Nat \cup {Never}]
    BY <1>1 DEF Dispatch, Admit, entry, history
  <2>4. QED
    BY <2>1, <2>2, <2>3
<1>2. ASSUME NEW c \in Calls, Succeed(c)
      PROVE  TypeOK'
  BY <1>2 DEF Succeed, Settle, RecordSuccess
<1>3. ASSUME NEW c \in Calls, Fail(c)
      PROVE  TypeOK'
  BY <1>3 DEF Fail, Settle, RecordFailure, CountedFailures
<1>4. ASSUME NEW c \in Calls, Abandon(c)
      PROVE  TypeOK'
  BY <1>4 DEF Abandon, Settle, entry, history
<1>5. ASSUME NEW s \in Services, ProbeSucceeds(s)
      PROVE  TypeOK'
  BY <1>5 DEF ProbeSucceeds, RecordSuccess
<1>6. ASSUME NEW s \in Services, ProbeFails(s)
      PROVE  TypeOK'
  BY <1>6 DEF ProbeFails, RecordFailure, CountedFailures
<1>7. CASE Tick
  BY <1>7 DEF Tick, entry, history
<1>8. CASE UNCHANGED vars
  BY <1>8 DEF vars, entry, history
<1>9. QED
  BY <1>1, <1>2, <1>3, <1>4, <1>5, <1>6, <1>7, <1>8 DEF Next

LEMMA BreakerStep == BreakerInv /\ [Next]_vars => BreakerInv'
<1> SUFFICES ASSUME BreakerInv, [Next]_vars
             PROVE  BreakerInv'
  OBVIOUS
<1>0. TypeOK'
  BY TypeStep DEF BreakerInv
<1>1. ASSUME NEW c \in Calls, NEW s \in Services, Dispatch(c, s)
      PROVE  BreakerInv'
  BY <1>0, <1>1, AdmitKeeps DEF Dispatch
<1>2. ASSUME NEW c \in Calls, Settle(c),
             Succeed(c) \/ Fail(c)
      PROVE  BreakerInv'
  <2>1. target[c] \in Services /\ now' = now
    BY <1>2 DEF BreakerInv, TypeOK, Settle
  <2>2. QED
    BY <1>0, <1>2, <2>1, SuccessKeeps, FailureKeeps DEF Succeed, Fail
<1>3. ASSUME NEW c \in Calls, Abandon(c)
      PROVE  BreakerInv'
  BY <1>0, <1>3
  DEF BreakerInv, EntryMirrorsHistory, HistoryIsPast, Abandon, Settle, entry,
      history
<1>4. ASSUME NEW s \in Services, ProbeSucceeds(s) \/ ProbeFails(s)
      PROVE  BreakerInv'
  BY <1>0, <1>4, SuccessKeeps, FailureKeeps DEF ProbeSucceeds, ProbeFails
<1>5. CASE Tick
  BY <1>0, <1>5, CooldownAssumption
  DEF BreakerInv, TypeOK, EntryMirrorsHistory, HistoryIsPast, Tick, entry,
      history, Never
<1>6. CASE UNCHANGED vars
  BY <1>0, <1>6
  DEF BreakerInv, EntryMirrorsHistory, HistoryIsPast, vars, entry, history
<1>7. QED
  BY <1>1, <1>2, <1>3, <1>4, <1>5, <1>6 DEF Next, Succeed, Fail

\* The variables keep their types.
THEOREM TypeCorrect == Spec => []TypeOK
<1>1. BreakerInv => TypeOK
  BY DEF BreakerInv
<1>2. QED
  BY <1>1, BreakerInitially, BreakerStep, PTL DEF Spec

\* A service's entry says exactly how many failures arrived since its last
\* success and when the cooldown began, for every interleaving of admissions,
\* outcomes and health probes.
THEOREM MirrorsHistory == Spec => [](EntryMirrorsHistory /\ HistoryIsPast)
<1>1. BreakerInv => EntryMirrorsHistory /\ HistoryIsPast
  BY DEF BreakerInv
<1>2. QED
  BY <1>1, BreakerInitially, BreakerStep, PTL DEF Spec

\* The breaker refuses a call exactly when its promise allows it to.
LEMMA RejectsIffBlocked ==
  ASSUME BreakerInv, NEW s \in Services
  PROVE  Rejects(s) <=> Promise!Blocked(s)
BY CooldownAssumption, ThresholdAssumption
DEF BreakerInv, TypeOK, EntryMirrorsHistory, HistoryIsPast, Rejects,
    RetryAfter, Promise!Blocked, Never

\* An outcome recorded by the breaker is one the promise records.
LEMMA OutcomeMaps ==
  ASSUME NEW s \in Services, now' = now
  PROVE  /\ RecordSuccess(s) => Promise!Good(s)
         /\ RecordFailure(s) => Promise!Bad(s)
BY DEF RecordSuccess, RecordFailure, Promise!Good, Promise!Bad

LEMMA StepMaps ==
  BreakerInv /\ [Next]_vars => [Promise!Next]_(Promise!vars)
<1> SUFFICES ASSUME BreakerInv, [Next]_vars
             PROVE  [Promise!Next]_(Promise!vars)
  OBVIOUS
<1>1. ASSUME NEW c \in Calls, NEW s \in Services, Dispatch(c, s)
      PROVE  Promise!Next
  <2>1. Promise!Dispatch(c, s)
    BY <1>1, RejectsIffBlocked
    DEF Dispatch, Admit, history, Promise!Dispatch
  <2>2. QED
    BY <2>1 DEF Promise!Next
<1>2. ASSUME NEW c \in Calls, Succeed(c) \/ Fail(c) \/ Abandon(c)
      PROVE  Promise!Next
  <2>1. /\ Promise!Return(c)
        /\ target[c] \in Services
        /\ now' = now
    BY <1>2
    DEF Succeed, Fail, Abandon, Settle, Promise!Return, BreakerInv, TypeOK
  <2>2. \/ Promise!Good(target[c])
        \/ Promise!Bad(target[c])
        \/ UNCHANGED <<now, streak, lastFailure>>
    BY <1>2, <2>1, OutcomeMaps DEF Succeed, Fail, Abandon, history
  <2>3. QED
    BY <2>1, <2>2 DEF Promise!Next
<1>3. ASSUME NEW s \in Services, ProbeSucceeds(s) \/ ProbeFails(s)
      PROVE  Promise!Next
  BY <1>3, OutcomeMaps DEF ProbeSucceeds, ProbeFails, Promise!Next
<1>4. CASE Tick
  BY <1>4 DEF Tick, history, Promise!Next, Promise!Tick
<1>5. CASE UNCHANGED vars
  BY <1>5 DEF vars, history, Promise!vars
<1>6. QED
  BY <1>1, <1>2, <1>3, <1>4, <1>5 DEF Next

\* The breaker refuses no call that the outcomes recorded so far let through.
THEOREM RefusesNoOther == Spec => []RefusesOnlyBlocked
<1>1. BreakerInv => RefusesOnlyBlocked
  BY RejectsIffBlocked DEF RefusesOnlyBlocked
<1>2. QED
  BY <1>1, BreakerInitially, BreakerStep, PTL DEF Spec

\* The breaker implements BreakerPromise: it admits no call that the outcomes
\* recorded so far block.
THEOREM KeepsPromise == Spec => PromiseKept
<1>1. Init => Promise!Init
  BY DEF Init, Promise!Init, Never
<1>2. QED
  BY <1>1, BreakerInitially, BreakerStep, StepMaps, PTL
  DEF Spec, PromiseKept, Promise!Spec

-----------------------------------------------------------------------------
(* Calls and credentials.                                                  *)

Places == {"begun", "stored", "revoked", "replaced", "dropped", "written"}

Records == [does : {"put", "rotate", "delete", "patch"}, service : Services,
            at : Places, ref : Refs \cup {NoRef}, seen : Refs \cup {NoRef}]

AdminsOK == admin \in [Admins -> {Idle} \cup Records]

\* what an administrator's request may be at
PlacesFit ==
  \A a \in Admins :
    /\ admin[a].does \in {"put", "patch"} => admin[a].seen = NoRef
    /\ admin[a].does = "delete" => admin[a].at \in {"begun", "dropped", "written"}
    /\ admin[a].does = "patch" => admin[a].at = "written"

TypeInv == CallsTypeOK /\ AdminsOK /\ PlacesFit

-----------------------------------------------------------------------------
(* The breaker inside the composition.                                     *)

LEMMA BreakerSteps == [CallsNext]_allVars => [Next]_vars
<1> SUFFICES ASSUME [CallsNext]_allVars PROVE [Next]_vars
  OBVIOUS
<1> USE DEF breakerVars, vars
<1>1. ASSUME NEW c \in Calls, CallStep(c)
      PROVE  [Next]_vars
  BY <1>1 DEF CallStep, Ask, ReadRow, Send, HeadersArrive, Answered, Failed,
              LeftUncounted, Next
<1>2. ASSUME NEW s \in Services, ServiceStep(s)
      PROVE  [Next]_vars
  BY <1>2 DEF ServiceStep, Lapse, OtherAnswered, ProbeAnswered, ProbeFailed, Next
<1>3. ASSUME NEW a \in Admins, AdminStep(a)
      PROVE  [Next]_vars
  BY <1>3 DEF AdminStep, LookUp, PutSecret, RevokeOthers, InsertRow, InsertFails,
              DropPrevious, DropSecret, RevokeRow, WriteService, Finish
<1>4. CASE Pass
  BY <1>4 DEF Pass, Next
<1>5. CASE UNCHANGED allVars
  BY <1>5 DEF allVars
<1>6. QED  BY <1>1, <1>2, <1>3, <1>4, <1>5 DEF CallsNext

LEMMA Composes == CallsSpec => Spec
<1>1. CallsInit => Init
  BY DEF CallsInit
<1>2. QED  BY <1>1, BreakerSteps, PTL DEF CallsSpec, Spec

\* In the composition too, the breaker admits no call that the outcomes block.
THEOREM CallsKeepPromise == CallsSpec => PromiseKept
BY Composes, KeepsPromise, PTL

-----------------------------------------------------------------------------
(* Types.                                                                  *)

LEMMA InitTypes == CallsInit => TypeInv
BY BreakerInitially, NoRefAssumption
DEF CallsInit, TypeInv, CallsTypeOK, AdminsOK, PlacesFit, BreakerInv, Idle, Busy,
    Init

LEMMA CallTypes ==
  ASSUME TypeInv, TypeOK', NEW c \in Calls, CallStep(c)
  PROVE  TypeInv'
<1>1. UNCHANGED <<admin, row, vault, given>>
  BY DEF CallStep, Ask, ReadRow, Send, HeadersArrive, Answered, Failed,
         LeftUncounted, Leave, ForgetIfOpen, shared, kept
<1>2. /\ session' \in [Services -> BOOLEAN]
      /\ stands' \in [Services -> {"fresh", "outdated", "late"}]
      /\ changed' = changed
  <2>1. /\ changed' = changed
        /\ \/ UNCHANGED <<session, stands>>
           \/ ForgetSession(target[c])
           \/ StoreSession(target[c], behind[c])
    BY DEF CallStep, Ask, ReadRow, Send, HeadersArrive, Answered, Failed,
           LeftUncounted, Leave, ForgetIfOpen, shared, kept
  <2>2. QED  BY <2>1 DEF ForgetSession, StoreSession, TypeInv, CallsTypeOK
<1>3. /\ phase' \in [Calls -> {"idle", "asked", "found", "sent", "streaming"}]
      /\ carried' \in [Calls -> Refs \cup {NoRef}]
      /\ calm' \in [Calls -> BOOLEAN]
      /\ behind' \in [Calls -> BOOLEAN]
  <2>1. ASSUME NEW s \in Services, Ask(c, s)
        PROVE  <1>3!:
    BY <2>1 DEF Ask, TypeInv, CallsTypeOK
  <2>2. CASE ReadRow(c)
    <3>1. target[c] \in Services
      BY <2>2 DEF ReadRow, TypeInv, CallsTypeOK, TypeOK
    <3>2. QED  BY <2>2, <3>1 DEF ReadRow, kept, TypeInv, CallsTypeOK
  <2>3. CASE Send(c) \/ HeadersArrive(c)
    BY <2>3 DEF Send, HeadersArrive, kept, TypeInv, CallsTypeOK
  <2>4. CASE Answered(c) \/ Failed(c) \/ LeftUncounted(c)
    BY <2>4 DEF Answered, Failed, LeftUncounted, Leave, TypeInv, CallsTypeOK
  <2>5. QED  BY <2>1, <2>2, <2>3, <2>4 DEF CallStep
<1>4. \A d \in Calls : phase'[d] = "idle" <=> target'[d] = NoService
  <2>1. ASSUME NEW s \in Services, Ask(c, s)
        PROVE  <1>4!:
    BY <2>1, NoServiceAssumption DEF Ask, Dispatch, TypeInv, CallsTypeOK, TypeOK
  <2>2. CASE ReadRow(c) \/ Send(c) \/ HeadersArrive(c)
    BY <2>2 DEF ReadRow, Send, HeadersArrive, breakerVars, TypeInv, CallsTypeOK
  <2>3. CASE Answered(c) \/ Failed(c) \/ LeftUncounted(c)
    BY <2>3 DEF Answered, Failed, LeftUncounted, Leave, Succeed, Fail, Abandon,
                Settle, TypeInv, CallsTypeOK, TypeOK
  <2>4. QED  BY <2>1, <2>2, <2>3 DEF CallStep
<1>5. QED
  BY <1>1, <1>2, <1>3, <1>4 DEF TypeInv, CallsTypeOK, AdminsOK, PlacesFit, Busy

\* An administrator's step changes no other administrator's request.
OwnRequest(a) == \A b \in Admins \ {a} : admin'[b] = admin[b]

LEMMA AdminTypes ==
  ASSUME TypeInv, NEW a \in Admins, AdminStep(a)
  PROVE  AdminsOK' /\ PlacesFit' /\ OwnRequest(a)
<1> USE DEF TypeInv, AdminsOK, PlacesFit, OwnRequest, Records, Places, Idle
<1>1. ASSUME NEW s \in Services, NEW what \in {"rotate", "delete"}, LookUp(a, s, what)
      PROVE  AdminsOK' /\ PlacesFit' /\ OwnRequest(a)
  <2>1. row[s] \in Refs \cup {NoRef}
    BY DEF CallsTypeOK
  <2>2. QED  BY <1>1, <2>1 DEF LookUp, Start
<1>2. ASSUME NEW r \in Refs, PutSecret(a, r)
      PROVE  AdminsOK' /\ PlacesFit' /\ OwnRequest(a)
  BY <1>2 DEF PutSecret, Start, Is
<1>3. CASE RevokeOthers(a) \/ InsertRow(a) \/ InsertFails(a)
  BY <1>3 DEF RevokeOthers, InsertRow, InsertFails, Is, Step
<1>4. CASE DropPrevious(a) \/ DropSecret(a) \/ RevokeRow(a)
  BY <1>4 DEF DropPrevious, DropSecret, RevokeRow, Is, Step
<1>5. ASSUME NEW s \in Services, WriteService(a, s)
      PROVE  AdminsOK' /\ PlacesFit' /\ OwnRequest(a)
  BY <1>5 DEF WriteService, Start
<1>6. CASE Finish(a)
  BY <1>6 DEF Finish
<1>7. QED  BY <1>1, <1>2, <1>3, <1>4, <1>5, <1>6 DEF AdminStep

\* A request at one of these places has a service and secret_refs.
LEMMA AtWork ==
  ASSUME TypeInv, NEW a \in Admins, admin[a].at # "start"
  PROVE  admin[a] \in Records /\ Busy(a)
BY DEF TypeInv, AdminsOK, Records, Idle, Busy

LEMMA AdminStepTypes ==
  ASSUME TypeInv, TypeOK', NEW a \in Admins, AdminStep(a)
  PROVE  TypeInv'
<1> USE DEF TypeInv, CallsTypeOK
<1>1. AdminsOK' /\ PlacesFit'
  BY AdminTypes
<1>2. \A b \in Admins : Busy(b)' => admin'[b].service \in Services
  BY <1>1 DEF AdminsOK, Records, Busy, Idle
<1>3. UNCHANGED <<phase, carried, target>>
  BY DEF AdminStep, LookUp, PutSecret, RevokeOthers, InsertRow, InsertFails,
         DropPrevious, DropSecret, RevokeRow, WriteService, Finish, breakerVars
<1>8. /\ behind' \in [Calls -> BOOLEAN]
      /\ changed' \subseteq Services
  <2>1. CASE RevokeOthers(a) \/ InsertRow(a) \/ RevokeRow(a)
    <3>1. admin[a] \in Records
      BY <2>1, AtWork DEF RevokeOthers, InsertRow, RevokeRow, Is
    <3>2. /\ Outdate(admin[a].service, HasCredential)
          /\ admin[a].service \in Services
      BY <2>1, <3>1 DEF RevokeOthers, InsertRow, RevokeRow, Records
    <3>3. QED  BY <3>2 DEF Outdate
  <2>2. ASSUME NEW s \in Services, WriteService(a, s)
        PROVE  <1>8!:
    BY <2>2 DEF WriteService, Outdate
  <2>3. CASE ~(RevokeOthers(a) \/ InsertRow(a) \/ RevokeRow(a)
               \/ \E s \in Services : WriteService(a, s))
    BY <2>3 DEF AdminStep, LookUp, PutSecret, InsertFails, DropPrevious, DropSecret,
                Finish, kept
  <2>4. QED  BY <2>1, <2>2, <2>3
<1>4. calm' \in [Calls -> BOOLEAN]
  BY ZenonT(40) DEF AdminStep, LookUp, PutSecret, RevokeOthers, InsertRow, InsertFails,
         DropPrevious, DropSecret, RevokeRow, WriteService, Finish, Start, kept
<1>5. vault' \subseteq given' /\ given' \subseteq Refs
  BY DEF AdminStep, LookUp, PutSecret, RevokeOthers, InsertRow, InsertFails,
         DropPrevious, DropSecret, RevokeRow, WriteService, Finish, shared, kept
<1>6. /\ row' \in [Services -> Refs \cup {NoRef}]
      /\ session' \in [Services -> BOOLEAN]
      /\ stands' \in [Services -> {"fresh", "outdated", "late"}]
  <2>1. CASE RevokeOthers(a) \/ InsertRow(a) \/ RevokeRow(a) \/ Finish(a)
    <3>1. admin[a] \in Records
      BY <2>1, AtWork DEF RevokeOthers, InsertRow, RevokeRow, Finish, Is
    <3>2. QED
      BY <2>1, <3>1 DEF RevokeOthers, InsertRow, RevokeRow, Finish, Outdate,
                        ForgetSession, Records
  <2>2. CASE ~(RevokeOthers(a) \/ InsertRow(a) \/ RevokeRow(a) \/ Finish(a))
    BY <2>2 DEF AdminStep, LookUp, PutSecret, InsertFails, DropPrevious, DropSecret,
                WriteService, Outdate, shared, kept
  <2>3. QED  BY <2>1, <2>2
<1>7. QED  BY <1>1, <1>2, <1>3, <1>4, <1>5, <1>6, <1>8

LEMMA TypesStep == TypeInv /\ BreakerInv /\ [CallsNext]_allVars => TypeInv'
<1> SUFFICES ASSUME TypeInv, BreakerInv, [CallsNext]_allVars PROVE TypeInv'
  OBVIOUS
<1>1. TypeOK'
  BY BreakerSteps, BreakerStep DEF BreakerInv
<1>2. ASSUME NEW c \in Calls, CallStep(c) PROVE TypeInv'
  BY <1>1, <1>2, CallTypes
<1>3. ASSUME NEW s \in Services, ServiceStep(s) PROVE TypeInv'
  <2>1. UNCHANGED <<phase, carried, target, row, vault, admin, given, behind,
                    changed, calm>>
    BY <1>3 DEF ServiceStep, Lapse, OtherAnswered, ProbeAnswered, ProbeFailed,
                ProbeSucceeds, ProbeFails, breakerVars, shared, kept
  <2>2. /\ session' \in [Services -> BOOLEAN]
        /\ stands' \in [Services -> {"fresh", "outdated", "late"}]
    BY <1>3 DEF ServiceStep, Lapse, OtherAnswered, ProbeAnswered, ProbeFailed,
                ForgetIfOpen, ForgetSession, StoreSession, shared, kept, TypeInv,
                CallsTypeOK
  <2>3. QED
    BY <1>1, <2>1, <2>2 DEF TypeInv, CallsTypeOK, AdminsOK, PlacesFit, Busy
<1>4. ASSUME NEW a \in Admins, AdminStep(a) PROVE TypeInv'
  BY <1>1, <1>4, AdminStepTypes
<1>5. CASE Pass \/ UNCHANGED allVars
  BY <1>1, <1>5 DEF Pass, Tick, allVars, breakerVars, shared, kept, TypeInv,
                    CallsTypeOK, AdminsOK, PlacesFit, Busy
<1>6. QED  BY <1>2, <1>3, <1>4, <1>5 DEF CallsNext

LEMMA BreakerHolds == CallsSpec => []BreakerInv
BY Composes, BreakerInitially, BreakerStep, PTL DEF Spec

\* The variables keep their types.
THEOREM CallsTypeCorrect == CallsSpec => []CallsTypeOK
<1>1. TypeInv => CallsTypeOK
  BY DEF TypeInv
<1>2. QED  BY <1>1, InitTypes, TypesStep, BreakerHolds, PTL DEF CallsSpec

LEMMA TypesHold == CallsSpec => []TypeInv
BY InitTypes, TypesStep, BreakerHolds, PTL DEF CallsSpec

-----------------------------------------------------------------------------
(* Secrets.  A request that has stored its secret and not yet inserted its *)
(* row is the only place its secret_ref is at.                             *)

Pending(a) ==
  admin[a].does \in {"put", "rotate"} /\ admin[a].at \in {"stored", "revoked"}

\* an active secret_ref is given out and active for one service
RowsInv ==
  /\ \A s \in Services : row[s] \in given \cup {NoRef}
  /\ \A s, t \in Services : row[s] # NoRef /\ row[s] = row[t] => s = t

\* what a request read is an old row, or still the row of its own service
SeenInv ==
  \A a \in Admins : Busy(a) /\ admin[a].seen # NoRef =>
    /\ admin[a].seen \in given
    /\ \A s \in Services : row[s] = admin[a].seen =>
         s = admin[a].service /\ admin[a].at \notin {"revoked", "replaced"}

PendingInv ==
  \A a \in Admins : Pending(a) =>
    /\ admin[a].ref \in vault
    /\ \A s \in Services : row[s] # admin[a].ref
    /\ \A b \in Admins : Busy(b) => admin[b].seen # admin[a].ref
    /\ \A b \in Admins : Pending(b) /\ admin[b].ref = admin[a].ref => a = b

RefInv == RowsInv /\ SeenInv /\ PendingInv /\ SecretBehindRow

LEMMA InitRefs == CallsInit => RefInv
BY DEF CallsInit, RefInv, RowsInv, SeenInv, PendingInv, SecretBehindRow, Pending,
       Busy, Idle

LEMMA RefsUntouched ==
  ASSUME RefInv, UNCHANGED <<row, vault, given, admin>>
  PROVE  RefInv'
BY DEF RefInv, RowsInv, SeenInv, PendingInv, SecretBehindRow, Pending, Busy, Is

LEMMA AdminStepRefs ==
  ASSUME TypeInv, RefInv, NEW a \in Admins, AdminStep(a), TypeInv'
  PROVE  RefInv'
<1> USE NoRefAssumption
    DEF TypeInv, CallsTypeOK, AdminsOK, PlacesFit, Records, Places, Idle, Busy,
        RefInv, RowsInv, SeenInv, PendingInv, SecretBehindRow, Pending, Is
<1>1. ASSUME NEW s \in Services, NEW what \in {"rotate", "delete"}, LookUp(a, s, what)
      PROVE  RefInv'
  BY <1>1 DEF LookUp, Start, shared
<1>2. ASSUME NEW r \in Refs, PutSecret(a, r)
      PROVE  RefInv'
  <2>1. /\ \A b \in Admins : Busy(b) => admin[b].seen # r
        /\ \A b \in Admins : Pending(b) => admin[b].ref # r
        /\ \A s \in Services : row[s] # r
    BY <1>2 DEF PutSecret
  <2>2. CASE \E s \in Services : Start(a, s, "put", "stored", r, NoRef)
    BY <1>2, <2>1, <2>2 DEF PutSecret, Start
  <2>3. CASE Is(a, {"rotate"}, "begun")
             /\ admin' = [admin EXCEPT ![a].at = "stored", ![a].ref = r]
    BY <1>2, <2>1, <2>3, SMTT(20) DEF PutSecret
  <2>4. QED  BY <1>2, <2>2, <2>3 DEF PutSecret
<1>3. CASE RevokeOthers(a)
  BY <1>3, SMTT(20) DEF RevokeOthers, Step
<1>4. CASE InsertRow(a)
  BY <1>4, SMTT(20) DEF InsertRow, Step
<1>5. CASE InsertFails(a)
  BY <1>5 DEF InsertFails, shared, kept
<1>6. CASE DropPrevious(a)
  BY <1>6 DEF DropPrevious, Step, kept
<1>7. CASE DropSecret(a)
  BY <1>7 DEF DropSecret, Step, kept
<1>8. CASE RevokeRow(a)
  BY <1>8 DEF RevokeRow, Step
<1>9. ASSUME NEW s \in Services, WriteService(a, s)
      PROVE  RefInv'
  BY <1>9 DEF WriteService, Start, shared
<1>10. CASE Finish(a)
  BY <1>10 DEF Finish
<1>11. QED
  BY <1>1, <1>2, <1>3, <1>4, <1>5, <1>6, <1>7, <1>8, <1>9, <1>10 DEF AdminStep

LEMMA RefsStep == TypeInv /\ TypeInv' /\ RefInv /\ [CallsNext]_allVars => RefInv'
<1> SUFFICES ASSUME TypeInv, TypeInv', RefInv, [CallsNext]_allVars PROVE RefInv'
  OBVIOUS
<1>1. ASSUME NEW c \in Calls, CallStep(c) PROVE RefInv'
  <2>1. UNCHANGED <<row, vault, given, admin>>
    BY <1>1 DEF CallStep, Ask, ReadRow, Send, HeadersArrive, Answered, Failed,
                LeftUncounted, Leave, shared, kept
  <2>2. QED  BY <2>1, RefsUntouched
<1>2. ASSUME NEW s \in Services, ServiceStep(s) PROVE RefInv'
  <2>1. UNCHANGED <<row, vault, given, admin>>
    BY <1>2 DEF ServiceStep, Lapse, OtherAnswered, ProbeAnswered, ProbeFailed,
                shared, kept
  <2>2. QED  BY <2>1, RefsUntouched
<1>3. ASSUME NEW a \in Admins, AdminStep(a) PROVE RefInv'
  BY <1>3, AdminStepRefs
<1>4. CASE Pass \/ UNCHANGED allVars
  BY <1>4, RefsUntouched DEF Pass, allVars, shared, kept
<1>5. QED  BY <1>1, <1>2, <1>3, <1>4 DEF CallsNext

LEMMA RefsHold == CallsSpec => []RefInv
BY InitRefs, RefsStep, TypesHold, PTL DEF CallsSpec

\* An active row names a secret in the vault, or a delete is about to revoke it.
THEOREM SecretsBehindRows == CallsSpec => []SecretBehindRow
<1>1. RefInv => SecretBehindRow
  BY DEF RefInv
<1>2. QED  BY <1>1, RefsHold, PTL

-----------------------------------------------------------------------------
(* Calls.  While a call is calm no administrator's request is at work on   *)
(* its service, so the row it read stays, and the row's secret with it.    *)

CalmInv ==
  \A c \in Calls : calm[c] /\ phase[c] # "idle" =>
    /\ \A a \in Admins : Busy(a) => admin[a].service # target[c]
    /\ phase[c] = "found" => carried[c] = row[target[c]]
    /\ phase[c] \in {"sent", "streaming"} =>
         carried[c] = IF row[target[c]] \in Headers THEN row[target[c]] ELSE NoRef

LEMMA InitCalm == CallsInit => CalmInv
BY DEF CallsInit, CalmInv

LEMMA CallStepCalm ==
  ASSUME TypeInv, RefInv, CalmInv, NEW c \in Calls, CallStep(c)
  PROVE  CalmInv'
<1> USE DEF CalmInv, TypeInv, CallsTypeOK
<1>1. ASSUME NEW s \in Services, Ask(c, s)
      PROVE  CalmInv'
  BY <1>1 DEF Ask, Dispatch, TypeOK, shared, Busy
<1>2. CASE ReadRow(c)
  BY <1>2 DEF ReadRow, breakerVars, shared, kept, Busy
<1>3. CASE Send(c)
  <2>1. CASE calm[c]
    <3>1. target[c] \in Services
      BY <1>3 DEF Send, TypeOK
    <3>2. row[target[c]] \in vault \cup {NoRef}
      BY <1>3, <2>1, <3>1, AtWork DEF Send, RefInv, SecretBehindRow, SeenInv, Is, Busy
    <3>3. QED
      BY <1>3, <2>1, <3>2, NoRefAssumption, HeadersAssumption
      DEF Send, breakerVars, shared, kept, Busy
  <2>2. CASE ~calm[c]
    BY <1>3, <2>2 DEF Send, breakerVars, shared, kept, Busy
  <2>3. QED  BY <2>1, <2>2
<1>4. CASE HeadersArrive(c)
  BY <1>4 DEF HeadersArrive, breakerVars, Busy
<1>5. CASE Answered(c) \/ Failed(c) \/ LeftUncounted(c)
  BY <1>5 DEF Answered, Failed, LeftUncounted, Leave, Succeed, Fail, Abandon,
              Settle, TypeOK, Busy
<1>6. QED  BY <1>1, <1>2, <1>3, <1>4, <1>5 DEF CallStep

LEMMA AdminStepCalm ==
  ASSUME TypeInv, CalmInv, NEW a \in Admins, AdminStep(a), TypeInv'
  PROVE  CalmInv'
<1> USE DEF CalmInv, TypeInv, CallsTypeOK, AdminsOK, Records, Idle, Busy
<1>1. UNCHANGED <<phase, carried, target>>
  BY DEF AdminStep, LookUp, PutSecret, RevokeOthers, InsertRow, InsertFails,
         DropPrevious, DropSecret, RevokeRow, WriteService, Finish, breakerVars
<1>2. ASSUME NEW s \in Services, NEW what, NEW place, NEW r, NEW seen,
             Start(a, s, what, place, r, seen), row' = row
      PROVE  CalmInv'
  BY <1>1, <1>2, ZenonT(40) DEF Start, TypeOK
<1>3. ASSUME Busy(a), calm' = calm,
             admin'[a].service = admin[a].service \/ ~Busy(a)',
             \A s \in Services \ {admin[a].service} : row'[s] = row[s]
      PROVE  CalmInv'
  <2>1. SUFFICES ASSUME NEW c \in Calls, calm[c], phase[c] # "idle"
                 PROVE  /\ row'[target[c]] = row[target[c]]
                        /\ \A b \in Admins : Busy(b)' => admin'[b].service # target[c]
    BY <1>1, <1>3
  <2>2. target[c] \in Services /\ target[c] # admin[a].service
    BY <1>3, <2>1 DEF TypeOK
  <2>3. QED  BY <1>3, <2>1, <2>2, AdminTypes DEF OwnRequest
<1>4. CASE \E s \in Services : \/ \E what \in {"rotate", "delete"} : LookUp(a, s, what)
                               \/ WriteService(a, s)
  BY <1>2, <1>4 DEF LookUp, WriteService, shared
<1>5. ASSUME NEW r \in Refs, PutSecret(a, r)
      PROVE  CalmInv'
  <2>1. CASE \E s \in Services : Start(a, s, "put", "stored", r, NoRef)
    BY <1>2, <1>5, <2>1 DEF PutSecret
  <2>2. CASE ~\E s \in Services : Start(a, s, "put", "stored", r, NoRef)
    BY <1>3, <1>5, <2>2 DEF PutSecret, Is
  <2>3. QED  BY <2>1, <2>2
<1>6. CASE RevokeOthers(a) \/ InsertRow(a) \/ InsertFails(a)
  <2>1. admin[a] \in Records
    BY <1>6, AtWork DEF RevokeOthers, InsertRow, InsertFails, Is
  <2>2. QED
    BY <1>3, <1>6, <2>1 DEF RevokeOthers, InsertRow, InsertFails, Is, Step, shared, kept
<1>7. CASE DropPrevious(a) \/ DropSecret(a) \/ RevokeRow(a) \/ Finish(a)
  <2>1. admin[a] \in Records
    BY <1>7, AtWork DEF DropPrevious, DropSecret, RevokeRow, Finish, Is
  <2>2. QED
    BY <1>3, <1>7, <2>1 DEF DropPrevious, DropSecret, RevokeRow, Finish, Is, Step, kept
<1>8. QED  BY <1>4, <1>5, <1>6, <1>7 DEF AdminStep

LEMMA CalmStep ==
  TypeInv /\ TypeInv' /\ RefInv /\ CalmInv /\ [CallsNext]_allVars => CalmInv'
<1> SUFFICES ASSUME TypeInv, TypeInv', RefInv, CalmInv, [CallsNext]_allVars
             PROVE  CalmInv'
  OBVIOUS
<1>1. ASSUME NEW s \in Services, ServiceStep(s) PROVE CalmInv'
  BY <1>1 DEF ServiceStep, Lapse, OtherAnswered, ProbeAnswered, ProbeFailed,
              ProbeSucceeds, ProbeFails, breakerVars, shared, kept, CalmInv, Busy
<1>2. CASE Pass \/ UNCHANGED allVars
  BY <1>2 DEF Pass, Tick, allVars, breakerVars, shared, kept, CalmInv, Busy
<1>3. QED  BY <1>1, <1>2, CallStepCalm, AdminStepCalm DEF CallsNext

\* A call whose service's credential is left alone carries the active row's
\* secret when that row gives a header that is forwarded, and none otherwise.
THEOREM CalmCallsCarrySecrets == CallsSpec => []CalmCallCarriesSecret
<1>1. CalmInv => CalmCallCarriesSecret
  BY DEF CalmInv, CalmCallCarriesSecret
<1>2. QED
  BY <1>1, InitCalm, CalmStep, TypesHold, RefsHold, PTL DEF CallsSpec

-----------------------------------------------------------------------------
(* Sessions.  An outdated session is waited for by a request that will     *)
(* forget it: one past its last write, or one that has yet to insert its   *)
(* row and will find no other in its place.  A late one is outdated by the *)
(* next change.                                                            *)

ForgetPending ==
  \A s \in Services : session[s] /\ stands[s] = "outdated" =>
    \E a \in Admins :
      /\ Busy(a) /\ admin[a].service = s
      /\ \/ admin[a].at \in {"replaced", "written"}
         \/ admin[a].at = "revoked" /\ row[s] = NoRef

LEMMA InitForget == CallsInit => ForgetPending
BY DEF CallsInit, ForgetPending

LEMMA AdminStepForget ==
  ASSUME TypeInv, ForgetPending, NEW a \in Admins, AdminStep(a), TypeInv'
  PROVE  ForgetPending'
<1> USE NoRefAssumption DEF ForgetPending, TypeInv, CallsTypeOK, AdminsOK, PlacesFit,
        Records, Places, Idle, Busy, Is
<1>1. ASSUME NEW s \in Services, NEW what \in {"rotate", "delete"}, LookUp(a, s, what)
      PROVE  ForgetPending'
  BY <1>1 DEF LookUp, Start, shared
<1>2. ASSUME NEW r \in Refs, PutSecret(a, r)
      PROVE  ForgetPending'
  BY <1>2 DEF PutSecret, Start
<1>3. CASE RevokeOthers(a)
  BY <1>3 DEF RevokeOthers, Step, Outdate
<1>4. CASE InsertRow(a)
  BY <1>4 DEF InsertRow, Step, Outdate
<1>5. CASE InsertFails(a)
  BY <1>5 DEF InsertFails, shared, kept
<1>6. CASE DropPrevious(a) \/ DropSecret(a)
  BY <1>6 DEF DropPrevious, DropSecret, Step, kept
<1>7. CASE RevokeRow(a)
  BY <1>7 DEF RevokeRow, Step, Outdate
<1>8. ASSUME NEW s \in Services, WriteService(a, s)
      PROVE  ForgetPending'
  BY <1>8 DEF WriteService, Start, Outdate, shared
<1>9. CASE Finish(a)
  BY <1>9 DEF Finish, ForgetSession
<1>10. QED
  BY <1>1, <1>2, <1>3, <1>4, <1>5, <1>6, <1>7, <1>8, <1>9 DEF AdminStep

LEMMA ForgetStep ==
  TypeInv /\ TypeInv' /\ ForgetPending /\ [CallsNext]_allVars => ForgetPending'
<1> SUFFICES ASSUME TypeInv, TypeInv', ForgetPending, [CallsNext]_allVars
             PROVE  ForgetPending'
  OBVIOUS
<1>1. ASSUME UNCHANGED <<row, admin>>,
             \A s \in Services : stands'[s] = "outdated" =>
               stands[s] = "outdated" /\ session[s] = session'[s]
      PROVE  ForgetPending'
  BY <1>1 DEF ForgetPending, TypeInv, CallsTypeOK, Busy
<1>2. ASSUME NEW c \in Calls, CallStep(c) PROVE ForgetPending'
  BY <1>1, <1>2 DEF CallStep, Ask, ReadRow, Send, HeadersArrive, Answered, Failed,
       LeftUncounted, Leave, ForgetIfOpen, StoreSession, ForgetSession, shared, kept,
       TypeInv, CallsTypeOK
<1>3. ASSUME NEW s \in Services, ServiceStep(s) PROVE ForgetPending'
  BY <1>1, <1>3 DEF ServiceStep, Lapse, OtherAnswered, ProbeAnswered, ProbeFailed,
       ForgetIfOpen, StoreSession, ForgetSession, shared, kept, TypeInv, CallsTypeOK
<1>4. CASE Pass \/ UNCHANGED allVars
  BY <1>1, <1>4 DEF Pass, allVars, shared, kept
<1>5. QED  BY <1>2, <1>3, <1>4, AdminStepForget DEF CallsNext

\* No session id that was stored before a change of endpoint or credential
\* outlives the change: only an answer to a request prepared before it can bring
\* an old id back.
THEOREM ChangesEndSessions == CallsSpec => []ChangeEndsSession
<1>1. ForgetPending => ChangeEndsSession
  BY DEF ForgetPending, ChangeEndsSession
<1>2. QED
  BY <1>1, InitForget, ForgetStep, TypesHold, PTL DEF CallsSpec

=============================================================================
