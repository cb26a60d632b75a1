--------------------------- MODULE DownstreamCalls ---------------------------
(***************************************************************************)
(* The three things a tools/call over http takes from shared memory on its *)
(* way to a service, while administrators change them: the circuit breaker *)
(* (module CircuitBreaker), the service's credential, whose row is in the  *)
(* database and whose secret is in the vault (api/services.py,             *)
(* db/repository_credentials.py, credentials/vault.py), and the session id *)
(* that the service gave an earlier request (mcp/session_proxy.py).  Every *)
(* database call is a point where another request runs; the vault is read  *)
(* and written without one.                                                *)
(***************************************************************************)
EXTENDS CircuitBreaker

CONSTANTS
  Admins,  \* administrators' requests on services that may run at a time
  Refs,    \* bound: the secret_refs vault.put can give out
  NoRef,   \* no credential row, no secret in the request's headers
  Headers  \* the secret_refs whose row gives a header that is forwarded: a
           \* bearer token, or an api_key_header of a name let through

ASSUME NoRefAssumption == NoRef \notin Refs
ASSUME HeadersAssumption == Headers \subseteq Refs

VARIABLES
  phase,    \* per call: idle, asked, found, sent, streaming
  carried,  \* per call: secret_ref of the row it read, then of what it sends
  row,      \* per service: secret_ref of its active row of service_credentials
  vault,    \* the secret_refs whose secret the vault holds
  session,  \* per service: is there a downstream session id
  admin,    \* per admin request: what it does, to which service, how far it is
  given,    \* history: the secret_refs given out
  stands,   \* history, per service: how its session id stands to the last
            \* change of endpoint or credential: fresh, stored since by what
            \* was sent since; outdated, stored before it; late, stored since
            \* by the answer to a request prepared before it
  behind,   \* history, per call: what it took along has changed since
  changed,  \* history: the services whose endpoint or credential ever changed
  calm      \* history, per call: its service's credential was left alone
            \* from the moment the call was let through

shared     == <<row, vault, session>>
kept       == <<given, stands, behind, changed, calm>>
breakerVars == <<now, entry, target, history>>
allVars    == <<breakerVars, phase, carried, shared, admin, kept>>

Idle == [does |-> "nothing", at |-> "start", ref |-> NoRef, seen |-> NoRef]
Busy(a) == admin[a].does # "nothing"

CallsTypeOK ==
  /\ TypeOK
  /\ phase \in [Calls -> {"idle", "asked", "found", "sent", "streaming"}]
  /\ carried \in [Calls -> Refs \cup {NoRef}]
  /\ row \in [Services -> Refs \cup {NoRef}]
  /\ vault \subseteq given
  /\ given \subseteq Refs
  /\ session \in [Services -> BOOLEAN]
  /\ stands \in [Services -> {"fresh", "outdated", "late"}]
  /\ behind \in [Calls -> BOOLEAN]
  /\ changed \subseteq Services
  /\ calm \in [Calls -> BOOLEAN]
  /\ \A a \in Admins : Busy(a) => admin[a].service \in Services
  /\ \A c \in Calls : phase[c] = "idle" <=> target[c] = NoService

CallsInit ==
  /\ Init
  /\ phase = [c \in Calls |-> "idle"]
  /\ carried = [c \in Calls |-> NoRef]
  /\ row = [s \in Services |-> NoRef]
  /\ vault = {}
  /\ session = [s \in Services |-> FALSE]
  /\ admin = [a \in Admins |-> Idle]
  /\ given = {}
  /\ stands = [s \in Services |-> "fresh"]
  /\ behind = [c \in Calls |-> FALSE]
  /\ changed = {}
  /\ calm = [c \in Calls |-> TRUE]

-----------------------------------------------------------------------------
(* Sessions.                                                               *)

\* set_downstream_session, by the callback of a request that was answered: it
\* does not ask whether the service changed since the request was prepared
StoreSession(s, old) ==
  /\ session' = [session EXCEPT ![s] = TRUE]
  /\ stands' = [stands EXCEPT ![s] = IF old THEN "late" ELSE "fresh"]

\* forget_downstream_session
ForgetSession(s) ==
  /\ session' = [session EXCEPT ![s] = FALSE]
  /\ stands' = [stands EXCEPT ![s] = "fresh"]

\* the id's time is over: popped by the next read of it or by the reaper
Lapse(s) ==
  /\ session[s]
  /\ ForgetSession(s)
  /\ UNCHANGED <<breakerVars, phase, carried, row, vault, admin, given, behind,
                 changed, calm>>

\* the endpoint or the credential changes, under calls that took the old one
\* along: the endpoint with the service's row, the credential later
Outdate(s, prepared) ==
  /\ stands' = [stands EXCEPT ![s] = IF session[s] THEN "outdated" ELSE "fresh"]
  /\ behind' = [c \in Calls |->
       behind[c] \/ (target[c] = s /\ phase[c] \in prepared)]
  /\ changed' = changed \cup {s}

HasCredential == {"found", "sent", "streaming"}
HasEndpoint   == {"asked"} \cup HasCredential

-----------------------------------------------------------------------------
(* Calls.                                                                  *)

Ask(c, s) ==
  /\ Dispatch(c, s)
  /\ phase' = [phase EXCEPT ![c] = "asked"]
  /\ carried' = [carried EXCEPT ![c] = NoRef]
  /\ calm' = [calm EXCEPT ![c] =
       \A a \in Admins : Busy(a) => admin[a].service # s]
  /\ behind' = [behind EXCEPT ![c] = FALSE]
  /\ UNCHANGED <<shared, admin, given, stands, changed>>

\* get_service_credential reads the active row
ReadRow(c) ==
  /\ phase[c] = "asked"
  /\ phase' = [phase EXCEPT ![c] = "found"]
  /\ carried' = [carried EXCEPT ![c] = row[target[c]]]
  /\ UNCHANGED <<breakerVars, shared, admin, kept>>

\* vault.get, the session id, and the request goes out; a row whose secret is
\* gone gives no header, nor does one of another credential_type or without a
\* header_name, and a header of a name not let through is left off
Send(c) ==
  /\ phase[c] = "found"
  /\ phase' = [phase EXCEPT ![c] = "sent"]
  /\ carried' = [carried EXCEPT ![c] = IF @ \in vault \cap Headers THEN @ ELSE NoRef]
  /\ UNCHANGED <<breakerVars, shared, admin, kept>>

\* the response's headers arrive, with a session id or without one
HeadersArrive(c) ==
  /\ phase[c] = "sent"
  /\ phase' = [phase EXCEPT ![c] = "streaming"]
  /\ \/ StoreSession(target[c], behind[c])
     \/ UNCHANGED <<session, stands>>
  /\ UNCHANGED <<breakerVars, carried, row, vault, admin, given, behind,
                 changed, calm>>

Leave(c) ==
  /\ phase' = [phase EXCEPT ![c] = "idle"]
  /\ carried' = [carried EXCEPT ![c] = NoRef]
  /\ calm' = [calm EXCEPT ![c] = TRUE]
  /\ behind' = [behind EXCEPT ![c] = FALSE]
  /\ UNCHANGED <<row, vault, admin, given, changed>>

\* the body is a result or the tool's error
Answered(c) ==
  /\ phase[c] = "streaming"
  /\ Succeed(c)
  /\ Leave(c)
  /\ UNCHANGED <<session, stands>>

\* _record_downstream_failure: an open circuit forgets the session
ForgetIfOpen(s) ==
  IF state'[s] = "open" THEN ForgetSession(s)
  ELSE UNCHANGED <<session, stands>>

\* an error status, a timeout, or a body that is no answer
Failed(c) ==
  /\ phase[c] \in {"sent", "streaming"}
  /\ Fail(c)
  /\ ForgetIfOpen(target[c])
  /\ Leave(c)

\* the URL is refused before the request or at a redirect, or the connection
\* breaks while the body is read, which no handler expects
LeftUncounted(c) ==
  /\ phase[c] \in {"asked", "found", "sent", "streaming"}
  /\ Abandon(c)
  /\ Leave(c)
  /\ UNCHANGED <<session, stands>>

-----------------------------------------------------------------------------
(* Requests outside the breaker's gate: probes, validations, resources and *)
(* prompts.                                                                *)

\* one of them is answered, with a session id; old: it was prepared before the
\* service last changed
OtherAnswered(s, old) ==
  /\ old => s \in changed
  /\ StoreSession(s, old)
  /\ UNCHANGED <<breakerVars, phase, carried, row, vault, admin, given, behind,
                 changed, calm>>

\* a probe's answer; the probe has no session
ProbeAnswered(s) ==
  /\ ProbeSucceeds(s)
  /\ UNCHANGED <<phase, carried, shared, admin, kept>>

ProbeFailed(s) ==
  /\ ProbeFails(s)
  /\ ForgetIfOpen(s)
  /\ UNCHANGED <<phase, carried, row, vault, admin, given, behind, changed,
                 calm>>

-----------------------------------------------------------------------------
(* Administrators.                                                         *)

Step(a, place) == admin' = [admin EXCEPT ![a].at = place]
Is(a, what, place) == admin[a].does \in what /\ admin[a].at = place

\* the request runs up to its first wait
Start(a, s, what, place, r, seen) ==
  /\ ~Busy(a)
  /\ admin' = [admin EXCEPT ![a] =
       [does |-> what, service |-> s, at |-> place, ref |-> r, seen |-> seen]]
  /\ calm' = [c \in Calls |-> calm[c] /\ target[c] # s]

\* rotate and delete first read the active row
LookUp(a, s, what) ==
  /\ Start(a, s, what, "begun", NoRef, row[s])
  /\ UNCHANGED <<breakerVars, phase, carried, shared, given, stands, behind,
                 changed>>

\* vault.put: the secret is in the vault before a row names it
PutSecret(a, r) ==
  /\ r \notin given
  /\ \/ \E s \in Services : Start(a, s, "put", "stored", r, NoRef)
     \/ /\ Is(a, {"rotate"}, "begun")
        /\ admin' = [admin EXCEPT ![a].at = "stored", ![a].ref = r]
        /\ UNCHANGED calm
  /\ vault' = vault \cup {r}
  /\ given' = given \cup {r}
  /\ UNCHANGED <<breakerVars, phase, carried, row, session, stands,
                 behind, changed>>

\* upsert_service_credential revokes what is active ...
RevokeOthers(a) ==
  /\ Is(a, {"put", "rotate"}, "stored")
  /\ row' = [row EXCEPT ![admin[a].service] = NoRef]
  /\ Outdate(admin[a].service, HasCredential)
  /\ Step(a, "revoked")
  /\ UNCHANGED <<breakerVars, phase, carried, vault, session, given, calm>>

\* ... and inserts its own
InsertRow(a) ==
  /\ Is(a, {"put", "rotate"}, "revoked")
  /\ row[admin[a].service] = NoRef
  /\ row' = [row EXCEPT ![admin[a].service] = admin[a].ref]
  /\ Outdate(admin[a].service, HasCredential)
  /\ Step(a, IF admin[a].does = "rotate" THEN "replaced" ELSE "written")
  /\ UNCHANGED <<breakerVars, phase, carried, vault, session, given, calm>>

\* another request's row is active by now: the unique index refuses this one
\* and the request ends there, its secret in the vault
InsertFails(a) ==
  /\ Is(a, {"put", "rotate"}, "revoked")
  /\ row[admin[a].service] # NoRef
  /\ admin' = [admin EXCEPT ![a] = Idle]
  /\ UNCHANGED <<breakerVars, phase, carried, shared, kept>>

\* mistake: rotate drops the secret that the active row names
DropActive(a) ==
  /\ Is(a, {"rotate"}, "replaced")
  /\ vault' = vault \ {row[admin[a].service]}
  /\ Step(a, "written")
  /\ UNCHANGED <<breakerVars, phase, carried, row, session, kept>>

\* rotate drops the secret it replaced
DropPrevious(a) ==
  /\ Is(a, {"rotate"}, "replaced")
  /\ vault' = vault \ {admin[a].seen}
  /\ Step(a, "written")
  /\ UNCHANGED <<breakerVars, phase, carried, row, session, kept>>

\* delete drops the secret before it revokes the row
DropSecret(a) ==
  /\ Is(a, {"delete"}, "begun")
  /\ vault' = vault \ {admin[a].seen}
  /\ Step(a, "dropped")
  /\ UNCHANGED <<breakerVars, phase, carried, row, session, kept>>

RevokeRow(a) ==
  /\ Is(a, {"delete"}, "dropped")
  /\ row' = [row EXCEPT ![admin[a].service] = NoRef]
  /\ Outdate(admin[a].service, HasCredential)
  /\ Step(a, "written")
  /\ UNCHANGED <<breakerVars, phase, carried, vault, session, given, calm>>

\* patch_service and delete_service write the service's row
WriteService(a, s) ==
  /\ Start(a, s, "patch", "written", NoRef, NoRef)
  /\ Outdate(s, HasEndpoint)
  /\ UNCHANGED <<breakerVars, phase, carried, shared, given>>

\* mistake: the session survives a put
FinishWithoutForget(a) ==
  /\ admin[a].at = "written"
  /\ admin' = [admin EXCEPT ![a] = Idle]
  /\ IF admin[a].does = "put" THEN UNCHANGED <<session, stands>>
     ELSE ForgetSession(admin[a].service)
  /\ UNCHANGED <<breakerVars, phase, carried, row, vault, given, behind,
                 changed, calm>>

\* after its last write the request forgets the session
Finish(a) ==
  /\ admin[a].at = "written"
  /\ admin' = [admin EXCEPT ![a] = Idle]
  /\ ForgetSession(admin[a].service)
  /\ UNCHANGED <<breakerVars, phase, carried, row, vault, given, behind,
                 changed, calm>>

-----------------------------------------------------------------------------

Pass == Tick /\ UNCHANGED <<phase, carried, shared, admin, kept>>

CallStep(c) ==
  \/ \E s \in Services : Ask(c, s)
  \/ ReadRow(c)
  \/ Send(c)
  \/ HeadersArrive(c)
  \/ Answered(c)
  \/ Failed(c)
  \/ LeftUncounted(c)

ServiceStep(s) ==
  \/ Lapse(s)
  \/ \E old \in BOOLEAN : OtherAnswered(s, old)
  \/ ProbeAnswered(s)
  \/ ProbeFailed(s)

AdminStep(a) ==
  \/ \E s \in Services, what \in {"rotate", "delete"} : LookUp(a, s, what)
  \/ \E r \in Refs : PutSecret(a, r)
  \/ RevokeOthers(a)
  \/ InsertRow(a)
  \/ InsertFails(a)
  \/ DropPrevious(a)
  \/ DropSecret(a)
  \/ RevokeRow(a)
  \/ \E s \in Services : WriteService(a, s)
  \/ Finish(a)

CallsNext ==
  \/ \E c \in Calls : CallStep(c)
  \/ \E s \in Services : ServiceStep(s)
  \/ \E a \in Admins : AdminStep(a)
  \/ Pass

CallsSpec == CallsInit /\ [][CallsNext]_allVars

-----------------------------------------------------------------------------

\* An active credential row names a secret that is in the vault, whatever put,
\* rotate and delete requests overlap: the only exception is a delete that has
\* dropped the secret and not yet revoked the row (services.py:254-257).
SecretBehindRow ==
  \A s \in Services :
    row[s] \in vault \cup {NoRef}
    \/ \E a \in Admins : /\ Is(a, {"delete"}, "dropped")
                         /\ admin[a].seen = row[s]

\* A session id stored before the service's endpoint or credential changed does
\* not outlive the change: it is there only while the request that made the
\* change has yet to forget it.  An overlapping put whose INSERT fails forgets
\* nothing and leaves that to the request it lost to (services.py:206, 238, 260;
\* services_crud.py:278, 288).  What the change does not end is the session of a
\* request that was prepared before it and is answered after it: its id is
\* stored then, stands as "late", and is used until the next change, failure or
\* expiry (downstream.py:121-123, session_proxy.py:34-44).
ChangeEndsSession ==
  \A s \in Services :
    session[s] /\ stands[s] = "outdated" =>
      \E a \in Admins : /\ Busy(a)
                        /\ admin[a].service = s
                        /\ admin[a].at \in {"revoked", "replaced", "written"}

\* A call whose service's credential nobody touches on its way carries the
\* secret of the active row when that row gives a header that is forwarded, and
\* no secret at all when it does not: of another type, without a header_name,
\* or of a name other than authorization, x-api-key and idempotency-key
\* (main.py:419-432, downstream.py:86-92, tools_handlers.py:626).
CalmCallCarriesSecret ==
  \A c \in Calls :
    phase[c] \in {"sent", "streaming"} /\ calm[c] =>
      carried[c] = IF row[target[c]] \in Headers THEN row[target[c]] ELSE NoRef

=============================================================================
