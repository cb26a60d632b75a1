----------------------------- MODULE ToolGateway -----------------------------
(***************************************************************************)
(* tools/list and tools/call (mcp/tools_handlers.py) with what they read:  *)
(* the catalog in the database, the registry that copies it into memory    *)
(* and the cache of idempotent replies; and what changes the catalog: the  *)
(* admin requests, which then invalidate both copies (api/services.py,     *)
(* api/toolboxes.py, api/services_crud.py, _publish_list_changed in        *)
(* main.py), and the health probe, which does not.                         *)
(*                                                                         *)
(* A handler runs on the event loop from one await to the next, and every  *)
(* such piece is one action.  All statements go through one database       *)
(* connection, which runs them in the order they were issued and hands     *)
(* the replies back in that order, so a statement and the piece of handler *)
(* that its reply resumes are one action too, the turn of the actor at the *)
(* head of the queue db.                                                   *)
(***************************************************************************)
EXTENDS Naturals, Sequences, FiniteSets

CONSTANTS
  Calls,        \* tools/call requests
  Lists,        \* tools/list requests
  Admins,       \* admin requests, validations, probes: they change the catalog
  Misdirected,  \* those that name an item of another toolbox than theirs
  Probes,       \* those that are health probes which found a service well
  Tools, Services, Keys, Ids,
  ServiceOf,    \* the service of a tool
  ToolOf,       \* the tool a call names
  KeyOf,        \* its Idempotency-Key, or None
  IdOf,         \* its JSON-RPC id
  None

ASSUME RequestsAssumption ==
  /\ Calls \cap Lists = {}
  /\ (Calls \cup Lists) \cap Admins = {}
  /\ Misdirected \cup Probes \subseteq Admins
ASSUME NoneAssumption == None \notin Calls \cup Keys
ASSUME CallsAssumption ==
  /\ ServiceOf \in [Tools -> Services]
  /\ ToolOf \in [Calls -> Tools]
  /\ KeyOf \in [Calls -> Keys \cup {None}]
  /\ IdOf \in [Calls -> Ids]

VARIABLES
  attached,   \* services whose toolbox item is enabled
  status,     \* status of each service
  override,   \* permission level of each tool; a disabled one counts as hidden
  registry,   \* app.state.tool_registry: the level it holds, or "absent"
  cache,      \* app.state.idempotency_cache: the call whose reply it holds
  inflight,   \* app.state.inflight_downstream_calls
  db,         \* those who wait for the database, in order
  pc,         \* where each request is
  rows,       \* the catalog as the request read it, until it stored it
  result,     \* how a request ended
  job,        \* where each admin request is
  touched,    \* tools whose catalog entry an admin request has written
  dirty,      \* history: tools changed since the copies were last cleared
  late,       \* history: tools no longer callable when a reply was cached
  steady,     \* history: calls whose tool stayed in the catalog, until found
  disturbed,  \* history: those of them that lost the registry they had set
  overlapped  \* history: calls during which another one under their JSON-RPC
              \* id was sent or ended

catalogVars == <<attached, status, override>>
copyVars    == <<registry, cache>>
entries     == <<inflight, overlapped>>
callVars    == <<pc, rows, result>>
adminVars   == <<job, touched>>
staleVars   == <<dirty, late>>
seenVars    == <<steady, disturbed>>
vars == <<catalogVars, copyVars, entries, db, callVars, adminVars, staleVars,
          seenVars>>

Requests == Calls \cup Lists
Levels   == {"callable", "visible_only", "hidden"}
Entries  == Levels \cup {"absent"}
Statuses == {"active", "validating", "error", "disabled"}
Offered  == {"active", "validating"}

TypeOK ==
  /\ attached \subseteq Services
  /\ status \in [Services -> Statuses]
  /\ override \in [Tools -> Levels]
  /\ registry \in [Tools -> Entries]
  /\ cache \in [Tools -> [Keys -> Calls \cup {None}]]
  /\ inflight \in [Ids -> Calls \cup {None}]
  /\ db \in Seq(Requests \cup Admins)
  /\ pc \in [Requests -> {"idle", "reading", "fetching", "falling", "rechecking",
                          "permitted", "sent", "overdue", "answered", "done"}]
  /\ rows \in [Requests -> [Tools -> Entries]]
  /\ result \in [Requests -> {"none", "ok", "replayed", "unknown", "denied",
                              "refused", "failed", "broken"}]
  /\ job \in [Admins -> {"idle", "writing", "overridden", "validating", "asking",
                          "broken", "written", "finishing", "done"}]
  /\ touched \in [Admins -> SUBSET Tools]
  /\ dirty \subseteq Tools
  /\ late \subseteq Tools
  /\ steady \subseteq Calls
  /\ disturbed \subseteq Calls
  /\ overlapped \subseteq Calls

\* what get_catalog_tools returns for the toolbox
CatalogOf(items, states, levels) ==
  [t \in Tools |-> IF ServiceOf[t] \in items /\ states[ServiceOf[t]] \in Offered
                   THEN levels[t] ELSE "absent"]

Catalog     == CatalogOf(attached, status, override)
Nothing     == [t \in Tools |-> "absent"]
NoReplies   == [t \in Tools |-> [k \in Keys |-> None]]
ToolsOf(s)  == {t \in Tools : ServiceOf[t] = s}

Init ==
  /\ attached = Services
  /\ status = [s \in Services |-> "active"]
  /\ override = [t \in Tools |-> "callable"]
  /\ registry = Nothing
  /\ cache = NoReplies
  /\ inflight = [i \in Ids |-> None]
  /\ db = <<>>
  /\ pc = [r \in Requests |-> "idle"]
  /\ rows = [r \in Requests |-> Nothing]
  /\ result = [r \in Requests |-> "none"]
  /\ job = [a \in Admins |-> "idle"]
  /\ touched = [a \in Admins |-> {}]
  /\ dirty = {}
  /\ late = {}
  /\ steady = {}
  /\ disturbed = {}
  /\ overlapped = {}

-----------------------------------------------------------------------------
(* The database connection.                                                *)

Ask(x)      == db' = Append(db, x)
Turn(x)     == db # <<>> /\ Head(db) = x
AskAgain(x) == db' = Append(Tail(db), x)
LastReply   == db' = Tail(db)

-----------------------------------------------------------------------------
(* The steps of a request: first refresh_tools, which both kinds run.      *)

Finish(r, how) ==
  /\ pc' = [pc EXCEPT ![r] = "done"]
  /\ result' = [result EXCEPT ![r] = how]

Select(r) ==
  /\ pc[r] = "reading"
  /\ Turn(r)
  /\ AskAgain(r)
  /\ rows' = [rows EXCEPT ![r] = Catalog]
  /\ pc' = [pc EXCEPT ![r] = "fetching"]
  /\ UNCHANGED <<catalogVars, copyVars, entries, result, adminVars, staleVars,
                 seenVars>>

\* the registry becomes new; calls about to look it up again lose theirs
ReplaceRegistry(new) ==
  /\ registry' = new
  /\ disturbed' = disturbed \cup {c \in steady : pc[c] = "rechecking"}

\* mistake: the rows are returned and not stored
ReturnRows(r) ==
  /\ pc[r] = "fetching"
  /\ rows[r] # Nothing
  /\ Turn(r)
  /\ AskAgain(r)
  /\ pc' = [pc EXCEPT ![r] = "rechecking"]
  /\ rows' = [rows EXCEPT ![r] = Nothing]
  /\ UNCHANGED <<catalogVars, copyVars, entries, result, adminVars, staleVars,
                 seenVars>>

\* the rows are stored; the services that are unavailable are still to be read
SetRegistry(r) ==
  /\ pc[r] = "fetching"
  /\ rows[r] # Nothing
  /\ Turn(r)
  /\ AskAgain(r)
  /\ ReplaceRegistry(rows[r])
  /\ pc' = [pc EXCEPT ![r] = "rechecking"]
  /\ rows' = [rows EXCEPT ![r] = Nothing]
  /\ UNCHANGED <<catalogVars, cache, entries, result, adminVars, staleVars, steady>>

\* with no tools at all the demo server is asked instead
FallBack(r) ==
  /\ pc[r] = "fetching"
  /\ rows[r] = Nothing
  /\ Turn(r)
  /\ LastReply
  /\ pc' = [pc EXCEPT ![r] = "falling"]
  /\ UNCHANGED <<catalogVars, copyVars, entries, rows, result, adminVars,
                 staleVars, seenVars>>

\* the demo server's tools replace the registry; no name in Tools is theirs
SetFallback(r) ==
  /\ pc[r] = "falling"
  /\ ReplaceRegistry(Nothing)
  /\ Finish(r, IF r \in Calls THEN "unknown" ELSE "ok")
  /\ UNCHANGED <<catalogVars, cache, entries, db, rows, adminVars, staleVars, steady>>

FallbackFails(r) ==
  /\ pc[r] = "falling"
  /\ Finish(r, "failed")
  /\ UNCHANGED <<catalogVars, copyVars, entries, db, rows, adminVars, staleVars,
                 seenVars>>

BeginList(l) ==
  /\ pc[l] = "idle"
  /\ Ask(l)
  /\ pc' = [pc EXCEPT ![l] = "reading"]
  /\ UNCHANGED <<catalogVars, copyVars, entries, rows, result, adminVars,
                 staleVars, seenVars>>

Listed(l) ==
  /\ pc[l] = "rechecking"
  /\ Turn(l)
  /\ LastReply
  /\ Finish(l, "ok")
  /\ UNCHANGED <<catalogVars, copyVars, entries, rows, adminVars, staleVars, seenVars>>

-----------------------------------------------------------------------------
(* handle_tools_call.                                                      *)

Reply(c) == IF KeyOf[c] = None THEN None ELSE cache[ToolOf[c]][KeyOf[c]]

\* a cached reply is served before the tool is even looked up
Replay(c) ==
  /\ pc[c] = "idle"
  /\ Reply(c) # None
  /\ Finish(c, "replayed")
  /\ UNCHANGED <<catalogVars, copyVars, entries, db, rows, adminVars, staleVars,
                 seenVars>>

\* the registry has no such tool: read the catalog again
Miss(c) ==
  /\ pc[c] = "idle"
  /\ Reply(c) = None
  /\ registry[ToolOf[c]] = "absent"
  /\ Ask(c)
  /\ pc' = [pc EXCEPT ![c] = "reading"]
  /\ steady' = IF Catalog[ToolOf[c]] = "absent" THEN steady ELSE steady \cup {c}
  /\ UNCHANGED <<catalogVars, copyVars, entries, rows, result, adminVars,
                 staleVars, disturbed>>

\* c looks its tool up: at once, or after its refresh
Routes(c) ==
  \/ /\ pc[c] = "idle"
     /\ Reply(c) = None
     /\ registry[ToolOf[c]] # "absent"
     /\ UNCHANGED db
  \/ /\ pc[c] = "rechecking"
     /\ Turn(c)
     /\ LastReply

Found(c) ==
  /\ steady' = steady \ {c}
  /\ disturbed' = disturbed \ {c}

\* mistake: a tool that may only be seen may also be called
PermitVisible(c) ==
  /\ Routes(c)
  /\ registry[ToolOf[c]] \in {"callable", "visible_only"}
  /\ Found(c)
  /\ pc' = [pc EXCEPT ![c] = "permitted"]
  /\ UNCHANGED <<catalogVars, copyVars, entries, rows, result, adminVars, staleVars>>

Permit(c) ==
  /\ Routes(c)
  /\ registry[ToolOf[c]] = "callable"
  /\ Found(c)
  /\ pc' = [pc EXCEPT ![c] = "permitted"]
  /\ UNCHANGED <<catalogVars, copyVars, entries, rows, result, adminVars, staleVars>>

Deny(c) ==
  /\ Routes(c)
  /\ registry[ToolOf[c]] \in {"visible_only", "hidden"}
  /\ Found(c)
  /\ Finish(c, "denied")
  /\ UNCHANGED <<catalogVars, copyVars, entries, rows, adminVars, staleVars>>

Unknown(c) ==
  /\ Routes(c)
  /\ registry[ToolOf[c]] = "absent"
  /\ Finish(c, "unknown")
  /\ UNCHANGED <<catalogVars, copyVars, entries, rows, adminVars, staleVars, seenVars>>

\* bad arguments, a plugin, the service's rate limit, an open circuit
Refuse(c) ==
  /\ pc[c] = "permitted"
  /\ Finish(c, "refused")
  /\ UNCHANGED <<catalogVars, copyVars, entries, db, rows, adminVars, staleVars,
                 seenVars>>

\* clients choose the ids, and the table is keyed by them
SharersOf(c) == {d \in Calls \ {c} : IdOf[d] = IdOf[c] /\ pc[d] = "sent"}

Drop(c) == inflight' = [inflight EXCEPT ![IdOf[c]] = None]

\* the entry of c's id goes, whoever put it there
Pop(c) ==
  /\ Drop(c)
  /\ overlapped' = overlapped \cup SharersOf(c)

\* no client for the service, or an unsafe URL: the call was not yet entered
Unreachable(c) ==
  /\ pc[c] = "permitted"
  /\ Pop(c)
  /\ Finish(c, "refused")
  /\ UNCHANGED <<catalogVars, copyVars, db, rows, adminVars, staleVars, seenVars>>

\* mistake: the call is not entered in inflight_downstream_calls
SendUnrecorded(c) ==
  /\ pc[c] = "permitted"
  /\ pc' = [pc EXCEPT ![c] = "sent"]
  /\ UNCHANGED <<catalogVars, copyVars, entries, db, rows, result, adminVars,
                 staleVars, seenVars>>

Send(c) ==
  /\ pc[c] = "permitted"
  /\ inflight' = [inflight EXCEPT ![IdOf[c]] = c]
  /\ overlapped' = overlapped \cup SharersOf(c)
  /\ pc' = [pc EXCEPT ![c] = "sent"]
  /\ UNCHANGED <<catalogVars, copyVars, db, rows, result, adminVars, staleVars,
                 seenVars>>

\* the service has the request, and a call may outlive its entry
Running == {"sent", "overdue"}

\* a result, or an error of the tool's own: both will be cached
Answered(c) ==
  /\ pc[c] \in Running
  /\ Pop(c)
  /\ pc' = [pc EXCEPT ![c] = "answered"]
  /\ UNCHANGED <<catalogVars, copyVars, db, rows, result, adminVars, staleVars,
                 seenVars>>

\* mistake: a call that fails leaves its entry behind
FailedUnpopped(c) ==
  /\ pc[c] \in Running
  /\ Finish(c, "failed")
  /\ UNCHANGED <<catalogVars, copyVars, entries, db, rows, adminVars, staleVars,
                 seenVars>>

\* a timeout or an error of the transport: not cached
Failed(c) ==
  /\ pc[c] \in Running
  /\ Pop(c)
  /\ Finish(c, "failed")
  /\ UNCHANGED <<catalogVars, copyVars, db, rows, adminVars, staleVars, seenVars>>

\* the connection fails while the body is read: the exception is none of those
\* the handler catches, and the entry stays
Escape(c) ==
  /\ pc[c] \in Running
  /\ Finish(c, "broken")
  /\ UNCHANGED <<catalogVars, copyVars, entries, db, rows, adminVars, staleVars,
                 seenVars>>

\* the reaper drops the entry of a call that has run for twice its timeout,
\* as one whose response streams can
ReapRunning(c) ==
  /\ pc[c] = "sent"
  /\ inflight[IdOf[c]] = c
  /\ Drop(c)
  /\ pc' = [pc EXCEPT ![c] = "overdue"]
  /\ UNCHANGED <<catalogVars, copyVars, overlapped, db, rows, result, adminVars,
                 staleVars, seenVars>>

\* and the entry that a call left behind
ReapBroken(c) ==
  /\ result[c] = "broken"
  /\ inflight[IdOf[c]] = c
  /\ Drop(c)
  /\ UNCHANGED <<catalogVars, copyVars, overlapped, db, callVars, adminVars, staleVars,
                 seenVars>>

\* the plugins reject the result
Withheld(c) ==
  /\ pc[c] = "answered"
  /\ Finish(c, "failed")
  /\ UNCHANGED <<catalogVars, copyVars, entries, db, rows, adminVars, staleVars,
                 seenVars>>

\* after the awaits of the plugins and of the invocation log
Store(c) ==
  /\ pc[c] = "answered"
  /\ IF KeyOf[c] = None
     THEN UNCHANGED <<cache, late>>
     ELSE /\ cache' = [cache EXCEPT ![ToolOf[c]][KeyOf[c]] = c]
          /\ late' = IF Catalog[ToolOf[c]] = "callable" THEN late
                     ELSE late \cup {ToolOf[c]}
  /\ Finish(c, "ok")
  /\ UNCHANGED <<catalogVars, registry, entries, db, rows, adminVars, dirty, seenVars>>

\* a reply is older than the TTL, or one of more than the cache holds
Expire(t, k) ==
  /\ cache[t][k] # None
  /\ cache' = [cache EXCEPT ![t][k] = None]
  /\ UNCHANGED <<catalogVars, registry, entries, db, callVars, adminVars,
                 staleVars, seenVars>>

-----------------------------------------------------------------------------
(* The catalog changes.                                                    *)

BeginAdmin(a) ==
  /\ job[a] = "idle"
  /\ Ask(a)
  /\ job' = [job EXCEPT ![a] = "writing"]
  /\ UNCHANGED <<catalogVars, copyVars, entries, callVars, touched, staleVars,
                 seenVars>>

Write(items, states, levels) ==
  LET new == CatalogOf(items, states, levels)
  IN /\ attached' = items
     /\ status' = states
     /\ override' = levels
     /\ dirty' = dirty \cup {t \in Tools : new[t] # Catalog[t]}
     /\ steady' = {c \in steady : new[ToolOf[c]] # "absent"}

\* the statement of a that writes the entries of these tools
Written(a, tools, next) ==
  /\ job[a] = "writing"
  /\ a \notin Misdirected \cup Probes
  /\ Turn(a)
  /\ AskAgain(a)
  /\ job' = [job EXCEPT ![a] = next]
  /\ touched' = [touched EXCEPT ![a] = @ \cup tools]
  /\ UNCHANGED <<copyVars, entries, callVars, late, disturbed>>

\* an override, or one of those of a preset
SetOverride(a, t, level) ==
  /\ t \notin touched[a]
  /\ touched[a] \subseteq ToolsOf(ServiceOf[t])
  /\ Write(attached, status, [override EXCEPT ![t] = level])
  /\ Written(a, {t}, "overridden")

\* a preset goes on to the next tool of the service
NextOverride(a) ==
  /\ job[a] = "overridden"
  /\ \E t \in Tools \ touched[a] : touched[a] \subseteq ToolsOf(ServiceOf[t])
  /\ Turn(a)
  /\ AskAgain(a)
  /\ job' = [job EXCEPT ![a] = "writing"]
  /\ UNCHANGED <<catalogVars, copyVars, entries, callVars, touched, staleVars,
                 seenVars>>

Toggle(s) == IF s \in attached THEN attached \ {s} ELSE attached \cup {s}

\* a toolbox item is added, enabled, disabled or deleted
SetItem(a, s) ==
  /\ touched[a] = {}
  /\ Write(Toggle(s), status, override)
  /\ Written(a, ToolsOf(s), "written")

\* validate_service makes the service visible while it asks it for its tools
StartValidation(a, s) ==
  /\ touched[a] = {}
  /\ Write(attached, [status EXCEPT ![s] = "validating"], override)
  /\ Written(a, ToolsOf(s), "validating")

AskService(a) ==
  /\ job[a] = "validating"
  /\ Turn(a)
  /\ LastReply
  /\ job' = [job EXCEPT ![a] = "asking"]
  /\ UNCHANGED <<catalogVars, copyVars, entries, callVars, touched, staleVars,
                 seenVars>>

ServiceAnswered(a) ==
  /\ job[a] = "asking"
  /\ Ask(a)
  /\ job' = [job EXCEPT ![a] = "writing"]
  /\ UNCHANGED <<catalogVars, copyVars, entries, callVars, touched, staleVars,
                 seenVars>>

\* the connection fails while the body of an answer is read, or the answer's
\* tools cannot be stored: validate_service handles neither, and publishes
\* nothing
ValidationBreaks(a) ==
  /\ job[a] = "asking"
  /\ job' = [job EXCEPT ![a] = "broken"]
  /\ UNCHANGED <<catalogVars, copyVars, entries, db, callVars, touched, staleVars,
                 seenVars>>

\* the outcome of a validation, or a service is patched or deleted
SetStatus(a, s, new) ==
  /\ touched[a] = {} \/ (touched[a] = ToolsOf(s) /\ new \in {"active", "error"})
  /\ Write(attached, [status EXCEPT ![s] = new], override)
  /\ Written(a, ToolsOf(s), "written")

\* the last write is done.  What the request does before it publishes takes
\* any time: commit and read back, audit rows, closing the stdio client
FinishWriting(a) ==
  /\ job[a] \in {"overridden", "written"}
  /\ Turn(a)
  /\ LastReply
  /\ job' = [job EXCEPT ![a] = "finishing"]
  /\ UNCHANGED <<catalogVars, copyVars, entries, callVars, touched, staleVars,
                 seenVars>>

\* a ends with a change of the service's tools that it does not publish
EndUnpublished(a, s) ==
  /\ job[a] = "writing"
  /\ Turn(a)
  /\ LastReply
  /\ job' = [job EXCEPT ![a] = "done"]
  /\ touched' = [touched EXCEPT ![a] = ToolsOf(s)]
  /\ UNCHANGED <<copyVars, entries, callVars, late, disturbed>>

\* the item is changed before its toolbox is compared with the request's
PatchElsewhere(a, s) ==
  /\ a \in Misdirected
  /\ Write(Toggle(s), status, override)
  /\ EndUnpublished(a, s)

\* a probe that succeeds takes its service out of error
Recover(a, s) ==
  /\ a \in Probes
  /\ Write(attached, [status EXCEPT ![s] = IF @ = "error" THEN "active" ELSE @], override)
  /\ EndUnpublished(a, s)

\* mistake: only the cached replies are dropped
InvalidateReplies ==
  /\ cache' = NoReplies
  /\ dirty' = {}
  /\ late' = {}
  /\ UNCHANGED <<registry, disturbed>>

\* mistake: only the registry is emptied
InvalidateRegistry ==
  /\ ReplaceRegistry(Nothing)
  /\ dirty' = {}
  /\ late' = {}
  /\ UNCHANGED cache

Invalidate ==
  /\ ReplaceRegistry(Nothing)
  /\ cache' = NoReplies
  /\ dirty' = {}
  /\ late' = {}

\* mistake: the request ends without telling anybody
EndQuietly(a) ==
  /\ job[a] = "finishing"
  /\ job' = [job EXCEPT ![a] = "done"]
  /\ UNCHANGED <<catalogVars, copyVars, entries, db, callVars, touched, staleVars,
                 seenVars>>

Publish(a) ==
  /\ job[a] = "finishing"
  /\ Invalidate
  /\ job' = [job EXCEPT ![a] = "done"]
  /\ UNCHANGED <<catalogVars, entries, db, callVars, touched, steady>>

\* a downstream server notifies the gateway that its list changed
DownstreamListChanged ==
  /\ Invalidate
  /\ UNCHANGED <<catalogVars, entries, db, callVars, adminVars, steady>>

-----------------------------------------------------------------------------

RefreshStep(r) ==
  Select(r) \/ SetRegistry(r) \/ FallBack(r) \/ SetFallback(r) \/ FallbackFails(r)

ListStep(l) == BeginList(l) \/ RefreshStep(l) \/ Listed(l)

CallStep(c) ==
  \/ Replay(c) \/ Miss(c) \/ RefreshStep(c)
  \/ Permit(c) \/ Deny(c) \/ Unknown(c)
  \/ Refuse(c) \/ Unreachable(c) \/ Send(c)
  \/ Answered(c) \/ Failed(c) \/ Escape(c) \/ Withheld(c) \/ Store(c)
  \/ ReapRunning(c)

AdminStep(a) ==
  \/ BeginAdmin(a)
  \/ \E t \in Tools, level \in Levels : SetOverride(a, t, level)
  \/ NextOverride(a)
  \/ \E s \in Services :
       SetItem(a, s) \/ StartValidation(a, s) \/ PatchElsewhere(a, s) \/ Recover(a, s)
  \/ AskService(a) \/ ServiceAnswered(a) \/ ValidationBreaks(a)
  \/ \E s \in Services, new \in Statuses : SetStatus(a, s, new)
  \/ FinishWriting(a) \/ Publish(a)

Next ==
  \/ \E c \in Calls : CallStep(c) \/ ReapBroken(c)
  \/ \E l \in Lists : ListStep(l)
  \/ \E a \in Admins : AdminStep(a)
  \/ \E t \in Tools, k \in Keys : Expire(t, k)
  \/ DownstreamListChanged

Spec == Init /\ [][Next]_vars

(***************************************************************************)
(* The event loop runs every handler on; the database and the downstream   *)
(* server answer, the latter at the latest by its timeout, which does not  *)
(* cover the write to a stdio child: that one is taken to read its stdin   *)
(* or to die (StdioTransport).  Nobody has to send a request and no reply  *)
(* has to expire.                                                          *)
(***************************************************************************)
FairSpec ==
  /\ Spec
  /\ \A c \in Calls : WF_vars(pc[c] # "idle" /\ CallStep(c))
  /\ \A l \in Lists : WF_vars(pc[l] # "idle" /\ ListStep(l))
  /\ \A a \in Admins : WF_vars(job[a] # "idle" /\ AdminStep(a))

-----------------------------------------------------------------------------
(* Properties.                                                             *)

\* tools whose change its author has not published, or never will
Unpublished ==
  UNION {touched[a] : a \in {b \in Admins : job[b] # "done"} \cup Misdirected \cup Probes}

\* tools of services whose validation broke off
Abandoned == UNION {touched[a] : a \in {b \in Admins : job[b] = "broken"}}

\* The registry differs from the catalog for a tool only until whoever
\* changed the tool publishes the change: a refresh that read the catalog
\* before the change has stored it by then (the await before
\* set_tool_registry, against the awaits before _publish_list_changed).
RegistryIsCurrent ==
  \A t \in Tools : registry[t] \notin {"absent", Catalog[t]} => t \in Unpublished

\* Once a change that blocks a tool is published, no call gets past the
\* permission check, whether it found its tool in the registry at once or
\* refreshed the registry first.
BlockedIsDenied ==
  [][\A c \in Calls :
       pc[c] # "permitted" /\ pc'[c] = "permitted" =>
         Catalog[ToolOf[c]] = "callable" \/ ToolOf[c] \in Unpublished]_vars

\* A reply of a tool that may no longer be called is in the cache only until
\* the change is published, or because the call was still being answered when
\* it was (the awaits between the answer and idempotency_cache.set).
ReplyStaleOnlyByRace ==
  \A t \in Tools, k \in Keys :
    cache[t][k] # None /\ Catalog[t] # "callable" => t \in Unpublished \cup late

\* A call is told that its tool is unknown, though the catalog had it all
\* along, only if the registry was replaced between the call's own refresh
\* and its second look at it (the await that ends refresh_tools).
KnownToolIsFound ==
  \A c \in steady : result[c] = "unknown" => c \in disturbed

\* A cancellation finds the running call it is for, until the call has run
\* for twice its timeout (_forward_downstream_cancellation looks calls up by
\* their id) -- unless another call under the same id, which two clients may
\* choose, was sent or ended meanwhile: it overwrites or pops the entry
\* (tools_handlers.py:599-605).  Nothing else takes an entry away.
CancelFindsItsCall ==
  \A c \in Calls : pc[c] = "sent" => inflight[IdOf[c]] = c \/ c \in overlapped

\* A call that is over leaves no entry behind for a cancellation to find,
\* except one that broke off in the body of its response.
InflightIsRunning ==
  \A i \in Ids : inflight[i] # None =>
    /\ IdOf[inflight[i]] = i
    /\ pc[inflight[i]] = "sent" \/ result[inflight[i]] = "broken"

\* Every change of the catalog is followed by a list_changed, unless it is the
\* mark of a validation that broke off: that one stays in the catalog, and is
\* only published with somebody else's change.
ChangesArePublished ==
  \A t \in Tools : t \in dirty ~> t \notin dirty \/ t \in Abandoned

=============================================================================
