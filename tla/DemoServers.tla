----------------------------- MODULE DemoServers -----------------------------
(***************************************************************************)
(* The eight demo MCP servers of one process (apps/demo-mcp-suite): each   *)
(* keeps its records in module globals and changes them in the handlers of *)
(* its tools, one call at a time (runtime.py, servers/*.py).  They share   *)
(* nothing, so a behaviour is that of one of them, chosen at the start.  A *)
(* call refused for its arguments, a call of a tool that only reads and a  *)
(* call of an unknown tool change nothing and are steps that stutter; what *)
(* the reading tools answer is stated as operators on the records.         *)
(***************************************************************************)
EXTENDS Integers, FiniteSets, Sequences, FiniteSetsExt, Functions

CONSTANTS
  MaxNumber,   \* bound: the number of the last record a server creates
  MaxActivity  \* bound: the activity of a task that is still updated

ASSUME BoundsAssumption == MaxNumber \in Nat /\ MaxActivity \in Nat

VARIABLES
  server,  \* which of the eight this is
  items,   \* its records: tasks, bookmarks, assets, transactions, notes; for
           \* the travel planner, per itinerary the stops in their order
  parts,   \* what hangs on them: components, services and their state
  gone,    \* ids of deleted bookmarks; tombstones of notes
  next,    \* the number of the next record
  events,  \* numbered entries: restarts, log lines, backup runs
  last,    \* history: the latest call that was not refused
  given    \* history: the ids given out since the last reset

vars == <<server, items, parts, gone, next, events, last, given>>

NoCall == <<"none">>
Nothing == [i \in {} |-> {}]

With(f, i, v) == [j \in DOMAIN f \cup {i} |-> IF j = i THEN v ELSE f[j]]
Without(f, i) == [j \in DOMAIN f \ {i} |-> f[j]]

-----------------------------------------------------------------------------
(* What each server offers (its list of tools) and the records it starts   *)
(* from.  Records with a name of their own have ids below 1.               *)

\* readOnlyHint, idempotentHint and destructiveHint, and the tools with none
Hints(reads, repeatable, destructive, other) ==
  [reads |-> reads, repeatable |-> repeatable, destructive |-> destructive, other |-> other]

TaskBoardTools ==
  Hints({"task_list", "task_get"},
        {"task_update_status", "task_archive"}, {"task_archive"},
        {"task_create"})

BookmarkTools ==
  Hints({"bookmark_search", "bookmark_list_by_tag", "bookmark_summarize_stub"},
        {"bookmark_delete"}, {"bookmark_delete"},
        {"bookmark_create"})

DesignTools ==
  Hints({"asset_search", "color_tokens", "component_get"},
        {"asset_deprecate"}, {"asset_deprecate"},
        {"asset_register"})

LedgerTools ==
  Hints({"ledger_summary", "transaction_search"},
        {}, {"transaction_delete"},
        {"transaction_create", "transaction_categorize"})

VaultTools ==
  Hints({"note_search", "note_get"},
        {}, {"note_delete"},
        {"note_create", "note_tag"})

OpsTools ==
  Hints({"ops_status", "ops_checklist", "incident_list"},
        {}, {"service_restart"},
        {"note_create", "backup_run"})

LabTools ==
  Hints({"device_list", "device_status", "service_logs"},
        {}, {"service_restart"},
        {"maintenance_note_create"})

TravelTools ==
  Hints({"itinerary_list", "place_search"},
        {}, {"itinerary_remove_place"},
        {"itinerary_add_place"})

Tools == [
  task_board |-> TaskBoardTools, bookmark_research |-> BookmarkTools,
  design_assets |-> DesignTools, finance_ledger |-> LedgerTools,
  knowledge_vault |-> VaultTools, personal_ops |-> OpsTools,
  home_lab |-> LabTools, travel_planner |-> TravelTools]

Servers == DOMAIN Tools

TaskFixtures == [i \in 1..2 |->
  [status |-> IF i = 1 THEN "in_progress" ELSE "todo", archived |-> FALSE, activity |-> 1]]

BookmarkFixtures == [i \in 1..2 |-> [tags |-> {"mcp"}]]

\* an active component, an icon and a component already deprecated
AssetFixtures == [i \in -2..0 |->
  [status |-> IF i = -2 THEN "deprecated" ELSE "active", component |-> i # 0]]

ComponentFixtures == [i \in {-2, -1} |-> AssetFixtures[i].status]

TransactionFixtures == [i \in -1..0 |->
  [amount |-> IF i = 0 THEN 2 ELSE -1, category |-> "fixture"]]

VaultFixtures == [i \in 1..2 |-> IF i = 1 THEN {"mcp"} ELSE {"mcp", "ops"}]

OpsServices == [s \in {"gateway", "backup-agent"} |->
  IF s = "gateway" THEN "healthy" ELSE "warning"]

LabNotes == [i \in {1} |-> "router"]
LabServices == [s \in {"smb", "dns"} |-> 0]
LabLogs == {[kind |-> "log", about |-> "smb", number |-> 1],
            [kind |-> "log", about |-> "dns", number |-> 2]}

Places == {"temple", "garden", "forest"}
Itineraries == [t \in {"tokyo", "seoul"} |->
  IF t = "tokyo" THEN <<[place |-> "temple", day |-> 1], [place |-> "garden", day |-> 2]>>
  ELSE <<[place |-> "forest", day |-> 1]>>]

StartItems ==
  CASE server = "task_board" -> TaskFixtures
    [] server = "bookmark_research" -> BookmarkFixtures
    [] server = "design_assets" -> AssetFixtures
    [] server = "finance_ledger" -> TransactionFixtures
    [] server = "knowledge_vault" -> VaultFixtures
    [] server = "personal_ops" -> Nothing
    [] server = "home_lab" -> LabNotes
    [] server = "travel_planner" -> Itineraries

StartParts ==
  CASE server = "design_assets" -> ComponentFixtures
    [] server = "personal_ops" -> OpsServices
    [] server = "home_lab" -> LabServices
    [] OTHER -> Nothing

\* one more than the highest number among the records
StartNext == IF server = "travel_planner" THEN 1
             ELSE Cardinality({i \in DOMAIN StartItems : i > 0}) + 1

StartEvents == IF server = "home_lab" THEN LabLogs ELSE {}

Init ==
  /\ server \in Servers
  /\ items = StartItems
  /\ parts = StartParts
  /\ gone = {}
  /\ next = StartNext
  /\ events = StartEvents
  /\ last = NoCall
  /\ given = DOMAIN StartItems

\* /_test/reset-state, and a restart of the process
Reset ==
  /\ items' = StartItems
  /\ parts' = StartParts
  /\ gone' = {}
  /\ next' = StartNext
  /\ events' = StartEvents
  /\ last' = NoCall
  /\ given' = DOMAIN StartItems
  /\ UNCHANGED server

-----------------------------------------------------------------------------
(* Steps that the handlers share.                                          *)

Called(name, arguments) == last' = <<name, arguments>>

\* a new record under the next number
Add(record) ==
  /\ next <= MaxNumber
  /\ items' = With(items, next, record)
  /\ next' = next + 1
  /\ given' = given \cup {next}

\* a new entry under the next number of its kind
Record(kind, about) ==
  /\ Cardinality(events) < MaxNumber
  /\ events' = events \cup {[kind |-> kind, about |-> about,
                            number |-> Cardinality({e \in events : e.kind = kind}) + 1]}

-----------------------------------------------------------------------------
(* Task board.  A task's activity is the length of its list; updated_at is *)
(* set wherever the list grows.                                            *)

ActiveStatuses == {"todo", "in_progress"}

TaskCreate(status) ==
  /\ Add([status |-> status, archived |-> FALSE, activity |-> 1])
  /\ Called("task_create", status)
  /\ UNCHANGED <<server, parts, gone, events>>

\* mistake: the status of an archived task can be changed
TaskUpdateAnyStatus(i, status) ==
  /\ items[i].activity < MaxActivity
  /\ items' = [items EXCEPT ![i].status = status, ![i].activity = @ + 1]
  /\ Called("task_update_status", <<i, status>>)
  /\ UNCHANGED <<server, parts, gone, next, events, given>>

\* an archived task is left alone; the note is kept, also of a call that
\* changes no status
TaskUpdateStatus(i, status) ==
  /\ ~items[i].archived
  /\ items[i].activity < MaxActivity
  /\ items' = [items EXCEPT ![i].status = status, ![i].activity = @ + 1]
  /\ Called("task_update_status", <<i, status>>)
  /\ UNCHANGED <<server, parts, gone, next, events, given>>

\* mistake: archiving twice is noted twice
TaskArchiveAgain(i) ==
  /\ items' = [items EXCEPT ![i] =
       [status |-> "archived", archived |-> TRUE, activity |-> @.activity + 1]]
  /\ Called("task_archive", i)
  /\ UNCHANGED <<server, parts, gone, next, events, given>>

\* a second time it succeeds and changes nothing
TaskArchive(i) ==
  /\ items' = [items EXCEPT ![i] = IF @.archived THEN @ ELSE
       [status |-> "archived", archived |-> TRUE, activity |-> @.activity + 1]]
  /\ Called("task_archive", i)
  /\ UNCHANGED <<server, parts, gone, next, events, given>>

\* task_list: archived tasks are listed when they are asked for
TaskList(status, includeArchived) ==
  {i \in DOMAIN items :
     IF status = "archived" THEN items[i].archived
     ELSE /\ status \in {"any", items[i].status}
          /\ includeArchived \/ ~items[i].archived}

TaskBoard ==
  /\ server = "task_board"
  /\ \/ \E status \in ActiveStatuses : TaskCreate(status)
     \/ \E i \in DOMAIN items :
          \/ \E status \in ActiveStatuses : TaskUpdateStatus(i, status)
          \/ TaskArchive(i)

TasksListedOnce ==
  /\ \A status \in ActiveStatuses, b \in BOOLEAN :
       TaskList(status, b) \cap TaskList("archived", b) = {}
  /\ DOMAIN items \ TaskList("any", FALSE) = TaskList("archived", FALSE)

-----------------------------------------------------------------------------
(* Bookmarks.                                                              *)

BookmarkCreate ==
  /\ Add([tags |-> {"mcp"}])
  /\ gone' = gone \ {next}
  /\ Called("bookmark_create", "bookmark")
  /\ UNCHANGED <<server, parts, events>>

\* deleting what was deleted succeeds again and changes nothing
BookmarkDelete(i) ==
  /\ i \in DOMAIN items \cup gone
  /\ items' = Without(items, i)
  /\ gone' = gone \cup {i}
  /\ Called("bookmark_delete", i)
  /\ UNCHANGED <<server, parts, next, events, given>>

\* bookmark_search, bookmark_list_by_tag
BookmarkSearch(tags) == {i \in DOMAIN items : tags \subseteq items[i].tags}

BookmarkResearch ==
  /\ server = "bookmark_research"
  /\ \/ BookmarkCreate
     \/ \E i \in DOMAIN items \cup gone : BookmarkDelete(i)

DeletedStayUnlisted == BookmarkSearch({}) \cap gone = {}

-----------------------------------------------------------------------------
(* Design assets.                                                          *)

AssetRegister(isComponent) ==
  /\ Add([status |-> "active", component |-> isComponent])
  /\ parts' = IF isComponent THEN With(parts, next, "active") ELSE parts
  /\ Called("asset_register", isComponent)
  /\ UNCHANGED <<server, gone, events>>

AssetDeprecate(i) ==
  /\ items' = [items EXCEPT ![i].status = "deprecated"]
  /\ parts' = IF items[i].component THEN [parts EXCEPT ![i] = "deprecated"] ELSE parts
  /\ Called("asset_deprecate", i)
  /\ UNCHANGED <<server, gone, next, events, given>>

AssetSearch(includeDeprecated) ==
  {i \in DOMAIN items : includeDeprecated \/ items[i].status # "deprecated"}

ComponentGet(i) == parts[i]

DesignAssets ==
  /\ server = "design_assets"
  /\ \/ \E isComponent \in BOOLEAN : AssetRegister(isComponent)
     \/ \E i \in DOMAIN items : AssetDeprecate(i)

ComponentFollowsAsset ==
  \A i \in DOMAIN parts :
    ComponentGet(i) = "active" <=> i \in AssetSearch(FALSE)

-----------------------------------------------------------------------------
(* The ledger.  An amount of zero is refused.                              *)

Amounts == {-1, 0, 2}

TransactionCreate(amount) ==
  /\ amount # 0
  /\ Add([amount |-> amount, category |-> "new"])
  /\ Called("transaction_create", amount)
  /\ UNCHANGED <<server, parts, gone, events>>

TransactionCategorize(i, category) ==
  /\ items' = [items EXCEPT ![i].category = category]
  /\ Called("transaction_categorize", <<i, category>>)
  /\ UNCHANGED <<server, parts, gone, next, events, given>>

TransactionDelete(i) ==
  /\ items' = Without(items, i)
  /\ Called("transaction_delete", i)
  /\ UNCHANGED <<server, parts, gone, next, events, given>>

TransactionSearch(type) ==
  {i \in DOMAIN items : IF type = "income" THEN items[i].amount > 0
                        ELSE items[i].amount < 0}

Total(S) == SumFunctionOnSet([i \in DOMAIN items |-> items[i].amount], S)

\* ledger_summary: the totals, and the net of each category
LedgerSummary == [
  income   |-> Total({i \in DOMAIN items : items[i].amount > 0}),
  expense  |-> -Total({i \in DOMAIN items : items[i].amount < 0}),
  by_category |-> [c \in {items[i].category : i \in DOMAIN items} |->
                     Total({i \in DOMAIN items : items[i].category = c})]]

FinanceLedger ==
  /\ server = "finance_ledger"
  /\ \/ \E amount \in Amounts : TransactionCreate(amount)
     \/ \E i \in DOMAIN items :
          \/ \E category \in {"fixture", "new"} : TransactionCategorize(i, category)
          \/ TransactionDelete(i)

LedgerAddsUp ==
  /\ DOMAIN items = TransactionSearch("income") \cup TransactionSearch("expense")
  /\ LedgerSummary.income - LedgerSummary.expense =
       SumFunction(LedgerSummary.by_category)

-----------------------------------------------------------------------------
(* The knowledge vault.                                                    *)

VaultNoteCreate(tags) ==
  /\ Add(tags)
  /\ Called("note_create", tags)
  /\ UNCHANGED <<server, parts, gone, events>>

VaultNoteTag(i, mode, tags) ==
  /\ tags # {} \/ mode = "replace"
  /\ items' = [items EXCEPT ![i] =
       IF mode = "replace" THEN tags
       ELSE IF mode = "remove" THEN @ \ tags ELSE @ \cup tags]
  /\ Called("note_tag", <<i, mode, tags>>)
  /\ UNCHANGED <<server, parts, gone, next, events, given>>

\* confirmed: the note goes and a tombstone comes
VaultNoteDelete(i) ==
  /\ items' = Without(items, i)
  /\ gone' = gone \cup {i}
  /\ Record("delete", i)
  /\ Called("note_delete", i)
  /\ UNCHANGED <<server, parts, next, given>>

NoteSearch(tags, match) ==
  {i \in DOMAIN items :
     \/ tags = {}
     \/ match = "any" /\ tags \cap items[i] # {}
     \/ match = "all" /\ tags \subseteq items[i]}

KnowledgeVault ==
  /\ server = "knowledge_vault"
  /\ \/ VaultNoteCreate({"mcp"})
     \/ \E i \in DOMAIN items :
          \/ \E mode \in {"add", "remove", "replace"}, tags \in SUBSET {"mcp", "ops"} :
               VaultNoteTag(i, mode, tags)
          \/ VaultNoteDelete(i)

NotesAccounted ==
  /\ gone \cap NoteSearch({}, "all") = {}
  /\ Cardinality(events) = Cardinality(gone)
  /\ given = gone \cup DOMAIN items

-----------------------------------------------------------------------------
(* The personal ops desk: parts is the state of its services.              *)

OpsNoteCreate ==
  /\ Add("note")
  /\ Called("note_create", "note")
  /\ UNCHANGED <<server, parts, gone, events>>

BackupRun(target) ==
  /\ Record("backup", target)
  /\ parts' = IF target = "photos" THEN [parts EXCEPT !["backup-agent"] = "healthy"]
              ELSE parts
  /\ Called("backup_run", target)
  /\ UNCHANGED <<server, items, gone, next, given>>

\* confirmed, of a service that is known
OpsServiceRestart(service) ==
  /\ parts' = [parts EXCEPT ![service] = "healthy"]
  /\ Record("restart", service)
  /\ Called("service_restart", service)
  /\ UNCHANGED <<server, items, gone, next, given>>

PersonalOps ==
  /\ server = "personal_ops"
  /\ \/ OpsNoteCreate
     \/ \E target \in {"photos", "documents"} : BackupRun(target)
     \/ \E service \in DOMAIN parts : OpsServiceRestart(service)

\* ops_status: the agent is in warning until its backup runs or it restarts
WarningIsAnswered ==
  parts["backup-agent"] = "healthy" <=>
    \E e \in events : e.about \in {"photos", "backup-agent"}

-----------------------------------------------------------------------------
(* The home lab: parts counts the restarts of its services.                *)

Devices == {"router", "nas"}

MaintenanceNoteCreate(device) ==
  /\ Add(device)
  /\ Called("maintenance_note_create", device)
  /\ UNCHANGED <<server, parts, gone, events>>

LabServiceRestart(service) ==
  /\ parts' = [parts EXCEPT ![service] = @ + 1]
  /\ Record("log", service)
  /\ Called("service_restart", service)
  /\ UNCHANGED <<server, items, gone, next, given>>

\* device_list, device_status: the notes open on a device
OpenAlerts(device) == {i \in DOMAIN items : items[i] = device}

ServiceLogs(service) == {e \in events : e.about = service}

HomeLab ==
  /\ server = "home_lab"
  /\ \/ \E device \in Devices : MaintenanceNoteCreate(device)
     \/ \E service \in DOMAIN parts : LabServiceRestart(service)

RestartsAreLogged ==
  /\ \A service \in DOMAIN parts :
       Cardinality(ServiceLogs(service)) =
         parts[service] + Cardinality({e \in LabLogs : e.about = service})
  /\ \A e, f \in events : e.number = f.number => e = f
  /\ UNION {OpenAlerts(device) : device \in Devices} = DOMAIN items

-----------------------------------------------------------------------------
(* The travel planner: items has the stops of each itinerary.              *)

StopsAt(t, place) == {k \in DOMAIN items[t] : items[t][k].place = place}

\* the day asked for, or the one after the last
ItineraryAddPlace(t, place, day) ==
  /\ StopsAt(t, place) = {}
  /\ next <= MaxNumber
  /\ items' = [items EXCEPT ![t] = Append(@, [place |-> place, day |->
       IF day > 0 THEN day ELSE Max({items[t][k].day : k \in DOMAIN items[t]} \cup {0}) + 1])]
  /\ next' = next + 1
  /\ Called("itinerary_add_place", <<t, place, day>>)
  /\ UNCHANGED <<server, parts, gone, events, given>>

\* the first stop at the place goes
ItineraryRemovePlace(t, place) ==
  /\ StopsAt(t, place) # {}
  /\ LET first == Min(StopsAt(t, place))
     IN items' = [items EXCEPT ![t] =
          SubSeq(@, 1, first - 1) \o SubSeq(@, first + 1, Len(@))]
  /\ Called("itinerary_remove_place", <<t, place>>)
  /\ UNCHANGED <<server, parts, gone, next, events, given>>

TravelPlanner ==
  /\ server = "travel_planner"
  /\ \E t \in DOMAIN items, place \in Places :
       \/ \E day \in 0..1 : ItineraryAddPlace(t, place, day)
       \/ ItineraryRemovePlace(t, place)

PlacesOnce ==
  \A t \in DOMAIN items, place \in Places : Cardinality(StopsAt(t, place)) <= 1

-----------------------------------------------------------------------------

Next ==
  \/ TaskBoard
  \/ BookmarkResearch
  \/ DesignAssets
  \/ FinanceLedger
  \/ KnowledgeVault
  \/ PersonalOps
  \/ HomeLab
  \/ TravelPlanner
  \/ Reset

Spec == Init /\ [][Next]_vars

-----------------------------------------------------------------------------

\* What the reading tools answer agrees with what the changing tools did: an
\* archived task is in no list of active ones, whatever include_archived says
\* (task_board.py:193-199: only its own status keeps it out), a deleted bookmark or note is in no
\* search, a component is deprecated with its asset, income and expenses are
\* all of the ledger and its categories add up to its net, every restart is in
\* its service's log under a number of its own, a place is on an itinerary once.
ReadersAgree ==
  CASE server = "task_board" -> TasksListedOnce
    [] server = "bookmark_research" -> DeletedStayUnlisted
    [] server = "design_assets" -> ComponentFollowsAsset
    [] server = "finance_ledger" -> LedgerAddsUp
    [] server = "knowledge_vault" -> NotesAccounted
    [] server = "personal_ops" -> WarningIsAnswered
    [] server = "home_lab" -> RestartsAreLogged
    [] server = "travel_planner" -> PlacesOnce

\* How many records, or stops, there are.
Size == IF server = "travel_planner"
        THEN SumFunction([t \in DOMAIN items |-> Len(items[t])])
        ELSE Cardinality(DOMAIN items)

\* The tasks are as they were, but for their activity.
OnlyActivityGrows ==
  /\ DOMAIN items' = DOMAIN items
  /\ \A i \in DOMAIN items :
       /\ items'[i] = [items[i] EXCEPT !.activity = items'[i].activity]
       /\ items'[i].activity >= items[i].activity
  /\ UNCHANGED <<parts, gone>>

\* What a step may do by the hints of the tool it runs.
HintKept ==
  last' # NoCall =>
    LET tool == last'[1]
        hints == Tools[server]
    IN  /\ <<items, parts, events>>' # <<items, parts, events>> =>
             tool \in hints.repeatable \cup hints.destructive \cup hints.other
        /\ Size' < Size => tool \in hints.destructive
        /\ last' = last /\ tool \in hints.repeatable =>
             IF tool = "task_update_status" THEN OnlyActivityGrows
             ELSE UNCHANGED <<items, parts, gone>>

\* The hints under which a server lists its tools are true of their handlers,
\* task_update_status excepted: a tool with readOnlyHint changes no record, one
\* without destructiveHint takes none away, and one with idempotentHint leaves
\* the records as they are when the call is repeated at once, as a client may
\* that lost the answer (runtime.py:67-93 and the tool lists against the
\* handlers).  task_update_status is listed as idempotent (task_board.py:398)
\* and is not: repeated, it keeps the status and adds to the activity list that
\* task_get shows, and sets updated_at (task_board.py:307-309).
HintsAreKept == [][HintKept]_vars

=============================================================================
