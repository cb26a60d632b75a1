---------------------------- MODULE ClientAccess ----------------------------
(***************************************************************************)
(* External clients and their tokens (api/connections.py,                  *)
(* auth/client_tokens.py, db/repository_connections.py and the first half  *)
(* of db/repository_credentials.py): a one-time token is exchanged for a   *)
(* connection and an access token, either can be revoked, and /mcp serves  *)
(* requests that present an active token (main.py verify_mcp_request).     *)
(*                                                                         *)
(* All requests share one SQLite connection, and nothing ever rolls back:  *)
(* a statement is seen by everyone at once and is kept by whichever commit *)
(* comes next, anybody's.  A stop keeps what was committed and no more.    *)
(* Each statement is a step; so is each commit.                            *)
(***************************************************************************)
EXTENDS Integers, FiniteSets

CONSTANTS
  Requests,
  Tickets,      \* one-time tokens
  Connections,  \* external connections
  Pats,         \* personal access tokens
  None

ASSUME NoneAssumption == None \notin Tickets \cup Connections \cup Pats
ASSUME DisjointAssumption == Pats \cap Connections = {}

VARIABLES
  db,          \* the tables as every request sees them
  disk,        \* the tables as of the last commit
  pc,          \* per request: the step it takes next
  ticket, conn, pat,  \* per request: the rows it works on
  origin,      \* history, per connection: the ticket it was opened with
  delivered,   \* history: tokens whose response was sent
  withdrawn,   \* history: tokens and connections whose revocation has returned
  wasWithdrawn \* history, per request: withdrawn before the request came in

requestVars == <<pc, ticket, conn, pat, wasWithdrawn>>
historyVars == <<origin, delivered, withdrawn>>
vars == <<db, disk, requestVars, historyVars>>

Tables == [ticket : [Tickets -> {"none", "open", "used", "expired"}],
           conn   : [Connections -> {"none", "active", "revoked"}],
           pat    : [Pats -> {"none", "active", "revoked"}],
           owner  : [Pats -> Connections \cup {None}]]

Steps == {"idle", "consumed", "claimed", "opening", "opened", "checked",
          "issuing", "disconnecting", "cutting", "disconnected", "revoked",
          "matched", "served"}

TypeOK ==
  /\ db \in Tables
  /\ disk \in Tables
  /\ pc \in [Requests -> Steps]
  /\ ticket \in [Requests -> Tickets \cup {None}]
  /\ conn \in [Requests -> Connections \cup {None}]
  /\ pat \in [Requests -> Pats \cup {None}]
  /\ wasWithdrawn \in [Requests -> BOOLEAN]
  /\ origin \in [Connections -> Tickets \cup {None}]
  /\ delivered \in SUBSET Pats
  /\ withdrawn \in SUBSET (Pats \cup Connections)
  /\ \A r \in Requests :
       /\ pc[r] \in {"consumed", "claimed"} => ticket[r] # None
       /\ pc[r] \in {"opening", "opened", "checked", "disconnecting", "cutting",
                     "disconnected"} => conn[r] # None
       /\ pc[r] \in {"issuing", "revoked", "matched", "served"} => pat[r] # None

Init ==
  /\ db = [ticket |-> [t \in Tickets |-> "none"],
           conn   |-> [c \in Connections |-> "none"],
           pat    |-> [p \in Pats |-> "none"],
           owner  |-> [p \in Pats |-> None]]
  /\ disk = db
  /\ pc = [r \in Requests |-> "idle"]
  /\ ticket = [r \in Requests |-> None]
  /\ conn = [r \in Requests |-> None]
  /\ pat = [r \in Requests |-> None]
  /\ wasWithdrawn = [r \in Requests |-> FALSE]
  /\ origin = [c \in Connections |-> None]
  /\ delivered = {}
  /\ withdrawn = {}

-----------------------------------------------------------------------------
(* Statements, commits and returns.                                        *)

GoTo(r, step) == pc' = [pc EXCEPT ![r] = step]

Return(r) ==
  /\ pc' = [pc EXCEPT ![r] = "idle"]
  /\ ticket' = [ticket EXCEPT ![r] = None]
  /\ conn' = [conn EXCEPT ![r] = None]
  /\ pat' = [pat EXCEPT ![r] = None]
  /\ wasWithdrawn' = [wasWithdrawn EXCEPT ![r] = FALSE]

\* mistake: the audit row is written, its commit is left to somebody else
AuditOnly == UNCHANGED <<db, disk>>

\* log_audit: its INSERT, and the commit that keeps all that was executed
Commit == disk' = db /\ UNCHANGED db

\* any other request's or task's commit
OtherCommit == Commit /\ UNCHANGED <<requestVars, historyVars>>

\* the process stops and starts again
Stop ==
  /\ db' = disk
  /\ pc' = [r \in Requests |-> "idle"]
  /\ ticket' = [r \in Requests |-> None]
  /\ conn' = [r \in Requests |-> None]
  /\ pat' = [r \in Requests |-> None]
  /\ wasWithdrawn' = [r \in Requests |-> FALSE]
  /\ origin' = [c \in Connections |-> IF disk.conn[c] = "none" THEN None ELSE origin[c]]
  /\ UNCHANGED <<disk, delivered, withdrawn>>

-----------------------------------------------------------------------------
(* One-time tokens: issue, expiry, exchange.                               *)

\* the response is sent after the commit
IssueTicket(t) ==
  /\ db.ticket[t] = "none"
  /\ db' = [db EXCEPT !.ticket[t] = "open"]
  /\ disk' = db'
  /\ UNCHANGED <<requestVars, historyVars>>

Expire(t) ==
  /\ db.ticket[t] = "open" /\ disk.ticket[t] = "open"
  /\ db' = [db EXCEPT !.ticket[t] = "expired"]
  /\ disk' = [disk EXCEPT !.ticket[t] = "expired"]
  /\ UNCHANGED <<requestVars, historyVars>>

\* mistake: the row is selected here and marked used when it is claimed
LookUpTicket(r, t) ==
  /\ pc[r] = "idle"
  /\ db.ticket[t] = "open"
  /\ GoTo(r, "consumed")
  /\ ticket' = [ticket EXCEPT ![r] = t]
  /\ UNCHANGED <<db, disk, conn, pat, wasWithdrawn, historyVars>>

\* consume_connection_token: UPDATE ... WHERE used_at IS NULL ... RETURNING
Consume(r, t) ==
  /\ pc[r] = "idle"
  /\ db.ticket[t] = "open"
  /\ db' = [db EXCEPT !.ticket[t] = "used"]
  /\ GoTo(r, "consumed")
  /\ ticket' = [ticket EXCEPT ![r] = t]
  /\ UNCHANGED <<disk, conn, pat, wasWithdrawn, historyVars>>

\* a client_type that does not match ends the request; the token stays used
Claim(r) ==
  /\ pc[r] = "consumed"
  /\ Commit
  /\ \/ Return(r)
     \/ GoTo(r, "claimed") /\ UNCHANGED <<ticket, conn, pat, wasWithdrawn>>
  /\ UNCHANGED historyVars

\* create_external_connection, for an exchange or by the operator
Open(r, c) ==
  /\ db.conn[c] = "none"
  /\ pc[r] \in {"claimed", "idle"}
  /\ db' = [db EXCEPT !.conn[c] = "active"]
  /\ origin' = [origin EXCEPT ![c] = ticket[r]]
  /\ GoTo(r, "opening")
  /\ conn' = [conn EXCEPT ![r] = c]
  /\ UNCHANGED <<disk, ticket, pat, wasWithdrawn, delivered, withdrawn>>

Opened(r) ==
  /\ pc[r] = "opening"
  /\ Commit
  /\ IF ticket[r] = None THEN Return(r)
     ELSE GoTo(r, "opened") /\ UNCHANGED <<ticket, conn, pat, wasWithdrawn>>
  /\ UNCHANGED historyVars

\* the operator asks for a token of a connection
AskToken(r, c) ==
  /\ pc[r] = "idle"
  /\ db.conn[c] # "none"
  /\ GoTo(r, "opened")
  /\ conn' = [conn EXCEPT ![r] = c]
  /\ UNCHANGED <<db, disk, ticket, pat, wasWithdrawn, historyVars>>

\* create_personal_access_token: first the connection is read
CheckActive(r) ==
  /\ pc[r] = "opened"
  /\ IF db.conn[conn[r]] = "active"
     THEN GoTo(r, "checked") /\ UNCHANGED <<ticket, conn, pat, wasWithdrawn>>
     ELSE Return(r)
  /\ UNCHANGED <<db, disk, historyVars>>

\* then the row is inserted, whatever became of the connection
InsertPat(r, p) ==
  /\ pc[r] = "checked"
  /\ db.pat[p] = "none"
  /\ db' = [db EXCEPT !.pat[p] = "active", !.owner[p] = conn[r]]
  /\ GoTo(r, "issuing")
  /\ pat' = [pat EXCEPT ![r] = p]
  /\ UNCHANGED <<disk, ticket, conn, wasWithdrawn, historyVars>>

Deliver(r) ==
  /\ pc[r] = "issuing"
  /\ Commit
  /\ delivered' = delivered \cup {pat[r]}
  /\ Return(r)
  /\ UNCHANGED <<origin, withdrawn>>

-----------------------------------------------------------------------------
(* Revocation: the connection's row, then its tokens' rows, then a commit. *)

Disconnect(r, c) ==
  /\ pc[r] = "idle"
  /\ db.conn[c] # "none"
  /\ db' = [db EXCEPT !.conn[c] = "revoked"]
  /\ GoTo(r, "cutting")
  /\ conn' = [conn EXCEPT ![r] = c]
  /\ UNCHANGED <<disk, ticket, pat, wasWithdrawn, historyVars>>

TokensOf(c) == {p \in Pats : db.owner[p] = c}

CutTokens(r) ==
  /\ pc[r] = "cutting"
  /\ db' = [db EXCEPT !.pat = [p \in Pats |->
              IF p \in TokensOf(conn[r]) THEN "revoked" ELSE db.pat[p]]]
  /\ GoTo(r, "disconnected")
  /\ UNCHANGED <<disk, ticket, conn, pat, wasWithdrawn, historyVars>>

Disconnected(r) ==
  /\ pc[r] = "disconnected"
  /\ Commit
  /\ withdrawn' = withdrawn \cup {conn[r]}
  /\ Return(r)
  /\ UNCHANGED <<origin, delivered>>

RevokePat(r, p) ==
  /\ pc[r] = "idle"
  /\ db.pat[p] # "none"
  /\ db' = [db EXCEPT !.pat[p] = "revoked"]
  /\ GoTo(r, "revoked")
  /\ pat' = [pat EXCEPT ![r] = p]
  /\ UNCHANGED <<disk, ticket, conn, wasWithdrawn, historyVars>>

PatRevoked(r) ==
  /\ pc[r] = "revoked"
  /\ Commit
  /\ withdrawn' = withdrawn \cup {pat[r]}
  /\ Return(r)
  /\ UNCHANGED <<origin, delivered>>

-----------------------------------------------------------------------------
(* /mcp: verify_mcp_request with a client token.                           *)

\* find_active_personal_access_token_by_hash: one SELECT over both tables
Active(p) == db.pat[p] = "active" /\ db.conn[db.owner[p]] = "active"

Match(r, p) ==
  /\ pc[r] = "idle"
  /\ p \in delivered
  /\ db.pat[p] # "none"
  /\ Active(p)
  /\ GoTo(r, "matched")
  /\ pat' = [pat EXCEPT ![r] = p]
  /\ wasWithdrawn' = [wasWithdrawn EXCEPT ![r] =
                       p \in withdrawn \/ db.owner[p] \in withdrawn]
  /\ UNCHANGED <<db, disk, ticket, conn, historyVars>>

\* last_used_at is written and committed, and the request is let in
Serve(r) ==
  /\ pc[r] = "matched"
  /\ Commit
  /\ GoTo(r, "served")
  /\ UNCHANGED <<ticket, conn, pat, wasWithdrawn, historyVars>>

Done(r) ==
  /\ pc[r] = "served"
  /\ Return(r)
  /\ UNCHANGED <<db, disk, historyVars>>

Next ==
  \/ OtherCommit
  \/ Stop
  \/ \E t \in Tickets : IssueTicket(t) \/ Expire(t)
  \/ \E r \in Requests :
       \/ \E t \in Tickets : Consume(r, t)
       \/ Claim(r)
       \/ \E c \in Connections : Open(r, c) \/ AskToken(r, c) \/ Disconnect(r, c)
       \/ Opened(r)
       \/ CheckActive(r)
       \/ \E p \in Pats : InsertPat(r, p) \/ RevokePat(r, p) \/ Match(r, p)
       \/ Deliver(r)
       \/ CutTokens(r)
       \/ Disconnected(r)
       \/ PatRevoked(r)
       \/ Serve(r)
       \/ Done(r)

Spec == Init /\ [][Next]_vars

-----------------------------------------------------------------------------
\* A one-time token opens at most one connection, and the connection outlives
\* no stop that would make the token usable again: the statement that uses it
\* is executed, and so committed, before the one that opens the connection.
TicketOpensOne ==
  /\ \A c, d \in Connections :
       origin[c] # None /\ origin[c] = origin[d] => c = d
  /\ \A c \in Connections :
       origin[c] # None /\ disk.conn[c] # "none" => disk.ticket[origin[c]] = "used"

\* A token that was handed out is on disk, with its connection: no stop makes
\* a client's token unknown (the commit precedes the response).
DeliveredIsDurable ==
  \A p \in delivered :
    disk.pat[p] # "none" /\ disk.conn[disk.owner[p]] # "none"

\* No request that came in after a revocation of its token, or of the token's
\* connection, had returned is let in: neither a token inserted between the
\* revocation's statements nor a stop brings it back.
WithdrawnStaysOut == \A r \in Requests : pc[r] = "served" => ~wasWithdrawn[r]

=============================================================================
