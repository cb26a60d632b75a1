---------------------------- MODULE OAuthGrants -----------------------------
(***************************************************************************)
(* The authorization server's grants (auth/oauth.py, api/oauth.py and the  *)
(* tables of db/repository_credentials.py): authorization codes that are   *)
(* consumed once, refresh tokens that rotate inside a family, access       *)
(* tokens that are signed with a persisted key and withdrawn by their jti. *)
(* A request runs on the event loop and pauses at every await; one SQL     *)
(* statement with its commit is one step.  The process may stop at any     *)
(* step: what is in the tables stays, requests and the loaded key go.      *)
(* One issued pair, a refresh token and an access token, is one member of  *)
(* Pairs; a family is named by its first pair.  What a presented token     *)
(* must match besides (client, resource, redirect URI) is left out: a      *)
(* mismatch changes nothing.                                               *)
(***************************************************************************)
EXTENDS Integers, FiniteSets

CONSTANTS
  Requests,   \* requests the server is handling
  Codes,      \* authorization codes
  Pairs,      \* pairs of refresh and access token
  Keys,       \* signing keys (kid)
  NoCode, NoPair, NoKey,
  CodeTTL,    \* AUTHORIZATION_CODE_TTL_SECONDS
  AccessTTL,  \* ACCESS_TOKEN_TTL_SECONDS
  RefreshTTL, \* REFRESH_TOKEN_TTL_SECONDS
  Says,       \* what an access token presented for revocation says of its end
  MaxNow      \* bound: the model's clock stops there

ASSUME NonesAreNone == NoCode \notin Codes /\ NoPair \notin Pairs /\ NoKey \notin Keys
ASSUME LifetimesAssumption ==
  CodeTTL \in Nat /\ AccessTTL \in Nat /\ RefreshTTL \in Nat /\ MaxNow \in Nat
ASSUME SaysAssumption == Says \subseteq Nat
ASSUME BatonsAreNoPairs == {"moving", "gone", "unborn"} \cap Pairs = {}

Never == -1   \* no row, or not issued

VARIABLES
  now,            \* time.time()
  kid,            \* _private_key and kid of the process; NoKey while it is down
  starting,       \* the key startup has put in the vault and not yet recorded
  keyRow,         \* the active row of oauth_signing_keys
  codeExpiry,     \* per code: expires_at of its row, Never before authorize
  codeUsed,       \* per code: used_at is set
  family,         \* per pair: family_id of its refresh row, NoPair before issue
  used, revoked,  \* per pair: used_at, revoked_at of the refresh row are set
  refreshExpiry,  \* per pair: expires_at of the refresh row
  accessExpiry,   \* per pair: exp of the access token
  signedBy,       \* per pair: the key that signed the access token
  jtiRow,         \* per pair: expires_at of its oauth_revoked_access_tokens row
  known,          \* pairs whose response reached the client
  pc,             \* per request: where it pauses
  code, pair,     \* per request: what it was given
  readAt,         \* per request: the time.time() it passes to the tables
  connections,    \* history: connections created per code
  compromised,    \* history, per family: how it stood when reuse revoked it
  withdrawn,      \* history: pairs whose access token's revocation returned and
                  \* holds: the latest one gave its row the token's exp or later
  wasWithdrawn    \* history, per request: withdrawn before it started, and since

keyVars     == <<kid, starting, keyRow>>
codeVars    == <<codeExpiry, codeUsed>>
refreshVars == <<family, used, revoked, refreshExpiry>>
accessVars  == <<accessExpiry, signedBy, jtiRow>>
requestVars == <<pc, code, pair, readAt, wasWithdrawn>>
vars == <<now, keyVars, codeVars, refreshVars, accessVars, known, requestVars,
          connections, compromised, withdrawn>>

Steps == {"idle", "exchange", "connected", "found", "rotated", "lost", "reuse",
          "decoded", "purged", "served"}

TypeOK ==
  /\ now \in 0..MaxNow
  /\ kid \in Keys \cup {NoKey}
  /\ starting \in Keys \cup {NoKey}
  /\ keyRow \in Keys \cup {NoKey}
  /\ codeExpiry \in [Codes -> Nat \cup {Never}]
  /\ codeUsed \in [Codes -> BOOLEAN]
  /\ family \in [Pairs -> Pairs \cup {NoPair}]
  /\ used \in [Pairs -> BOOLEAN]
  /\ revoked \in [Pairs -> BOOLEAN]
  /\ refreshExpiry \in [Pairs -> Nat \cup {Never}]
  /\ accessExpiry \in [Pairs -> Nat \cup {Never}]
  /\ signedBy \in [Pairs -> Keys \cup {NoKey}]
  /\ jtiRow \in [Pairs -> Nat \cup {Never}]
  /\ known \in SUBSET Pairs
  /\ pc \in [Requests -> Steps]
  /\ code \in [Requests -> Codes \cup {NoCode}]
  /\ pair \in [Requests -> Pairs \cup {NoPair}]
  /\ readAt \in [Requests -> Nat \cup {Never}]
  /\ connections \in [Codes -> Nat]
  /\ compromised \in [Pairs -> {"no", "clean", "rotating"}]
  /\ withdrawn \in SUBSET Pairs
  /\ wasWithdrawn \in [Requests -> BOOLEAN]

Init ==
  /\ now = 0
  /\ kid = NoKey /\ starting = NoKey /\ keyRow = NoKey
  /\ codeExpiry = [c \in Codes |-> Never]
  /\ codeUsed = [c \in Codes |-> FALSE]
  /\ family = [p \in Pairs |-> NoPair]
  /\ used = [p \in Pairs |-> FALSE]
  /\ revoked = [p \in Pairs |-> FALSE]
  /\ refreshExpiry = [p \in Pairs |-> Never]
  /\ accessExpiry = [p \in Pairs |-> Never]
  /\ signedBy = [p \in Pairs |-> NoKey]
  /\ jtiRow = [p \in Pairs |-> Never]
  /\ known = {}
  /\ pc = [r \in Requests |-> "idle"]
  /\ code = [r \in Requests |-> NoCode]
  /\ pair = [r \in Requests |-> NoPair]
  /\ readAt = [r \in Requests |-> Never]
  /\ connections = [c \in Codes |-> 0]
  /\ compromised = [p \in Pairs |-> "no"]
  /\ withdrawn = {}
  /\ wasWithdrawn = [r \in Requests |-> FALSE]

-----------------------------------------------------------------------------
(* The process: startup, and a stop at any moment.                         *)

\* startup without a row: the new key goes to the vault first
StoreKey(k) ==
  /\ kid = NoKey /\ starting = NoKey /\ keyRow = NoKey
  /\ starting' = k
  /\ UNCHANGED <<now, kid, keyRow, codeVars, refreshVars, accessVars, known,
                 requestVars, connections, compromised, withdrawn>>

\* then its row is written, and only then is it used
RecordKey ==
  /\ starting # NoKey
  /\ keyRow' = starting
  /\ kid' = starting
  /\ starting' = NoKey
  /\ UNCHANGED <<now, codeVars, refreshVars, accessVars, known, requestVars,
                 connections, compromised, withdrawn>>

\* startup with a row; moving a plaintext key to the vault keeps the key
LoadKey ==
  /\ kid = NoKey
  /\ keyRow # NoKey
  /\ kid' = keyRow
  /\ UNCHANGED <<now, starting, keyRow, codeVars, refreshVars, accessVars, known,
                 requestVars, connections, compromised, withdrawn>>

\* shutdown, or a crash: requests in flight are gone, the tables stay
Stop ==
  /\ kid # NoKey \/ starting # NoKey
  /\ kid' = NoKey
  /\ starting' = NoKey
  /\ pc' = [r \in Requests |-> "idle"]
  /\ code' = [r \in Requests |-> NoCode]
  /\ pair' = [r \in Requests |-> NoPair]
  /\ readAt' = [r \in Requests |-> Never]
  /\ wasWithdrawn' = [r \in Requests |-> FALSE]
  /\ UNCHANGED <<now, keyRow, codeVars, refreshVars, accessVars, known,
                 connections, compromised, withdrawn>>

Tick ==
  /\ now < MaxNow
  /\ now' = now + 1
  /\ UNCHANGED <<keyVars, codeVars, refreshVars, accessVars, known, requestVars,
                 connections, compromised, withdrawn>>

-----------------------------------------------------------------------------
(* Helpers: a request starts, moves and returns.                           *)

Free(r) == kid # NoKey /\ pc[r] = "idle"

Return(r) ==
  /\ pc' = [pc EXCEPT ![r] = "idle"]
  /\ code' = [code EXCEPT ![r] = NoCode]
  /\ pair' = [pair EXCEPT ![r] = NoPair]
  /\ readAt' = [readAt EXCEPT ![r] = Never]
  /\ wasWithdrawn' = [wasWithdrawn EXCEPT ![r] = FALSE]

GoTo(r, step) ==
  /\ pc' = [pc EXCEPT ![r] = step]
  /\ UNCHANGED <<code, pair, readAt, wasWithdrawn>>

\* _issue_token_pair: the refresh row is inserted and the pair returned; the
\* response may not reach the client
Issue(r, p, f) ==
  /\ family[p] = NoPair
  /\ family' = [family EXCEPT ![p] = f]
  /\ refreshExpiry' = [refreshExpiry EXCEPT ![p] = now + RefreshTTL]
  /\ accessExpiry' = [accessExpiry EXCEPT ![p] = now + AccessTTL]
  /\ signedBy' = [signedBy EXCEPT ![p] = kid]
  /\ known' \in {known, known \cup {p}}
  /\ Return(r)
  /\ UNCHANGED <<now, keyVars, codeVars, used, revoked, jtiRow, connections,
                 compromised, withdrawn>>

-----------------------------------------------------------------------------
(* authorization_code.                                                     *)

Authorize(c) ==
  /\ kid # NoKey
  /\ codeExpiry[c] = Never
  /\ codeExpiry' = [codeExpiry EXCEPT ![c] = now + CodeTTL]
  /\ UNCHANGED <<now, keyVars, codeUsed, refreshVars, accessVars, known,
                 requestVars, connections, compromised, withdrawn>>

\* mistake: the row is read here and marked used when the pair is issued
ReadWithoutUse(r, c) ==
  /\ Free(r)
  /\ now < codeExpiry[c] /\ ~codeUsed[c]
  /\ pc' = [pc EXCEPT ![r] = "exchange"]
  /\ code' = [code EXCEPT ![r] = c]
  /\ UNCHANGED <<now, keyVars, codeVars, refreshVars, accessVars, known, pair,
                 readAt, wasWithdrawn, connections, compromised, withdrawn>>

\* exchange: UPDATE ... RETURNING; a wrong verifier has used the code up too
Consume(r, c) ==
  /\ Free(r)
  /\ now < codeExpiry[c] /\ ~codeUsed[c]
  /\ codeUsed' = [codeUsed EXCEPT ![c] = TRUE]
  /\ \/ /\ pc' = [pc EXCEPT ![r] = "exchange"]
        /\ code' = [code EXCEPT ![r] = c]
     \/ UNCHANGED <<pc, code>>
  /\ UNCHANGED <<now, keyVars, codeExpiry, refreshVars, accessVars, known, pair,
                 readAt, wasWithdrawn, connections, compromised, withdrawn>>

\* the client is resolved and its external connection created
Connect(r) ==
  /\ pc[r] = "exchange"
  /\ connections' = [connections EXCEPT ![code[r]] = @ + 1]
  /\ GoTo(r, "connected")
  /\ UNCHANGED <<now, keyVars, codeVars, refreshVars, accessVars, known,
                 compromised, withdrawn>>

IssueFirst(r, p) == pc[r] = "connected" /\ Issue(r, p, p)

-----------------------------------------------------------------------------
(* refresh_token.                                                          *)

\* refresh: the row is read and judged
Find(r, p) ==
  /\ Free(r)
  /\ p \in known
  /\ \/ used[p] /\ pc' = [pc EXCEPT ![r] = "reuse"]
     \/ /\ ~used[p] /\ ~revoked[p] /\ now <= refreshExpiry[p]
        /\ pc' = [pc EXCEPT ![r] = "found"]
  /\ pair' = [pair EXCEPT ![r] = p]
  /\ UNCHANGED <<now, keyVars, codeVars, refreshVars, accessVars, known, code,
                 readAt, wasWithdrawn, connections, compromised, withdrawn>>

\* mistake: the UPDATE trusts what Find read
RotateUnchecked(r) ==
  /\ pc[r] = "found"
  /\ used' = [used EXCEPT ![pair[r]] = TRUE]
  /\ revoked' = [revoked EXCEPT ![pair[r]] = TRUE]
  /\ GoTo(r, "rotated")
  /\ UNCHANGED <<now, keyVars, codeVars, family, refreshExpiry, accessVars,
                 known, connections, compromised, withdrawn>>

\* mark_oauth_refresh_token_rotated: UPDATE ... WHERE not used, not revoked
Rotate(r) ==
  /\ pc[r] = "found"
  /\ IF used[pair[r]] \/ revoked[pair[r]]
     THEN GoTo(r, "lost") /\ UNCHANGED <<used, revoked>>
     ELSE /\ used' = [used EXCEPT ![pair[r]] = TRUE]
          /\ revoked' = [revoked EXCEPT ![pair[r]] = TRUE]
          /\ GoTo(r, "rotated")
  /\ UNCHANGED <<now, keyVars, codeVars, family, refreshExpiry, accessVars,
                 known, connections, compromised, withdrawn>>

\* the rotation matched no row: who was faster, another refresh or a revoke?
Reread(r) ==
  /\ pc[r] = "lost"
  /\ IF used[pair[r]] THEN GoTo(r, "reuse") ELSE Return(r)
  /\ UNCHANGED <<now, keyVars, codeVars, refreshVars, accessVars, known,
                 connections, compromised, withdrawn>>

IssueNext(r, p) == pc[r] = "rotated" /\ Issue(r, p, family[pair[r]])

Rotating(f) == \E r \in Requests : pc[r] = "rotated" /\ family[pair[r]] = f

\* _revoke_refresh_family: one UPDATE over the family's rows
RevokeFamily(r) ==
  /\ pc[r] = "reuse"
  /\ LET f == family[pair[r]] IN
       /\ revoked' = [p \in Pairs |-> revoked[p] \/ family[p] = f]
       /\ compromised' = [compromised EXCEPT ![f] =
                            IF Rotating(f) THEN "rotating" ELSE "clean"]
  /\ Return(r)
  /\ UNCHANGED <<now, keyVars, codeVars, family, used, refreshExpiry,
                 accessVars, known, connections, withdrawn>>

-----------------------------------------------------------------------------
(* revoke, and the use of an access token.                                 *)

RevokeRefresh(p) ==
  /\ kid # NoKey
  /\ p \in known
  /\ revoked' = [revoked EXCEPT ![p] = TRUE]
  /\ UNCHANGED <<now, keyVars, codeVars, family, used, refreshExpiry,
                 accessVars, known, requestVars, connections, compromised,
                 withdrawn>>

\* a revocation holds if its row outlives the token
NoteRevocation(p, says) ==
  /\ withdrawn' = IF says >= accessExpiry[p] THEN withdrawn \cup {p} ELSE withdrawn \ {p}
  /\ wasWithdrawn' = [r \in Requests |-> wasWithdrawn[r] /\ pair[r] \in withdrawn']

\* mistake: the row ends a tick before what the token says
RowExpiresEarly(p, says) ==
  /\ kid # NoKey
  /\ p \in known
  /\ jtiRow' = [jtiRow EXCEPT ![p] = says - 1]
  /\ NoteRevocation(p, says)
  /\ UNCHANGED <<now, keyVars, codeVars, refreshVars, accessExpiry, signedBy,
                 known, pc, code, pair, readAt, connections, compromised>>

\* revoke of an access token: the row of its jti is inserted or overwritten,
\* with the end that the text of the presented token gives, taken as it is
RevokeAccess(p, says) ==
  /\ kid # NoKey
  /\ p \in known
  /\ jtiRow' = [jtiRow EXCEPT ![p] = says]
  /\ NoteRevocation(p, says)
  /\ UNCHANGED <<now, keyVars, codeVars, refreshVars, accessExpiry, signedBy,
                 known, pc, code, pair, readAt, connections, compromised>>

\* verify_access_token: signature and exp
Decode(r, p) ==
  /\ Free(r)
  /\ p \in known
  /\ signedBy[p] = kid
  /\ now < accessExpiry[p]
  /\ pc' = [pc EXCEPT ![r] = "decoded"]
  /\ pair' = [pair EXCEPT ![r] = p]
  /\ readAt' = [readAt EXCEPT ![r] = now]
  /\ wasWithdrawn' = [wasWithdrawn EXCEPT ![r] = p \in withdrawn]
  /\ UNCHANGED <<now, keyVars, codeVars, refreshVars, accessVars, known, code,
                 connections, compromised, withdrawn>>

\* is_oauth_access_jti_revoked: first the rows that have expired are deleted
Purge(r) ==
  /\ pc[r] = "decoded"
  /\ jtiRow' = [p \in Pairs |-> IF jtiRow[p] <= readAt[r] THEN Never ELSE jtiRow[p]]
  /\ GoTo(r, "purged")
  /\ UNCHANGED <<now, keyVars, codeVars, refreshVars, accessExpiry, signedBy,
                 known, connections, compromised, withdrawn>>

\* then the jti is looked for
LookUp(r) ==
  /\ pc[r] = "purged"
  /\ IF jtiRow[pair[r]] > readAt[r] THEN Return(r) ELSE GoTo(r, "served")
  /\ UNCHANGED <<now, keyVars, codeVars, refreshVars, accessVars, known,
                 connections, compromised, withdrawn>>

Serve(r) ==
  /\ pc[r] = "served"
  /\ Return(r)
  /\ UNCHANGED <<now, keyVars, codeVars, refreshVars, accessVars, known,
                 connections, compromised, withdrawn>>

Next ==
  \/ \E k \in Keys : StoreKey(k)
  \/ RecordKey
  \/ LoadKey
  \/ Stop
  \/ Tick
  \/ \E c \in Codes : Authorize(c)
  \/ \E p \in Pairs : RevokeRefresh(p) \/ \E says \in Says : RevokeAccess(p, says)
  \/ \E r \in Requests :
       \/ \E c \in Codes : Consume(r, c)
       \/ Connect(r)
       \/ \E p \in Pairs : IssueFirst(r, p) \/ Find(r, p) \/ IssueNext(r, p)
                           \/ Decode(r, p)
       \/ Rotate(r)
       \/ Reread(r)
       \/ RevokeFamily(r)
       \/ Purge(r)
       \/ LookUp(r)
       \/ Serve(r)

Spec == Init /\ [][Next]_vars

-----------------------------------------------------------------------------
(* What the grants promise.                                                *)

Live(p) == family[p] # NoPair /\ ~used[p] /\ ~revoked[p]

\* A family never has two refresh tokens that work, nor one that works while
\* a request is about to insert another, whichever refreshes, replays,
\* revocations and stops interleave (find, mark_rotated, insert).
OneHolder ==
  /\ \A p, q \in Pairs : Live(p) /\ Live(q) /\ family[p] = family[q] => p = q
  /\ \A p \in Pairs : Live(p) => ~Rotating(family[p])
  /\ \A r, s \in Requests :
       /\ pc[r] = "rotated" /\ pc[s] = "rotated"
       /\ family[pair[r]] = family[pair[s]]
       => r = s

\* Once reuse revoked a family while none of its tokens was being rotated, no
\* token of the family works any more, and none will be inserted.
CleanFamilyIsDead ==
  \A f \in Pairs :
    compromised[f] = "clean" =>
      ~Rotating(f) /\ \A p \in Pairs : family[p] = f => ~Live(p)

\* One authorization code gives at most one connection, also when exchanges of
\* it overlap or the server stops in the middle of one.
CodeGrantsOnce == \A c \in Codes : connections[c] <= 1

\* An access token whose revocation had returned before a request started is
\* not accepted for that request while the token's own lifetime runs, although
\* every verification deletes the revocations that have expired: as long as the
\* latest revocation of its jti gave it at least the token's own end.  The row
\* takes the end from the token as presented and the latest revocation
\* overwrites it, so one that says an earlier end withdraws no longer than that.
WithdrawnStaysOut ==
  \A r \in Requests :
    pc[r] = "served" /\ wasWithdrawn[r] => accessExpiry[pair[r]] <= now

\* A server that is up verifies with the key that signed every token it ever
\* issued: restarts, and stops in the middle of the first start, keep it.
KeySurvives ==
  \A p \in Pairs : kid # NoKey /\ family[p] # NoPair => signedBy[p] = kid

\* The refresh tokens are TokenChain's: a family's baton is the token that
\* works, or is moving while a rotation is between its two statements.
Baton(f) ==
  IF family[f] # f THEN "unborn"
  ELSE IF Rotating(f) THEN "moving"
  ELSE IF \E p \in Pairs : family[p] = f /\ Live(p)
       THEN CHOOSE p \in Pairs : family[p] = f /\ Live(p)
       ELSE "gone"

Spent == {p \in Pairs : family[p] # NoPair /\ ~Live(p)}

Chain == INSTANCE TokenChain WITH
           Tokens <- Pairs, Moving <- "moving", Gone <- "gone", Unborn <- "unborn",
           baton <- [f \in Pairs |-> Baton(f)], spent <- Spent

\* Rotation, reuse detection, revocation and stops hand the baton on, drop it
\* or lose it, and never copy or revive it.
ChainKept == Chain!Spec

=============================================================================
