---------------------------- MODULE OAuthClients ----------------------------
(***************************************************************************)
(* The authorization server's clients: registered ones (DCR, auth/oauth.py *)
(* register_client) and those whose client_id is the URL of their metadata *)
(* (CIMD, _resolve_cimd_client), with the limiter in front of the latter.  *)
(* A request pauses at every await: the row, the cache row, the document.  *)
(* A document is its version; Bad stands for every document that a check   *)
(* refuses (address, status, type, size, client_id, redirect hosts).       *)
(***************************************************************************)
EXTENDS RateLimiter

CONSTANTS
  Resolvers,    \* requests that resolve a client
  Registered,   \* client ids that DCR hands out
  Documents,    \* client ids that are URLs
  NoClient, Bad,
  Address,      \* the address that asks: the CIMD limiter's key
  CacheTTL,     \* CIMD_CACHE_TTL_SECONDS, in ticks
  MaxVersion    \* bound: versions a document goes through

Ids == Registered \cup Documents
Versions == 1..MaxVersion
Absent == 0   \* no row

ASSUME ClientsAssumption ==
  /\ Registered \cap Documents = {}
  /\ NoClient \notin Ids
  /\ Address \in LimitKeys
  /\ CacheTTL \in Nat /\ MaxVersion \in Nat \ {0}

VARIABLES
  document,    \* per URL: the version served there, or Bad
  row,         \* per id: the metadata in oauth_clients
  cachedUntil, \* per URL: oauth_cimd_cache
  stage, asked, got,  \* per resolver: where it pauses, for which id, what it read
  gotAt        \* per resolver: when

rowVars      == <<row, cachedUntil>>
resolverVars == <<stage, asked, got, gotAt>>
clientsVars  == <<clock, limiterVars, document, rowVars, resolverVars>>

ClientsTypeOK ==
  /\ LimiterTypeOK
  /\ document \in [Documents -> Versions \cup {Bad}]
  /\ row \in [Ids -> Versions \cup {Absent}]
  /\ cachedUntil \in [Documents -> Nat \cup {Unset}]
  /\ stage \in [Resolvers ->
       {"idle", "missed", "admitted", "fetching", "fetched", "stored"}]
  /\ asked \in [Resolvers -> Ids \cup {NoClient}]
  /\ got \in [Resolvers -> Versions \cup {Absent}]
  /\ gotAt \in [Resolvers -> Nat \cup {Unset}]

ClientsInit ==
  /\ LimiterInit
  /\ document = [i \in Documents |-> 1]
  /\ row = [i \in Ids |-> Absent]
  /\ cachedUntil = [i \in Documents |-> Unset]
  /\ stage = [r \in Resolvers |-> "idle"]
  /\ asked = [r \in Resolvers |-> NoClient]
  /\ got = [r \in Resolvers |-> Absent]
  /\ gotAt = [r \in Resolvers |-> Unset]

-----------------------------------------------------------------------------
Leave(r) ==
  /\ stage' = [stage EXCEPT ![r] = "idle"]
  /\ asked' = [asked EXCEPT ![r] = NoClient]
  /\ got' = [got EXCEPT ![r] = Absent]
  /\ gotAt' = [gotAt EXCEPT ![r] = Unset]

MoveTo(r, step) == stage' = [stage EXCEPT ![r] = step] /\ UNCHANGED <<asked, got, gotAt>>

\* POST /oauth/register; policy, its own limiter or the metadata may refuse
Register(i) ==
  /\ row[i] = Absent
  /\ row' = [row EXCEPT ![i] = 1]
  /\ UNCHANGED <<clock, limiterVars, document, cachedUntil, resolverVars>>

\* mistake: a row whose cache entry has run out is fetched anew
ResolveAnew(r, i) ==
  /\ stage[r] = "idle"
  /\ IF row[i] # Absent /\ (i \in Registered \/ clock < cachedUntil[i])
     THEN UNCHANGED resolverVars
     ELSE /\ i \in Documents
          /\ stage' = [stage EXCEPT ![r] = "missed"]
          /\ asked' = [asked EXCEPT ![r] = i]
          /\ UNCHANGED <<got, gotAt>>
  /\ UNCHANGED <<clock, limiterVars, document, rowVars>>

\* resolve_client: a row is returned whatever its age
Resolve(r, i) ==
  /\ stage[r] = "idle"
  /\ IF row[i] # Absent
     THEN UNCHANGED resolverVars
     ELSE /\ i \in Documents
          /\ stage' = [stage EXCEPT ![r] = "missed"]
          /\ asked' = [asked EXCEPT ![r] = i]
          /\ UNCHANGED <<got, gotAt>>
  /\ UNCHANGED <<clock, limiterVars, document, rowVars>>

\* _resolve_cimd_client: the limiter comes before the cache
AskLimiter(r) ==
  /\ stage[r] = "missed"
  /\ \E ok \in BOOLEAN :
       /\ Check(Address, ok)
       /\ IF ok THEN MoveTo(r, "admitted") ELSE Leave(r)
  /\ UNCHANGED <<clock, document, rowVars>>

\* another request may have filled the cache since Resolve missed the row
ReadCache(r) ==
  /\ stage[r] = "admitted"
  /\ IF row[asked[r]] # Absent /\ clock < cachedUntil[asked[r]]
     THEN Leave(r)
     ELSE MoveTo(r, "fetching")
  /\ UNCHANGED <<clock, limiterVars, document, rowVars>>

\* the document arrives and passes its checks, or nothing is stored
Fetch(r) ==
  /\ stage[r] = "fetching"
  /\ \/ Leave(r)
     \/ /\ document[asked[r]] # Bad
        /\ stage' = [stage EXCEPT ![r] = "fetched"]
        /\ got' = [got EXCEPT ![r] = document[asked[r]]]
        /\ gotAt' = [gotAt EXCEPT ![r] = clock]
        /\ UNCHANGED asked
  /\ UNCHANGED <<clock, limiterVars, document, rowVars>>

\* upsert_oauth_client, with its commit
StoreRow(r) ==
  /\ stage[r] = "fetched"
  /\ row' = [row EXCEPT ![asked[r]] = got[r]]
  /\ MoveTo(r, "stored")
  /\ UNCHANGED <<clock, limiterVars, document, cachedUntil>>

\* then the cache row; the request goes on with what it fetched itself
StoreCache(r) ==
  /\ stage[r] = "stored"
  /\ cachedUntil' = [cachedUntil EXCEPT ![asked[r]] = gotAt[r] + CacheTTL]
  /\ Leave(r)
  /\ UNCHANGED <<clock, limiterVars, document, row>>

\* the client's owner publishes another document
Publish(i) ==
  /\ document' \in {[document EXCEPT ![i] = v] : v \in Versions \cup {Bad}}
  /\ UNCHANGED <<clock, limiterVars, rowVars, resolverVars>>

Restart ==
  /\ Clear
  /\ stage' = [r \in Resolvers |-> "idle"]
  /\ asked' = [r \in Resolvers |-> NoClient]
  /\ got' = [r \in Resolvers |-> Absent]
  /\ gotAt' = [r \in Resolvers |-> Unset]
  /\ UNCHANGED <<clock, document, rowVars>>

ClientsTick ==
  /\ ClockTick
  /\ UNCHANGED <<document, rowVars, resolverVars>>

ClientsNext ==
  \/ \E i \in Registered : Register(i)
  \/ \E r \in Resolvers :
       \/ \E i \in Ids : Resolve(r, i)
       \/ AskLimiter(r) \/ ReadCache(r) \/ Fetch(r)
       \/ StoreRow(r) \/ StoreCache(r)
  \/ \E i \in Documents : Publish(i)
  \/ Restart
  \/ ClientsTick

ClientsSpec == ClientsInit /\ [][ClientsNext]_clientsVars

-----------------------------------------------------------------------------
\* Once a client has its row and the requests that had missed it are over, the
\* row alone resolves it, and stays as it is: no request for it comes to the
\* limiter, the cache or the document any more, so neither a refusal of these
\* nor a document published later reaches an exchange or a rotation of refresh
\* tokens, which commit before they resolve the client (resolve_client).
Settled(i) == row[i] # Absent /\ \A r \in Resolvers : asked[r] # i

SettledForGood ==
  [][\A i \in Ids : Settled(i) => row'[i] = row[i] /\ Settled(i)']_clientsVars

=============================================================================
