------------------------- MODULE ClientAccess_proofs -------------------------
(***************************************************************************)
(* Proofs about ClientAccess, for any sets of requests, one-time tokens,   *)
(* connections and access tokens.  Because nobody rolls back, what is on   *)
(* disk is an earlier state of the tables, and the tables only grow and    *)
(* move forwards between two stops: OnDisk says so, and every invariant    *)
(* below is kept by a stop because it holds of the disk as well.           *)
(***************************************************************************)
EXTENDS ClientAccess, TLAPS

\* What is on disk has not been undone since the commit that put it there.
OnDisk ==
  /\ \A t \in Tickets : disk.ticket[t] = "used" => db.ticket[t] = "used"
  /\ \A c \in Connections :
       /\ disk.conn[c] # "none" => db.conn[c] # "none"
       /\ disk.conn[c] = "revoked" => db.conn[c] = "revoked"
  /\ \A p \in Pats :
       /\ disk.pat[p] # "none" => db.pat[p] # "none" /\ db.owner[p] = disk.owner[p]
       /\ disk.pat[p] = "revoked" => db.pat[p] = "revoked"

\* An access token belongs to a connection that is there.
Owned(T) ==
  \A p \in Pats : T.pat[p] # "none" =>
    T.owner[p] \in Connections /\ T.conn[T.owner[p]] # "none"

\* What a request works on is there.
WorkInv ==
  \A r \in Requests :
    /\ pc[r] = "idle" => ticket[r] = None
    /\ pc[r] \in {"opening", "opened", "checked", "disconnecting", "cutting",
                  "disconnected"} => db.conn[conn[r]] # "none"
    /\ pc[r] \in {"issuing", "revoked", "matched", "served"} =>
         db.pat[pat[r]] # "none"

Inv == TypeOK /\ OnDisk /\ Owned(db) /\ Owned(disk) /\ WorkInv

-----------------------------------------------------------------------------

LEMMA InitInv == Init => Inv
BY NoneAssumption DEF Init, Inv, TypeOK, Tables, Steps, OnDisk, Owned, WorkInv

\* Between two stops no row goes and none moves backwards.
Forward ==
  /\ \A t \in Tickets : db.ticket[t] = "used" => db'.ticket[t] = "used"
  /\ \A c \in Connections :
       /\ db.conn[c] # "none" => db'.conn[c] # "none"
       /\ db.conn[c] = "revoked" => db'.conn[c] = "revoked"
  /\ \A p \in Pats :
       /\ db.pat[p] # "none" => db'.pat[p] # "none" /\ db'.owner[p] = db.owner[p]
       /\ db.pat[p] = "revoked" => db'.pat[p] = "revoked"

\* What is written to disk is the tables; an expiry is a matter of time and
\* shows in both at once.
Writes ==
  \/ disk' = disk
  \/ disk' = db'
  \/ /\ disk'.conn = disk.conn /\ disk'.pat = disk.pat /\ disk'.owner = disk.owner
     /\ \A t \in Tickets : disk'.ticket[t] = "used" <=> disk.ticket[t] = "used"

Moves == Forward /\ Writes /\ Owned(db)' /\ db' \in Tables /\ disk' \in Tables

LEMMA StepShape ==
  ASSUME Inv, [Next]_vars
  PROVE  Stop \/ Moves
<1>0. db \in Tables /\ disk \in Tables
  BY DEF Inv, TypeOK
<1>1. ASSUME UNCHANGED db, disk' \in {disk, db}
      PROVE  Moves
  BY <1>0, <1>1 DEF Moves, Forward, Writes, Inv, Owned
<1>2. CASE UNCHANGED vars \/ OtherCommit
  BY <1>1, <1>2 DEF vars, OtherCommit, Commit
<1>3. ASSUME NEW t \in Tickets, IssueTicket(t)
      PROVE  Moves
  <2>1. /\ db' \in Tables /\ db'.ticket = [db.ticket EXCEPT ![t] = "open"]
        /\ db'.conn = db.conn /\ db'.pat = db.pat /\ db'.owner = db.owner
    BY <1>0, <1>3 DEF IssueTicket, Tables
  <2>2. db.ticket[t] = "none" /\ disk' = db'
    BY <1>3 DEF IssueTicket
  <2>3. QED  BY <1>0, <2>1, <2>2 DEF Moves, Forward, Writes, Inv, Owned, Tables
<1>4. ASSUME NEW t \in Tickets, Expire(t)
      PROVE  Moves
  <2>1. /\ db' \in Tables /\ db'.ticket = [db.ticket EXCEPT ![t] = "expired"]
        /\ db'.conn = db.conn /\ db'.pat = db.pat /\ db'.owner = db.owner
    BY <1>0, <1>4 DEF Expire, Tables
  <2>2. /\ disk' \in Tables /\ disk'.ticket = [disk.ticket EXCEPT ![t] = "expired"]
        /\ disk'.conn = disk.conn /\ disk'.pat = disk.pat /\ disk'.owner = disk.owner
    BY <1>0, <1>4 DEF Expire, Tables
  <2>3. db.ticket[t] = "open" /\ disk.ticket[t] = "open"
    BY <1>4 DEF Expire
  <2>4. \A u \in Tickets : /\ disk'.ticket[u] = "used" <=> disk.ticket[u] = "used"
                           /\ db'.ticket[u] = "used" <=> db.ticket[u] = "used"
    BY <1>0, <2>1, <2>2, <2>3 DEF Tables
  <2>5. QED  BY <2>1, <2>2, <2>4 DEF Moves, Forward, Writes, Inv, Owned
<1>5. ASSUME NEW r \in Requests, NEW t \in Tickets, Consume(r, t)
      PROVE  Moves
  <2>1. /\ db' \in Tables /\ db'.ticket = [db.ticket EXCEPT ![t] = "used"]
        /\ db'.conn = db.conn /\ db'.pat = db.pat /\ db'.owner = db.owner
    BY <1>0, <1>5 DEF Consume, Tables
  <2>2. disk' = disk
    BY <1>5 DEF Consume
  <2>3. QED  BY <1>0, <2>1, <2>2 DEF Moves, Forward, Writes, Inv, Owned, Tables
<1>6. ASSUME NEW r \in Requests, NEW c \in Connections, Open(r, c)
      PROVE  Moves
  <2>1. /\ db' \in Tables /\ db'.conn = [db.conn EXCEPT ![c] = "active"]
        /\ db'.ticket = db.ticket /\ db'.pat = db.pat /\ db'.owner = db.owner
    BY <1>0, <1>6 DEF Open, Tables
  <2>2. disk' = disk /\ db.conn[c] = "none"
    BY <1>6 DEF Open
  <2>3. QED  BY <1>0, <2>1, <2>2 DEF Moves, Forward, Writes, Inv, Owned, Tables
<1>7. ASSUME NEW r \in Requests, NEW c \in Connections, Disconnect(r, c)
      PROVE  Moves
  <2>1. /\ db' \in Tables /\ db'.conn = [db.conn EXCEPT ![c] = "revoked"]
        /\ db'.ticket = db.ticket /\ db'.pat = db.pat /\ db'.owner = db.owner
    BY <1>0, <1>7 DEF Disconnect, Tables
  <2>2. disk' = disk
    BY <1>7 DEF Disconnect
  <2>3. QED  BY <1>0, <2>1, <2>2 DEF Moves, Forward, Writes, Inv, Owned, Tables
<1>8. ASSUME NEW r \in Requests, NEW p \in Pats, InsertPat(r, p)
      PROVE  Moves
  <2>1. /\ db.pat[p] = "none" /\ disk' = disk
        /\ conn[r] \in Connections /\ db.conn[conn[r]] # "none"
        /\ db' = [db EXCEPT !.pat[p] = "active", !.owner[p] = conn[r]]
    BY <1>8, NoneAssumption DEF InsertPat, Inv, TypeOK, WorkInv
  <2>2. /\ db' \in Tables
        /\ db'.pat = [db.pat EXCEPT ![p] = "active"]
        /\ db'.owner = [db.owner EXCEPT ![p] = conn[r]]
        /\ db'.ticket = db.ticket /\ db'.conn = db.conn
    BY <1>0, <2>1 DEF Tables
  <2>3. QED  BY <1>0, <2>1, <2>2 DEF Moves, Forward, Writes, Inv, Owned, Tables
<1>10. ASSUME NEW r \in Requests, NEW p \in Pats, RevokePat(r, p)
       PROVE  Moves
  <2>1. db.pat[p] # "none" /\ disk' = disk
    BY <1>10 DEF RevokePat
  <2>2. [db.pat EXCEPT ![p] = "revoked"] \in [Pats -> {"none", "active", "revoked"}]
    BY <1>0 DEF Tables
  <2>3. db' = [db EXCEPT !.pat = [db.pat EXCEPT ![p] = "revoked"]]
    BY <1>0, <1>10 DEF RevokePat, Tables
  <2>4. /\ db' \in Tables /\ db'.pat = [db.pat EXCEPT ![p] = "revoked"]
        /\ db'.ticket = db.ticket /\ db'.conn = db.conn /\ db'.owner = db.owner
    BY <1>0, <2>2, <2>3 DEF Tables
  <2>5. QED  BY <1>0, <2>1, <2>4 DEF Moves, Forward, Writes, Inv, Owned, Tables
<1>11. ASSUME NEW r \in Requests, CutTokens(r)
       PROVE  Moves
  <2> DEFINE f == [p \in Pats |-> IF p \in TokensOf(conn[r]) THEN "revoked" ELSE db.pat[p]]
  <2>1. /\ db' = [db EXCEPT !.pat = f] /\ disk' = disk
        /\ conn[r] \in Connections /\ db.conn[conn[r]] # "none"
    BY <1>11, NoneAssumption DEF CutTokens, Inv, TypeOK, WorkInv
  <2>2. f \in [Pats -> {"none", "active", "revoked"}]
    BY <1>0 DEF Tables
  <2>3. /\ db' \in Tables /\ db'.pat = f
        /\ db'.ticket = db.ticket /\ db'.conn = db.conn /\ db'.owner = db.owner
    BY <1>0, <2>1, <2>2 DEF Tables
  <2>4. \A p \in Pats : p \in TokensOf(conn[r]) => db.owner[p] = conn[r]
    BY DEF TokensOf
  <2>5. QED  BY <1>0, <2>1, <2>3, <2>4 DEF Moves, Forward, Writes, Inv, Owned, Tables
<1>12. ASSUME NEW r \in Requests,
              \/ \E c \in Connections : AskToken(r, c)
              \/ \E p \in Pats : Match(r, p)
              \/ CheckActive(r) \/ Done(r)
              \/ Claim(r) \/ Opened(r) \/ Deliver(r) \/ Disconnected(r)
              \/ PatRevoked(r) \/ Serve(r)
       PROVE  Moves
  BY <1>1, <1>12 DEF AskToken, CheckActive, Match, Done, Claim, Opened, Deliver,
                     Disconnected, PatRevoked, Serve, Commit
<1>13. QED
  BY <1>2, <1>3, <1>4, <1>5, <1>6, <1>7, <1>8, <1>10, <1>11, <1>12 DEF Next

LEMMA TypeStep == Inv /\ [Next]_vars => TypeOK'
<1> SUFFICES ASSUME Inv, [Next]_vars PROVE TypeOK'
  OBVIOUS
<1>1. TypeOK
  BY DEF Inv
<1>2. db' \in Tables /\ disk' \in Tables
  BY <1>1, StepShape DEF Moves, Stop, TypeOK
<1> USE <1>1, <1>2, NoneAssumption DEF TypeOK, Steps, requestVars, historyVars
<1>3. CASE OtherCommit \/ UNCHANGED vars
  BY <1>3 DEF OtherCommit, vars
<1>a. CASE Stop
  <2>1. origin' \in [Connections -> Tickets \cup {None}]
    BY <1>a DEF Stop
  <2>2. QED  BY <1>a, <2>1 DEF Stop
<1>b. ASSUME NEW r \in Requests, Return(r), origin' = origin,
             delivered' \in SUBSET Pats, withdrawn' \in SUBSET (Pats \cup Connections)
      PROVE  TypeOK'
  <2>1. /\ pc' \in [Requests -> Steps] /\ pc'[r] = "idle"
        /\ \A q \in Requests \ {r} : /\ pc'[q] = pc[q] /\ ticket'[q] = ticket[q]
                                     /\ conn'[q] = conn[q] /\ pat'[q] = pat[q]
    BY <1>b DEF Return
  <2>2. /\ ticket' \in [Requests -> Tickets \cup {None}]
        /\ conn' \in [Requests -> Connections \cup {None}]
        /\ pat' \in [Requests -> Pats \cup {None}]
        /\ wasWithdrawn' \in [Requests -> BOOLEAN]
    BY <1>b DEF Return
  <2>3. QED  BY <1>b, <2>1, <2>2
<1>4. CASE \E t \in Tickets : IssueTicket(t) \/ Expire(t)
  BY <1>4 DEF IssueTicket, Expire
<1>5. ASSUME NEW r \in Requests, NEW t \in Tickets, Consume(r, t)
      PROVE  TypeOK'
  BY <1>5 DEF Consume, GoTo
<1>6. ASSUME NEW r \in Requests, Claim(r) \/ Opened(r)
      PROVE  TypeOK'
  <2>1. CASE Return(r)
    BY <1>6, <1>b, <2>1 DEF Claim, Opened
  <2>2. CASE ~Return(r)
    BY <1>6, <2>2 DEF Claim, Opened, GoTo
  <2>3. QED  BY <2>1, <2>2
<1>7. ASSUME NEW r \in Requests, NEW c \in Connections, Open(r, c)
      PROVE  TypeOK'
  BY <1>7 DEF Open, GoTo
<1>8. ASSUME NEW r \in Requests, NEW c \in Connections, AskToken(r, c) \/ Disconnect(r, c)
      PROVE  TypeOK'
  BY <1>8 DEF AskToken, Disconnect, GoTo
<1>9. ASSUME NEW r \in Requests, CheckActive(r) \/ Done(r)
      PROVE  TypeOK'
  <2>1. CASE Return(r)
    BY <1>9, <1>b, <2>1 DEF CheckActive, Done
  <2>2. CASE ~Return(r)
    BY <1>9, <2>2 DEF CheckActive, Done, GoTo
  <2>3. QED  BY <2>1, <2>2
<1>10. ASSUME NEW r \in Requests, NEW p \in Pats,
              InsertPat(r, p) \/ RevokePat(r, p)
       PROVE  TypeOK'
  BY <1>10 DEF InsertPat, RevokePat, GoTo
<1>11. ASSUME NEW r \in Requests, NEW p \in Pats, Match(r, p)
       PROVE  TypeOK'
  BY <1>11 DEF Match, GoTo
<1>12. ASSUME NEW r \in Requests, Deliver(r) \/ PatRevoked(r)
       PROVE  TypeOK'
  BY <1>12, <1>b DEF Deliver, PatRevoked
<1>13. ASSUME NEW r \in Requests, Disconnected(r)
       PROVE  TypeOK'
  BY <1>13, <1>b DEF Disconnected
<1>14. ASSUME NEW r \in Requests, CutTokens(r) \/ Serve(r)
       PROVE  TypeOK'
  BY <1>14 DEF CutTokens, Serve, GoTo
<1>15. QED
  BY <1>3, <1>a, <1>4, <1>5, <1>6, <1>7, <1>8, <1>9, <1>10, <1>11, <1>12,
     <1>13, <1>14 DEF Next

LEMMA InvStep == Inv /\ [Next]_vars => Inv'
<1> SUFFICES ASSUME Inv, [Next]_vars PROVE Inv'
  OBVIOUS
<1>1. TypeOK /\ TypeOK'
  BY TypeStep DEF Inv
<1>2. CASE Stop
  BY <1>1, <1>2 DEF Stop, Inv, OnDisk, Owned, WorkInv, TypeOK
<1>3. CASE Moves
  <2>1. OnDisk' /\ Owned(db)' /\ Owned(disk)'
    BY <1>3 DEF Moves, Forward, Writes, Inv, OnDisk, Owned
  <2>2. ASSUME UNCHANGED requestVars
        PROVE  WorkInv'
    BY <1>1, <1>3, <2>2 DEF Moves, Forward, Inv, WorkInv, TypeOK, requestVars
  <2>3. ASSUME OtherCommit \/ UNCHANGED vars
        PROVE  WorkInv'
    <3>1. UNCHANGED requestVars
      BY <2>3 DEF OtherCommit, vars
    <3>2. QED  BY <2>2, <3>1
  <2>4. ASSUME NEW t \in Tickets, IssueTicket(t) \/ Expire(t)
        PROVE  WorkInv'
    <3>1. UNCHANGED requestVars
      BY <2>4 DEF IssueTicket, Expire
    <3>2. QED  BY <2>2, <3>1
  <2> USE <1>1, <1>3, NoneAssumption
      DEF Moves, Forward, Inv, WorkInv, TypeOK, Tables, requestVars, historyVars
  <2>5. ASSUME NEW r \in Requests, NEW t \in Tickets, Consume(r, t)
        PROVE  WorkInv'
    BY <2>5 DEF Consume, GoTo
  <2>6. ASSUME NEW r \in Requests, NEW c \in Connections,
               Open(r, c) \/ AskToken(r, c) \/ Disconnect(r, c)
        PROVE  WorkInv'
    BY <2>6 DEF Open, AskToken, Disconnect, GoTo
  <2>7. ASSUME NEW r \in Requests, NEW p \in Pats,
               InsertPat(r, p) \/ RevokePat(r, p) \/ Match(r, p)
        PROVE  WorkInv'
    <3>1. CASE InsertPat(r, p)
      BY <3>1 DEF InsertPat, GoTo
    <3>2. CASE RevokePat(r, p)
      BY <3>2 DEF RevokePat, GoTo
    <3>3. CASE Match(r, p)
      BY <3>3 DEF Match, GoTo
    <3>4. QED  BY <2>7, <3>1, <3>2, <3>3
  <2>8. ASSUME NEW r \in Requests,
               Claim(r) \/ Opened(r) \/ CheckActive(r) \/ Deliver(r)
        PROVE  WorkInv'
    BY <2>8 DEF Claim, Opened, CheckActive, Deliver, GoTo, Return
  <2>9. ASSUME NEW r \in Requests,
               CutTokens(r) \/ Disconnected(r) \/ PatRevoked(r) \/ Serve(r) \/ Done(r)
        PROVE  WorkInv'
    BY <2>9 DEF CutTokens, Disconnected, PatRevoked, Serve, Done, GoTo, Return
  <2> HIDE DEF Moves, Forward, Inv, WorkInv, TypeOK, Tables, requestVars, historyVars
  <2>10. WorkInv'
    BY <1>2, <2>5, <2>6, <2>7, <2>8, <2>9, <2>3, <2>4 DEF Next, Inv
  <2>11. QED  BY <1>1, <2>1, <2>10 DEF Inv
<1>4. QED  BY <1>2, <1>3, StepShape

\* The variables keep their types.
THEOREM TypeCorrect == Spec => []TypeOK
<1>1. Inv => TypeOK
  BY DEF Inv
<1>2. QED  BY <1>1, InitInv, InvStep, PTL DEF Spec

-----------------------------------------------------------------------------
(* One-time tokens.  A used token has one holder, a request between the    *)
(* UPDATE that uses it and the INSERT of the connection, or it was spent   *)
(* on one connection; and the holder's commit has put the use on disk      *)
(* before the connection exists.                                           *)

Holds(r) == pc[r] \in {"consumed", "claimed"}

TicketInv ==
  /\ \A r \in Requests : ticket[r] # None => db.ticket[ticket[r]] = "used"
  /\ \A r \in Requests : ticket[r] # None /\ pc[r] # "consumed" =>
       disk.ticket[ticket[r]] = "used"
  /\ \A c \in Connections : origin[c] # None =>
       disk.ticket[origin[c]] = "used" /\ db.conn[c] # "none"
  /\ \A r, s \in Requests : Holds(r) /\ Holds(s) /\ ticket[r] = ticket[s] => r = s
  /\ \A r \in Requests, c \in Connections : Holds(r) => origin[c] # ticket[r]
  /\ \A c, d \in Connections : origin[c] # None /\ origin[c] = origin[d] => c = d

LEMMA TicketStep == Inv /\ TicketInv /\ [Next]_vars => TicketInv'
<1> SUFFICES ASSUME Inv, TicketInv, [Next]_vars PROVE TicketInv'
  OBVIOUS
<1>1. TypeOK /\ TypeOK' /\ Inv'
  BY InvStep DEF Inv
<1>2. CASE Stop
  BY <1>1, <1>2 DEF Stop, TicketInv, Holds, TypeOK, Inv, OnDisk
<1>3. CASE Moves
  <2>1. /\ \A t \in Tickets : db.ticket[t] = "used" => db'.ticket[t] = "used"
        /\ \A t \in Tickets : disk.ticket[t] = "used" => disk'.ticket[t] = "used"
        /\ \A c \in Connections : db.conn[c] # "none" => db'.conn[c] # "none"
    BY <1>3 DEF Moves, Forward, Writes, Inv, OnDisk
  <2> HIDE <1>3
  <2> USE <1>1, <2>1, NoneAssumption
      DEF TicketInv, Holds, TypeOK, requestVars, historyVars
  <2>2. ASSUME UNCHANGED <<ticket, origin>>,
               \A r \in Requests : \/ pc'[r] = pc[r]
                                   \/ pc'[r] \notin {"consumed", "claimed"} /\ ticket[r] = None
                                   \/ pc'[r] \notin {"consumed", "claimed"} /\ pc[r] # "consumed"
        PROVE  TicketInv'
    BY <2>2
  <2>3. ASSUME NEW r \in Requests, Return(r), UNCHANGED origin
        PROVE  TicketInv'
    BY <2>3 DEF Return
  <2>4. ASSUME NEW r \in Requests, NEW t \in Tickets, Consume(r, t)
        PROVE  TicketInv'
    <3>1. db.ticket[t] = "open" /\ db'.ticket[t] = "used" /\ disk' = disk
      BY <2>4 DEF Consume, Tables
    <3>2. disk.ticket[t] # "used"
      BY <3>1 DEF Inv, OnDisk
    <3>3. QED  BY <2>4, <3>1, <3>2 DEF Consume, GoTo
  <2>5. ASSUME NEW r \in Requests, Claim(r)
        PROVE  TicketInv'
    <3>1. disk' = db' /\ db' = db /\ pc[r] = "consumed" /\ UNCHANGED origin
      BY <2>5 DEF Claim, Commit
    <3>2. CASE Return(r)
      BY <2>3, <3>1, <3>2
    <3>3. CASE GoTo(r, "claimed") /\ UNCHANGED <<ticket, conn, pat, wasWithdrawn>>
      BY <3>1, <3>3 DEF GoTo
    <3>4. QED  BY <2>5, <3>2, <3>3 DEF Claim
  <2>6. ASSUME NEW r \in Requests, NEW c \in Connections, Open(r, c)
        PROVE  TicketInv'
    <3>1. /\ db.conn[c] = "none" /\ db'.conn[c] = "active"
          /\ pc' = [pc EXCEPT ![r] = "opening"]
          /\ origin' = [origin EXCEPT ![c] = ticket[r]]
          /\ UNCHANGED <<disk, ticket>>
          /\ pc[r] = "claimed" \/ (pc[r] = "idle" /\ ticket[r] = None)
      BY <2>6 DEF Open, GoTo, Tables, Inv, WorkInv
    <3>2. origin[c] = None
      BY <3>1
    <3>3. QED  BY <3>1, <3>2
  <2>7. ASSUME NEW r \in Requests, Opened(r) \/ CheckActive(r)
        PROVE  TicketInv'
    BY <2>2, <2>3, <2>7 DEF Opened, CheckActive, GoTo
  <2>8. ASSUME NEW r \in Requests, Deliver(r) \/ Disconnected(r) \/ PatRevoked(r) \/ Done(r)
        PROVE  TicketInv'
    BY <2>3, <2>8 DEF Deliver, Disconnected, PatRevoked, Done
  <2>9. ASSUME NEW r \in Requests,
               \/ \E c \in Connections : AskToken(r, c) \/ Disconnect(r, c)
               \/ \E p \in Pats : InsertPat(r, p) \/ RevokePat(r, p) \/ Match(r, p)
               \/ CutTokens(r) \/ Serve(r)
        PROVE  TicketInv'
    <3>1. UNCHANGED <<ticket, origin>>
      BY <2>9 DEF AskToken, Disconnect, InsertPat, RevokePat, Match, CutTokens, Serve
    <3>2. \/ pc[r] = "idle" /\ ticket[r] = None
          \/ pc[r] \in {"checked", "cutting", "matched"}
      BY <2>9 DEF AskToken, Disconnect, InsertPat, RevokePat, Match, CutTokens, Serve,
                  Inv, WorkInv
    <3>3. \E step \in Steps \ {"consumed", "claimed"} : pc' = [pc EXCEPT ![r] = step]
      BY <2>9 DEF AskToken, Disconnect, InsertPat, RevokePat, Match, CutTokens, Serve,
                  GoTo, Steps
    <3>4. QED  BY <2>2, <3>1, <3>2, <3>3
  <2>10. CASE OtherCommit \/ UNCHANGED vars \/ \E t \in Tickets : IssueTicket(t) \/ Expire(t)
    BY <2>2, <2>10 DEF OtherCommit, vars, IssueTicket, Expire
  <2>11. QED
    BY <1>2, <2>4, <2>5, <2>6, <2>7, <2>8, <2>9, <2>10 DEF Next
<1>4. QED  BY <1>2, <1>3, StepShape

\* A one-time token opens at most one connection, also across stops.
THEOREM TicketsOpenOne == Spec => []TicketOpensOne
<1>1. Init => TicketInv
  BY DEF Init, TicketInv, Holds
<1>2. TicketInv => TicketOpensOne
  BY DEF TicketInv, TicketOpensOne
<1>3. QED  BY <1>1, <1>2, InitInv, InvStep, TicketStep, PTL DEF Spec

-----------------------------------------------------------------------------
(* What a client holds, and what was taken from it, is on disk.            *)

PromiseInv ==
  /\ \A p \in delivered : disk.pat[p] # "none"
  /\ \A c \in withdrawn \cap Connections : disk.conn[c] = "revoked"
  /\ \A p \in withdrawn \cap Pats : disk.pat[p] = "revoked"
  /\ \A r \in Requests :
       /\ pc[r] \in {"cutting", "disconnected"} => db.conn[conn[r]] = "revoked"
       /\ pc[r] = "revoked" => db.pat[pat[r]] = "revoked"
       /\ ~wasWithdrawn[r]

LEMMA PromiseStep == Inv /\ PromiseInv /\ [Next]_vars => PromiseInv'
<1> SUFFICES ASSUME Inv, PromiseInv, [Next]_vars PROVE PromiseInv'
  OBVIOUS
<1>1. TypeOK /\ TypeOK' /\ Inv'
  BY InvStep DEF Inv
<1>2. CASE Stop
  BY <1>1, <1>2 DEF Stop, PromiseInv, TypeOK
<1>3. CASE Moves
  <2>1. /\ \A p \in Pats : /\ disk.pat[p] # "none" => disk'.pat[p] # "none"
                           /\ disk.pat[p] = "revoked" => disk'.pat[p] = "revoked"
                           /\ db.pat[p] = "revoked" => db'.pat[p] = "revoked"
                           /\ disk.pat[p] = "revoked" => db.pat[p] = "revoked"
        /\ \A c \in Connections :
             /\ disk.conn[c] = "revoked" => disk'.conn[c] = "revoked"
             /\ disk.conn[c] = "revoked" => db.conn[c] = "revoked"
             /\ db.conn[c] = "revoked" => db'.conn[c] = "revoked"
    BY <1>3 DEF Moves, Forward, Writes, Inv, OnDisk
  <2> HIDE <1>3
  <2> USE <1>1, <2>1, NoneAssumption, DisjointAssumption
      DEF PromiseInv, TypeOK, requestVars, historyVars
  <2>2. ASSUME UNCHANGED <<delivered, withdrawn>>,
               \A r \in Requests :
                 /\ pc'[r] \in {"cutting", "disconnected", "revoked"} =>
                      pc'[r] = pc[r] /\ conn'[r] = conn[r] /\ pat'[r] = pat[r]
                 /\ wasWithdrawn'[r] => wasWithdrawn[r]
        PROVE  PromiseInv'
    BY <2>2
  <2>3. ASSUME NEW r \in Requests, Return(r)
        PROVE  \A q \in Requests :
                 /\ pc'[q] \in {"cutting", "disconnected", "revoked"} =>
                      pc'[q] = pc[q] /\ conn'[q] = conn[q] /\ pat'[q] = pat[q]
                 /\ wasWithdrawn'[q] => wasWithdrawn[q]
    BY <2>3 DEF Return
  <2>4. ASSUME NEW r \in Requests,
               NEW step \in Steps \ {"cutting", "disconnected", "revoked"},
               GoTo(r, step), UNCHANGED wasWithdrawn,
               \A q \in Requests \ {r} : conn'[q] = conn[q] /\ pat'[q] = pat[q]
        PROVE  \A q \in Requests :
                 /\ pc'[q] \in {"cutting", "disconnected", "revoked"} =>
                      pc'[q] = pc[q] /\ conn'[q] = conn[q] /\ pat'[q] = pat[q]
                 /\ wasWithdrawn'[q] => wasWithdrawn[q]
    BY <2>4 DEF GoTo
  <2>5. CASE OtherCommit \/ UNCHANGED vars \/ \E t \in Tickets : IssueTicket(t) \/ Expire(t)
    <3>1. UNCHANGED <<requestVars, historyVars>>
      BY <2>5 DEF OtherCommit, vars, IssueTicket, Expire
    <3>2. QED  BY <2>2, <3>1
  <2>6. ASSUME NEW r \in Requests, Claim(r) \/ Opened(r) \/ CheckActive(r) \/ Done(r)
        PROVE  PromiseInv'
    <3>1. UNCHANGED historyVars
      BY <2>6 DEF Claim, Opened, CheckActive, Done
    <3>2. \/ Return(r)
          \/ /\ \E step \in {"claimed", "opened", "checked"} : GoTo(r, step)
             /\ UNCHANGED <<conn, pat, wasWithdrawn>>
      BY <2>6 DEF Claim, Opened, CheckActive, Done
    <3>3. QED  BY <2>2, <2>3, <2>4, <3>1, <3>2 DEF Steps
  <2>7. ASSUME NEW r \in Requests,
               \/ \E t \in Tickets : Consume(r, t)
               \/ \E c \in Connections : Open(r, c) \/ AskToken(r, c)
               \/ \E p \in Pats : InsertPat(r, p)
               \/ Serve(r)
        PROVE  PromiseInv'
    <3>1. UNCHANGED <<delivered, withdrawn, wasWithdrawn>>
      BY <2>7 DEF Consume, Open, AskToken, InsertPat, Serve
    <3>2. /\ \E step \in {"consumed", "opening", "opened", "issuing", "served"} : GoTo(r, step)
          /\ \A q \in Requests \ {r} : conn'[q] = conn[q] /\ pat'[q] = pat[q]
      BY <2>7 DEF Consume, Open, AskToken, InsertPat, Serve
    <3>3. QED  BY <2>2, <2>4, <3>1, <3>2 DEF Steps
  <2>8. ASSUME NEW r \in Requests, Deliver(r)
        PROVE  PromiseInv'
    <3>1. /\ disk' = db /\ delivered' = delivered \cup {pat[r]} /\ Return(r)
          /\ withdrawn' = withdrawn /\ pc[r] = "issuing"
      BY <2>8 DEF Deliver, Commit
    <3>2. pat[r] \in Pats /\ disk'.pat[pat[r]] # "none"
      BY <3>1 DEF Inv, WorkInv
    <3>3. QED  BY <2>3, <3>1, <3>2
  <2>9. ASSUME NEW r \in Requests, NEW c \in Connections, Disconnect(r, c)
        PROVE  PromiseInv'
    <3>1. db'.conn[c] = "revoked"
      BY <2>9 DEF Disconnect, Tables
    <3>2. QED  BY <2>9, <3>1 DEF Disconnect, GoTo
  <2>10. ASSUME NEW r \in Requests, CutTokens(r)
         PROVE  PromiseInv'
    BY <2>10 DEF CutTokens, GoTo
  <2>11. ASSUME NEW r \in Requests, Disconnected(r)
         PROVE  PromiseInv'
    <3>1. /\ disk' = db /\ withdrawn' = withdrawn \cup {conn[r]} /\ Return(r)
          /\ delivered' = delivered /\ pc[r] = "disconnected"
      BY <2>11 DEF Disconnected, Commit
    <3>2. conn[r] \in Connections /\ disk'.conn[conn[r]] = "revoked"
      BY <3>1
    <3>3. QED  BY <2>3, <3>1, <3>2
  <2>12. ASSUME NEW r \in Requests, NEW p \in Pats, RevokePat(r, p)
         PROVE  PromiseInv'
    <3>1. db'.pat[p] = "revoked"
      BY <2>12 DEF RevokePat, Tables
    <3>2. QED  BY <2>12, <3>1 DEF RevokePat, GoTo
  <2>13. ASSUME NEW r \in Requests, PatRevoked(r)
         PROVE  PromiseInv'
    <3>1. /\ disk' = db /\ withdrawn' = withdrawn \cup {pat[r]} /\ Return(r)
          /\ delivered' = delivered /\ pc[r] = "revoked"
      BY <2>13 DEF PatRevoked, Commit
    <3>2. pat[r] \in Pats /\ disk'.pat[pat[r]] = "revoked"
      BY <3>1
    <3>3. QED  BY <2>3, <3>1, <3>2
  <2>14. ASSUME NEW r \in Requests, NEW p \in Pats, Match(r, p)
         PROVE  PromiseInv'
    <3>1. db.pat[p] = "active" /\ db.owner[p] \in Connections
      BY <2>14 DEF Match, Active, Inv, Owned
    <3>2. p \notin withdrawn /\ db.owner[p] \notin withdrawn
      BY <2>14, <3>1 DEF Match, Active
    <3>3. ~wasWithdrawn'[r]
      BY <2>14, <3>2 DEF Match
    <3>4. QED  BY <2>14, <3>3 DEF Match, GoTo
  <2>15. QED
    BY <1>2, <2>5, <2>6, <2>7, <2>8, <2>9, <2>10, <2>11, <2>12, <2>13, <2>14
       DEF Next
<1>4. QED  BY <1>2, <1>3, StepShape

LEMMA InitPromise == Init => PromiseInv
BY DEF Init, PromiseInv

\* A token that was handed out survives every stop, with its connection.
THEOREM DeliveriesAreDurable == Spec => []DeliveredIsDurable
<1>1. Inv /\ PromiseInv => DeliveredIsDurable
  BY DEF Inv, Owned, TypeOK, PromiseInv, DeliveredIsDurable
<1>2. QED  BY <1>1, InitInv, InvStep, InitPromise, PromiseStep, PTL DEF Spec

\* No request is let in whose token, or whose token's connection, had been
\* withdrawn before it came.
THEOREM WithdrawalsHold == Spec => []WithdrawnStaysOut
<1>1. PromiseInv => WithdrawnStaysOut
  BY DEF PromiseInv, WithdrawnStaysOut
<1>2. QED  BY <1>1, InitInv, InvStep, InitPromise, PromiseStep, PTL DEF Spec

=============================================================================
