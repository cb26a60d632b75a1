---------------------------- MODULE OAuth_proofs ----------------------------
(***************************************************************************)
(* Proofs about the authorization server: OAuthGrants, for any sets of     *)
(* requests, codes, pairs and keys and any lifetimes, then OAuthClients    *)
(* with its RateLimiter, for any clients, keys, limits and windows.  The   *)
(* two share no state.  The actions of OAuthGrants fall into few shapes:   *)
(* most only move a request, and the tables of codes, refresh tokens,      *)
(* access tokens and keys change in a handful of actions each.  So each    *)
(* table has an invariant of its own, and RequestInv ties the requests to  *)
(* them.                                                                   *)
(***************************************************************************)
EXTENDS OAuthGrants, OAuthClients, SequenceTheorems, TLAPS

\* A request that was given a pair was given one that has a row.
Holding == {"found", "rotated", "lost", "reuse", "decoded", "purged", "served"}
Exchanging == {"exchange", "connected"}

RequestInv ==
  /\ \A r \in Requests : pc[r] \in Exchanging => code[r] \in Codes
  /\ \A r \in Requests : pc[r] \in Holding =>
       pair[r] \in Pairs /\ family[pair[r]] # NoPair
  /\ \A p \in known : family[p] # NoPair

Inv == TypeOK /\ RequestInv

-----------------------------------------------------------------------------

LEMMA InitInv == Init => Inv
BY NonesAreNone, LifetimesAssumption
   DEF Init, Inv, TypeOK, RequestInv, Never, Steps, Holding, Exchanging

LEMMA IssueKeeps ==
  ASSUME Inv, NEW r \in Requests, NEW p \in Pairs, NEW f \in Pairs, Issue(r, p, f)
  PROVE  Inv'
<1> USE NonesAreNone, LifetimesAssumption DEF Inv, TypeOK, Issue, Return
<1>1. now + RefreshTTL \in Nat /\ now + AccessTTL \in Nat
  OBVIOUS
<1>2. TypeOK'
  BY <1>1 DEF keyVars, codeVars, Steps
<1>3. RequestInv'
  BY DEF RequestInv, Holding, Exchanging, keyVars, codeVars
<1>4. QED  BY <1>2, <1>3

LEMMA InvStep == Inv /\ [Next]_vars => Inv'
<1> SUFFICES ASSUME Inv, [Next]_vars PROVE Inv'
  OBVIOUS
<1> USE NonesAreNone, LifetimesAssumption
    DEF Inv, TypeOK, RequestInv, Holding, Exchanging, Steps, Never,
        keyVars, codeVars, refreshVars, accessVars, requestVars
<1>1. CASE \E k \in Keys : StoreKey(k)
  BY <1>1 DEF StoreKey
<1>2. CASE RecordKey \/ LoadKey
  BY <1>2 DEF RecordKey, LoadKey
<1>3. CASE Stop
  BY <1>3 DEF Stop
<1>4. CASE Tick
  BY <1>4 DEF Tick
<1>5. CASE \E c \in Codes : Authorize(c)
  BY <1>5 DEF Authorize
<1>6. CASE \E p \in Pairs : RevokeRefresh(p) \/ \E says \in Says : RevokeAccess(p, says)
  <2>1. CASE \E p \in Pairs : RevokeRefresh(p)
    BY <2>1 DEF RevokeRefresh
  <2>2. CASE \E p \in Pairs, says \in Says : RevokeAccess(p, says)
    BY <2>2, SaysAssumption DEF RevokeAccess, NoteRevocation
  <2>3. QED  BY <1>6, <2>1, <2>2
<1>7. ASSUME NEW r \in Requests, NEW c \in Codes, Consume(r, c)
      PROVE  Inv'
  BY <1>7 DEF Consume, Free
<1>8. ASSUME NEW r \in Requests, Connect(r)
      PROVE  Inv'
  BY <1>8 DEF Connect, GoTo
<1>9. ASSUME NEW r \in Requests, NEW p \in Pairs, IssueFirst(r, p)
      PROVE  Inv'
  BY <1>9, IssueKeeps DEF IssueFirst
<1>10. ASSUME NEW r \in Requests, NEW p \in Pairs, IssueNext(r, p)
       PROVE  Inv'
  <2>1. family[pair[r]] \in Pairs
    BY <1>10 DEF IssueNext
  <2>2. QED  BY <1>10, <2>1, IssueKeeps DEF IssueNext
<1>11. ASSUME NEW r \in Requests, NEW p \in Pairs, Find(r, p)
       PROVE  Inv'
  BY <1>11 DEF Find, Free
<1>12. ASSUME NEW r \in Requests, NEW p \in Pairs, Decode(r, p)
       PROVE  Inv'
  BY <1>12 DEF Decode, Free
<1>13. ASSUME NEW r \in Requests, Rotate(r)
       PROVE  Inv'
  <2>1. /\ used' \in [Pairs -> BOOLEAN]
        /\ revoked' \in [Pairs -> BOOLEAN]
    BY <1>13 DEF Rotate
  <2>2. pc[r] = "found" /\ \E step \in {"lost", "rotated"} : GoTo(r, step)
    BY <1>13 DEF Rotate
  <2>3. QED  BY <1>13, <2>1, <2>2 DEF Rotate, GoTo
<1>14. ASSUME NEW r \in Requests, Reread(r) \/ Serve(r) \/ LookUp(r)
       PROVE  Inv'
  <2>1. \/ Return(r)
        \/ GoTo(r, "reuse") /\ pc[r] = "lost"
        \/ GoTo(r, "served") /\ pc[r] = "purged"
    BY <1>14 DEF Reread, Serve, LookUp
  <2>2. UNCHANGED <<now, keyVars, codeVars, refreshVars, accessVars, known,
                    connections, compromised, withdrawn>>
    BY <1>14 DEF Reread, Serve, LookUp
  <2>3. CASE Return(r)
    BY <2>2, <2>3 DEF Return
  <2>4. CASE GoTo(r, "reuse") /\ pc[r] = "lost"
    BY <2>2, <2>4 DEF GoTo
  <2>5. CASE GoTo(r, "served") /\ pc[r] = "purged"
    BY <2>2, <2>5 DEF GoTo
  <2>6. QED  BY <2>1, <2>3, <2>4, <2>5
<1>15. ASSUME NEW r \in Requests, RevokeFamily(r)
       PROVE  Inv'
  <2> DEFINE f == family[pair[r]]
  <2>1. revoked' = [p \in Pairs |-> revoked[p] \/ family[p] = f]
    BY <1>15 DEF RevokeFamily
  <2>2. revoked' \in [Pairs -> BOOLEAN]
    BY <2>1
  <2>3. compromised' \in [Pairs -> {"no", "clean", "rotating"}]
    BY <1>15 DEF RevokeFamily
  <2>4. QED  BY <1>15, <2>2, <2>3 DEF RevokeFamily, Return
<1>16. ASSUME NEW r \in Requests, Purge(r)
       PROVE  Inv'
  BY <1>16 DEF Purge, GoTo
<1>17. CASE UNCHANGED vars
  BY <1>17 DEF vars
<1>18. QED
  BY <1>1, <1>2, <1>3, <1>4, <1>5, <1>6, <1>7, <1>8, <1>9, <1>10, <1>11,
     <1>12, <1>13, <1>14, <1>15, <1>16, <1>17 DEF Next
\* Types, and who holds what, for the lemmas' hypotheses.
THEOREM TypeCorrect == Spec => []TypeOK
<1>1. Inv => TypeOK
  BY DEF Inv
<1>2. QED  BY <1>1, InitInv, InvStep, PTL DEF Spec

-----------------------------------------------------------------------------
(* Refresh tokens.  Four kinds of step touch them: a rotation, the issue   *)
(* of a pair, a revocation, and a stop, which loses the rotations under    *)
(* way.                                                                    *)

\* Refresh rows and rotations under way are what they were.
Quiet ==
  /\ UNCHANGED <<family, used, revoked, compromised>>
  /\ \A r \in Requests : /\ pc'[r] = "rotated" <=> pc[r] = "rotated"
                         /\ pc[r] = "rotated" => pair'[r] = pair[r]

LEMMA RefreshShape ==
  ASSUME Inv, [Next]_vars
  PROVE  \/ Quiet
         \/ Stop
         \/ \E p \in Pairs : RevokeRefresh(p)
         \/ \E r \in Requests : Rotate(r) \/ RevokeFamily(r)
         \/ \E r \in Requests, p \in Pairs : IssueFirst(r, p) \/ IssueNext(r, p)
<1> USE DEF Inv, TypeOK, Quiet, keyVars, codeVars, refreshVars, accessVars, requestVars
<1>1. CASE \/ \E k \in Keys : StoreKey(k)
           \/ RecordKey \/ LoadKey \/ Tick
           \/ \E c \in Codes : Authorize(c)
           \/ \E p \in Pairs, says \in Says : RevokeAccess(p, says)
           \/ UNCHANGED vars
  BY <1>1 DEF StoreKey, RecordKey, LoadKey, Tick, Authorize, RevokeAccess, vars
<1>2. ASSUME NEW r \in Requests,
             \/ \E c \in Codes : Consume(r, c)
             \/ Connect(r)
      PROVE  Quiet
  BY <1>2 DEF Consume, Connect, Free, GoTo
<1>3. ASSUME NEW r \in Requests, NEW p \in Pairs, Find(r, p) \/ Decode(r, p)
      PROVE  Quiet
  BY <1>3 DEF Find, Decode, Free
<1>4. ASSUME NEW r \in Requests, Purge(r)
      PROVE  Quiet
  BY <1>4 DEF Purge, GoTo
<1>5. ASSUME NEW r \in Requests, Reread(r) \/ LookUp(r) \/ Serve(r)
      PROVE  Quiet
  BY <1>5 DEF Reread, LookUp, Serve, GoTo, Return
<1>6. QED
  BY <1>1, <1>2, <1>3, <1>4, <1>5 DEF Next

\* What OneHolder rests on: rows that are not there yet are untouched, a
\* family is named by its first row, and a clean family is dead.
ChainInv ==
  /\ OneHolder
  /\ CleanFamilyIsDead
  /\ \A p \in Pairs : family[p] = NoPair => ~used[p] /\ ~revoked[p]
  /\ \A p \in Pairs : family[p] # NoPair => family[family[p]] = family[p]
  /\ \A f \in Pairs : compromised[f] = "clean" => family[f] # NoPair

\* A step that lets tokens and rotations only go keeps ChainInv.
LEMMA FadingKeeps ==
  ASSUME Inv, ChainInv,
         UNCHANGED family,
         \A f \in Pairs : compromised'[f] = "clean" => compromised[f] = "clean",
         \A p \in Pairs : /\ ~used'[p] => ~used[p]
                          /\ ~revoked'[p] => ~revoked[p]
                          /\ family[p] = NoPair => ~used'[p] /\ ~revoked'[p],
         \A r \in Requests : pc'[r] = "rotated" =>
                             pc[r] = "rotated" /\ pair'[r] = pair[r]
  PROVE  ChainInv'
<1>1. \A p \in Pairs : Live(p)' => Live(p)
  BY DEF Live
<1>2. \A f : Rotating(f)' => Rotating(f)
  BY DEF Rotating
<1>3. OneHolder'
  BY <1>1, <1>2 DEF ChainInv, OneHolder
<1>4. CleanFamilyIsDead'
  BY <1>1, <1>2 DEF ChainInv, CleanFamilyIsDead
<1>5. QED  BY <1>3, <1>4 DEF ChainInv

LEMMA ChainStep == Inv /\ ChainInv /\ [Next]_vars => ChainInv'
<1> SUFFICES ASSUME Inv, ChainInv, [Next]_vars PROVE ChainInv'
  OBVIOUS
<1> USE NonesAreNone
<1>1. CASE Quiet
  BY <1>1, FadingKeeps DEF Quiet, ChainInv
<1>2. CASE Stop
  BY <1>2, FadingKeeps DEF Stop, refreshVars, ChainInv
<1>3. ASSUME NEW p \in Pairs, RevokeRefresh(p)
      PROVE  ChainInv'
  BY <1>3, FadingKeeps DEF RevokeRefresh, requestVars, ChainInv, Inv, TypeOK, RequestInv
<1>4. ASSUME NEW r \in Requests, RevokeFamily(r)
      PROVE  ChainInv'
  <2> DEFINE f == family[pair[r]]
  <2>1. pair[r] \in Pairs /\ f \in Pairs /\ f # NoPair /\ family[f] = f
    BY <1>4 DEF RevokeFamily, Inv, TypeOK, RequestInv, Holding, ChainInv
  <2>2. /\ revoked' = [p \in Pairs |-> revoked[p] \/ family[p] = f]
        /\ compromised' = [compromised EXCEPT ![f] =
                             IF Rotating(f) THEN "rotating" ELSE "clean"]
        /\ UNCHANGED <<family, used>>
        /\ pc[r] = "reuse" /\ Return(r)
    BY <1>4 DEF RevokeFamily
  <2>3. \A q \in Pairs : Live(q)' <=> Live(q) /\ family[q] # f
    BY <2>2 DEF Live, Inv, TypeOK
  <2>4. \A g : Rotating(g)' => Rotating(g)
    BY <2>2 DEF Rotating, Return, Inv, TypeOK
  <2>5. OneHolder'
    BY <2>2, <2>3, <2>4 DEF ChainInv, OneHolder, Return, Inv, TypeOK
  <2>6. \A g \in Pairs : g # f => compromised'[g] = compromised[g]
    BY <2>2 DEF Inv, TypeOK
  <2>7. compromised'[f] = "clean" => ~Rotating(f)
    BY <2>1, <2>2 DEF Inv, TypeOK
  <2>8. CleanFamilyIsDead'
    BY <2>1, <2>2, <2>3, <2>4, <2>6, <2>7 DEF ChainInv, CleanFamilyIsDead
  <2>9. \A p \in Pairs : family[p] = NoPair => ~revoked'[p] /\ ~used'[p]
    BY <2>1, <2>2 DEF ChainInv, Inv, TypeOK
  <2>10. QED  BY <2>1, <2>2, <2>5, <2>6, <2>8, <2>9 DEF ChainInv
<1>5. ASSUME NEW r \in Requests, Rotate(r)
      PROVE  ChainInv'
  <2>1. CASE used[pair[r]] \/ revoked[pair[r]]
    BY <1>5, <2>1, FadingKeeps DEF Rotate, GoTo, ChainInv, Inv, TypeOK
  <2>2. CASE ~(used[pair[r]] \/ revoked[pair[r]])
    <3>1. pair[r] \in Pairs /\ Live(pair[r])
      BY <1>5, <2>2 DEF Rotate, Inv, RequestInv, Holding, Live
    <3> DEFINE f == family[pair[r]]
    <3>2. /\ used' = [used EXCEPT ![pair[r]] = TRUE]
          /\ revoked' = [revoked EXCEPT ![pair[r]] = TRUE]
          /\ pc' = [pc EXCEPT ![r] = "rotated"]
          /\ UNCHANGED <<family, pair, compromised>>
      BY <1>5, <2>2 DEF Rotate, GoTo
    <3>3. ~Rotating(f)
      BY <3>1 DEF ChainInv, OneHolder
    <3>4. \A q \in Pairs : Live(q)' <=> Live(q) /\ q # pair[r]
      BY <3>1, <3>2 DEF Live, Inv, TypeOK
    <3>5. \A q \in Pairs : Live(q)' => family[q] # f
      BY <3>1, <3>4 DEF ChainInv, OneHolder
    <3>6. \A g : Rotating(g)' <=> Rotating(g) \/ g = f
      BY <3>2 DEF Rotating, Inv, TypeOK
    <3>7. \A s \in Requests : pc'[s] = "rotated" /\ family[pair[s]] = f => s = r
      BY <3>2, <3>3 DEF Rotating, Inv, TypeOK
    <3>8. OneHolder'
      BY <3>2, <3>4, <3>5, <3>6, <3>7 DEF ChainInv, OneHolder, Inv, TypeOK
    <3>9. CleanFamilyIsDead'
      BY <3>1, <3>2, <3>4, <3>5, <3>6 DEF ChainInv, CleanFamilyIsDead, Live
    <3>10. QED
      BY <3>1, <3>2, <3>8, <3>9 DEF ChainInv, Live, Inv, TypeOK
  <2>3. QED  BY <2>1, <2>2
<1>6. ASSUME NEW r \in Requests, NEW p \in Pairs, IssueFirst(r, p)
      PROVE  ChainInv'
  BY <1>6 DEF IssueFirst, Issue, Return, Inv, TypeOK, RequestInv, Holding,
              ChainInv, OneHolder, CleanFamilyIsDead, Live, Rotating
<1>7. ASSUME NEW r \in Requests, NEW p \in Pairs, IssueNext(r, p)
      PROVE  ChainInv'
  BY <1>7 DEF IssueNext, Issue, Return, Inv, TypeOK, RequestInv, Holding,
              ChainInv, OneHolder, CleanFamilyIsDead, Live, Rotating
<1>8. QED
  BY <1>1, <1>2, <1>3, <1>4, <1>5, <1>6, <1>7, RefreshShape

LEMMA InitChain == Init => ChainInv
BY DEF Init, ChainInv, OneHolder, CleanFamilyIsDead, Live, Rotating

\* A family of refresh tokens never has two that work, nor one that works
\* while a rotation is about to insert another.
THEOREM RefreshTokensAreSingle == Spec => []OneHolder
<1>1. ChainInv => OneHolder
  BY DEF ChainInv
<1>2. QED  BY <1>1, InitInv, InvStep, InitChain, ChainStep, PTL DEF Spec

\* A family that reuse detection revoked while nobody rotated in it stays dead.
THEOREM RevokedFamiliesStayDead == Spec => []CleanFamilyIsDead
<1>1. ChainInv => CleanFamilyIsDead
  BY DEF ChainInv
<1>2. QED  BY <1>1, InitInv, InvStep, InitChain, ChainStep, PTL DEF Spec

-----------------------------------------------------------------------------
(* Codes.  An unused code has no connection and no exchange; a used one    *)
(* has at most one of the two.                                             *)

CodeInv ==
  \A c \in Codes :
    /\ connections[c] <= 1
    /\ ~codeUsed[c] => connections[c] = 0
    /\ \A r \in Requests : pc[r] = "exchange" /\ code[r] = c =>
         codeUsed[c] /\ connections[c] = 0
    /\ \A r, s \in Requests :
         /\ pc[r] = "exchange" /\ pc[s] = "exchange"
         /\ code[r] = c /\ code[s] = c
         => r = s

LEMMA CodeStep == Inv /\ CodeInv /\ [Next]_vars => CodeInv'
<1> SUFFICES ASSUME Inv, CodeInv, [Next]_vars PROVE CodeInv'
  OBVIOUS
<1> USE DEF Inv, TypeOK, RequestInv, CodeInv, Exchanging,
            keyVars, codeVars, refreshVars, accessVars, requestVars
<1>1. ASSUME NEW r \in Requests, NEW c \in Codes, Consume(r, c)
      PROVE  CodeInv'
  <2>1. codeUsed' = [codeUsed EXCEPT ![c] = TRUE] /\ connections' = connections
    BY <1>1 DEF Consume
  <2>2. ~codeUsed[c]
    BY <1>1 DEF Consume
  <2>3. CASE UNCHANGED <<pc, code>>
    BY <2>1, <2>2, <2>3
  <2>4. CASE pc' = [pc EXCEPT ![r] = "exchange"] /\ code' = [code EXCEPT ![r] = c]
    BY <2>1, <2>2, <2>4
  <2>5. QED  BY <1>1, <2>3, <2>4 DEF Consume
<1>2. ASSUME NEW r \in Requests, Connect(r)
      PROVE  CodeInv'
  BY <1>2 DEF Connect, GoTo
<1>3. ASSUME UNCHANGED <<codeUsed, connections>>,
             \A r \in Requests : pc'[r] = "exchange" =>
               pc[r] = "exchange" /\ code'[r] = code[r]
      PROVE  CodeInv'
  BY <1>3
<1>4. CASE \/ \E k \in Keys : StoreKey(k)
           \/ RecordKey \/ LoadKey \/ Tick
           \/ \E c \in Codes : Authorize(c)
           \/ \E p \in Pairs : RevokeRefresh(p) \/ \E says \in Says : RevokeAccess(p, says)
           \/ UNCHANGED vars
  BY <1>4, <1>3
     DEF StoreKey, RecordKey, LoadKey, Tick, Authorize, RevokeRefresh, RevokeAccess, vars
<1>5. CASE Stop
  BY <1>5, <1>3 DEF Stop
<1>6. ASSUME NEW r \in Requests, NEW p \in Pairs,
             IssueFirst(r, p) \/ IssueNext(r, p)
      PROVE  CodeInv'
  BY <1>6, <1>3 DEF IssueFirst, IssueNext, Issue, Return
<1>7. ASSUME NEW r \in Requests, NEW p \in Pairs, Find(r, p) \/ Decode(r, p)
      PROVE  CodeInv'
  BY <1>7, <1>3 DEF Find, Decode
<1>8. ASSUME NEW r \in Requests, Rotate(r) \/ Purge(r)
      PROVE  CodeInv'
  BY <1>8, <1>3 DEF Rotate, Purge, GoTo
<1>9. ASSUME NEW r \in Requests, RevokeFamily(r) \/ Reread(r) \/ LookUp(r) \/ Serve(r)
      PROVE  CodeInv'
  BY <1>9, <1>3 DEF RevokeFamily, Reread, LookUp, Serve, GoTo, Return
<1>10. QED
  BY <1>1, <1>2, <1>4, <1>5, <1>6, <1>7, <1>8, <1>9 DEF Next

\* An authorization code opens at most one connection, whichever exchanges of
\* it overlap and wherever the server stops.
THEOREM CodesGrantOnce == Spec => []CodeGrantsOnce
<1>1. Init => CodeInv
  BY DEF Init, CodeInv
<1>2. CodeInv => CodeGrantsOnce
  BY DEF CodeInv, CodeGrantsOnce
<1>3. QED  BY <1>1, <1>2, InitInv, InvStep, CodeStep, PTL DEF Spec

-----------------------------------------------------------------------------
(* Access tokens.  A revocation's row is there until the token's own       *)
(* lifetime is over, because no verification deletes it before it has      *)
(* expired by a time that has passed.                                      *)

Verifying == {"decoded", "purged", "served"}

AccessInv ==
  /\ \A p \in withdrawn : /\ family[p] # NoPair
                          /\ jtiRow[p] >= accessExpiry[p] \/ accessExpiry[p] <= now
  /\ \A r \in Requests : readAt[r] <= now
  /\ \A r \in Requests : pc[r] \in Verifying /\ wasWithdrawn[r] => pair[r] \in withdrawn
  /\ WithdrawnStaysOut

LEMMA AccessStep == Inv /\ AccessInv /\ [Next]_vars => AccessInv'
<1> SUFFICES ASSUME Inv, AccessInv, [Next]_vars PROVE AccessInv'
  OBVIOUS
<1> USE NonesAreNone, LifetimesAssumption
    DEF Inv, TypeOK, RequestInv, AccessInv, WithdrawnStaysOut, Verifying, Holding,
        Never, Steps, keyVars, codeVars, refreshVars, accessVars, requestVars
<1>1. CASE \/ \E k \in Keys : StoreKey(k)
           \/ RecordKey \/ LoadKey
           \/ \E c \in Codes : Authorize(c)
           \/ \E p \in Pairs : RevokeRefresh(p)
           \/ UNCHANGED vars
  BY <1>1 DEF StoreKey, RecordKey, LoadKey, Authorize, RevokeRefresh, vars
<1>2. CASE Tick
  BY <1>2 DEF Tick
<1>3. CASE Stop
  BY <1>3 DEF Stop
<1>4. ASSUME NEW p \in Pairs, NEW says \in Says, RevokeAccess(p, says)
      PROVE  AccessInv'
  <2>1. /\ UNCHANGED <<now, family, accessExpiry, pc, pair, readAt>>
        /\ jtiRow' = [jtiRow EXCEPT ![p] = says]
        /\ withdrawn' = IF says >= accessExpiry[p] THEN withdrawn \cup {p} ELSE withdrawn \ {p}
    BY <1>4 DEF RevokeAccess, NoteRevocation
  <2>2. \A r \in Requests : wasWithdrawn'[r] = (wasWithdrawn[r] /\ pair[r] \in withdrawn')
    BY <1>4 DEF RevokeAccess, NoteRevocation
  <2>3. family[p] # NoPair
    BY <1>4 DEF RevokeAccess
  <2>4. \A q \in withdrawn' : /\ family[q] # NoPair
                              /\ jtiRow'[q] >= accessExpiry[q] \/ accessExpiry[q] <= now
    BY <2>1, <2>3
  <2>5. \A r \in Requests : pc[r] \in Verifying /\ wasWithdrawn'[r] => pair[r] \in withdrawn'
    BY <2>2
  <2>6. WithdrawnStaysOut'
    BY <2>1, <2>2
  <2>7. QED  BY <2>1, <2>4, <2>5, <2>6
<1>5. ASSUME NEW r \in Requests, NEW p \in Pairs,
             IssueFirst(r, p) \/ IssueNext(r, p)
      PROVE  AccessInv'
  BY <1>5, SMTT(20) DEF IssueFirst, IssueNext, Issue, Return
<1>6. ASSUME NEW r \in Requests, \E c \in Codes : Consume(r, c)
      PROVE  AccessInv'
  BY <1>6 DEF Consume
<1>7. ASSUME NEW r \in Requests, Connect(r)
      PROVE  AccessInv'
  BY <1>7 DEF Connect, GoTo
<1>8. ASSUME NEW r \in Requests, NEW p \in Pairs, Find(r, p)
      PROVE  AccessInv'
  BY <1>8 DEF Find
<1>9. ASSUME NEW r \in Requests, NEW p \in Pairs, Decode(r, p)
      PROVE  AccessInv'
  <2>1. /\ pc' = [pc EXCEPT ![r] = "decoded"]
        /\ pair' = [pair EXCEPT ![r] = p]
        /\ readAt' = [readAt EXCEPT ![r] = now]
        /\ wasWithdrawn' = [wasWithdrawn EXCEPT ![r] = p \in withdrawn]
        /\ UNCHANGED <<now, family, accessExpiry, jtiRow, withdrawn>>
    BY <1>9 DEF Decode
  <2>2. \A s \in Requests : s # r =>
          /\ pc'[s] = pc[s] /\ pair'[s] = pair[s]
          /\ readAt'[s] = readAt[s] /\ wasWithdrawn'[s] = wasWithdrawn[s]
    BY <2>1
  <2>3. pc'[r] = "decoded" /\ pair'[r] = p /\ readAt'[r] = now
    BY <2>1
  <2>4. wasWithdrawn'[r] => p \in withdrawn
    BY <2>1
  <2>5. QED  BY <2>1, <2>2, <2>3, <2>4
<1>10. ASSUME NEW r \in Requests, Rotate(r)
       PROVE  AccessInv'
  BY <1>10 DEF Rotate, GoTo
<1>11. ASSUME NEW r \in Requests, Reread(r) \/ RevokeFamily(r) \/ Serve(r)
       PROVE  AccessInv'
  BY <1>11 DEF Reread, RevokeFamily, Serve, GoTo, Return
<1>12. ASSUME NEW r \in Requests, Purge(r)
       PROVE  AccessInv'
  BY <1>12 DEF Purge, GoTo
<1>13. ASSUME NEW r \in Requests, LookUp(r)
       PROVE  AccessInv'
  BY <1>13 DEF LookUp, GoTo, Return
<1>14. QED
  BY <1>1, <1>2, <1>3, <1>4, <1>5, <1>6, <1>7, <1>8, <1>9, <1>10, <1>11,
     <1>12, <1>13 DEF Next

\* A withdrawn access token is not accepted for a later request while its
\* lifetime runs, although expired revocations are deleted: as long as the
\* latest revocation, which overwrites the earlier ones, gave it that long.
THEOREM WithdrawalsHold == Spec => []WithdrawnStaysOut
<1>1. Init => AccessInv
  BY DEF Init, AccessInv, WithdrawnStaysOut, Verifying, Never
<1>2. AccessInv => WithdrawnStaysOut
  BY DEF AccessInv
<1>3. QED  BY <1>1, <1>2, InitInv, InvStep, AccessStep, PTL DEF Spec

-----------------------------------------------------------------------------
(* Signing keys.                                                           *)

KeyInv ==
  /\ kid # NoKey => kid = keyRow
  /\ starting # NoKey => keyRow = NoKey /\ kid = NoKey
  /\ \A r \in Requests : pc[r] # "idle" => kid # NoKey
  /\ \A p \in Pairs : family[p] # NoPair => keyRow # NoKey /\ signedBy[p] = keyRow

LEMMA KeyStep == Inv /\ KeyInv /\ [Next]_vars => KeyInv'
<1> SUFFICES ASSUME Inv, KeyInv, [Next]_vars PROVE KeyInv'
  OBVIOUS
<1> USE NonesAreNone
    DEF Inv, TypeOK, KeyInv, keyVars, codeVars, refreshVars, accessVars, requestVars
<1>1. CASE (\E k \in Keys : StoreKey(k)) \/ RecordKey \/ LoadKey
  BY <1>1 DEF StoreKey, RecordKey, LoadKey
<1>2. CASE Stop
  BY <1>2 DEF Stop
<1>3. ASSUME UNCHANGED <<keyVars, family, signedBy>>,
             kid # NoKey \/ UNCHANGED pc
      PROVE  KeyInv'
  BY <1>3
<1>4. CASE \/ Tick
           \/ \E c \in Codes : Authorize(c)
           \/ \E p \in Pairs : RevokeRefresh(p) \/ \E says \in Says : RevokeAccess(p, says)
           \/ UNCHANGED vars
  BY <1>4, <1>3 DEF Tick, Authorize, RevokeRefresh, RevokeAccess, vars
<1>5. ASSUME NEW r \in Requests, NEW p \in Pairs,
             IssueFirst(r, p) \/ IssueNext(r, p)
      PROVE  KeyInv'
  BY <1>5 DEF IssueFirst, IssueNext, Issue, Return
<1>6. ASSUME NEW r \in Requests,
             \/ \E c \in Codes : Consume(r, c)
             \/ \E p \in Pairs : Find(r, p) \/ Decode(r, p)
      PROVE  KeyInv'
  BY <1>6, <1>3 DEF Consume, Find, Decode, Free
<1>7. ASSUME NEW r \in Requests,
             \/ Connect(r) \/ Rotate(r) \/ Reread(r) \/ RevokeFamily(r)
             \/ Purge(r) \/ LookUp(r) \/ Serve(r)
      PROVE  KeyInv'
  <2>1. pc[r] # "idle"
    BY <1>7 DEF Connect, Rotate, Reread, RevokeFamily, Purge, LookUp, Serve
  <2>2. UNCHANGED <<keyVars, family, signedBy>>
    BY <1>7 DEF Connect, Rotate, Reread, RevokeFamily, Purge, LookUp, Serve
  <2>3. QED  BY <2>1, <2>2, <1>3
<1>8. QED
  BY <1>1, <1>2, <1>4, <1>5, <1>6, <1>7 DEF Next

\* A server that is up verifies every token it ever issued with the key that
\* signed it.
THEOREM KeysSurvive == Spec => []KeySurvives
<1>1. Init => KeyInv
  BY DEF Init, KeyInv
<1>2. KeyInv => KeySurvives
  BY DEF KeyInv, KeySurvives
<1>3. QED  BY <1>1, <1>2, InitInv, InvStep, KeyStep, PTL DEF Spec

-----------------------------------------------------------------------------
(* The refinement of TokenChain.  Baton is defined by CHOOSE; BatonFacts   *)
(* says what it is in each case, and is all that the steps use of it.      *)

Alive(f) == {p \in Pairs : family[p] = f /\ Live(p)}

BatonFacts ==
  \A f \in Pairs :
    /\ family[f] # f => Baton(f) = "unborn" /\ ~Rotating(f) /\ Alive(f) = {}
    /\ Rotating(f) => Baton(f) = "moving" /\ Alive(f) = {}
    /\ family[f] = f /\ ~Rotating(f) /\ Alive(f) = {} => Baton(f) = "gone"
    /\ \A p \in Alive(f) : Baton(f) = p /\ Alive(f) = {p}
    /\ Baton(f) \in Pairs => Baton(f) \in Alive(f)

LEMMA BatonIs == Inv /\ ChainInv => BatonFacts
<1> SUFFICES ASSUME Inv, ChainInv, NEW f \in Pairs
             PROVE  /\ family[f] # f => Baton(f) = "unborn" /\ ~Rotating(f) /\ Alive(f) = {}
                    /\ Rotating(f) => Baton(f) = "moving" /\ Alive(f) = {}
                    /\ family[f] = f /\ ~Rotating(f) /\ Alive(f) = {} => Baton(f) = "gone"
                    /\ \A p \in Alive(f) : Baton(f) = p /\ Alive(f) = {p}
                    /\ Baton(f) \in Pairs => Baton(f) \in Alive(f)
  BY DEF BatonFacts
<1>1. \A p \in Pairs : family[p] = f => family[f] = f
  BY NonesAreNone DEF ChainInv
<1>2. Rotating(f) => family[f] = f
  BY <1>1 DEF Rotating, Inv, RequestInv, Holding
<1>3. \A p \in Alive(f) : Alive(f) = {p} /\ ~Rotating(f)
  BY DEF Alive, ChainInv, OneHolder
<1>4. (\E p \in Pairs : family[p] = f /\ Live(p)) <=> Alive(f) # {}
  BY DEF Alive
<1>5. family[f] # f => Baton(f) = "unborn" /\ Alive(f) = {}
  BY <1>1 DEF Alive, Baton
<1>6. Rotating(f) => Baton(f) = "moving" /\ Alive(f) = {}
  BY <1>2, <1>3 DEF Baton
<1>7. family[f] = f /\ ~Rotating(f) /\ Alive(f) = {} => Baton(f) = "gone"
  BY <1>4 DEF Baton
<1>8. ASSUME NEW p \in Alive(f)
      PROVE  Baton(f) = p
  <2>1. family[f] = f /\ ~Rotating(f)
    BY <1>1, <1>3 DEF Alive
  <2>2. Baton(f) = CHOOSE q \in Pairs : family[q] = f /\ Live(q)
    BY <1>4, <1>8, <2>1 DEF Baton
  <2>3. p \in Pairs /\ family[p] = f /\ Live(p)
    BY <1>8 DEF Alive
  <2>4. \A q \in Pairs : family[q] = f /\ Live(q) => q = p
    BY <1>3, <1>8 DEF Alive
  <2>5. QED  BY <2>2, <2>3, <2>4
<1>9. Baton(f) \in Pairs => Baton(f) \in Alive(f)
  <2>1. {"moving", "gone", "unborn"} \cap Pairs = {}
    BY BatonsAreNoPairs
  <2>2. QED  BY <2>1, <1>5, <1>6, <1>7, <1>8
<1>10. QED
  BY <1>2, <1>3, <1>5, <1>6, <1>7, <1>8, <1>9

\* A family whose rows and rotations are what they were keeps its baton.
LEMMA BatonKept ==
  ASSUME BatonFacts, BatonFacts', NEW f \in Pairs,
         family'[f] = f <=> family[f] = f,
         Rotating(f)' <=> Rotating(f),
         Alive(f)' = Alive(f)
  PROVE  Baton(f)' = Baton(f)
<1>1. CASE family[f] # f
  BY <1>1 DEF BatonFacts
<1>2. CASE family[f] = f /\ Rotating(f)
  BY <1>2 DEF BatonFacts
<1>3. CASE family[f] = f /\ ~Rotating(f) /\ Alive(f) = {}
  BY <1>3 DEF BatonFacts
<1>4. CASE Alive(f) # {}
  BY <1>4 DEF BatonFacts
<1>5. QED  BY <1>1, <1>2, <1>3, <1>4

\* A step that hands family f's baton on, or drops it, leaves the others'.
LEMMA BatonMoved ==
  ASSUME BatonFacts, BatonFacts', NEW f \in Pairs,
         \A g \in Pairs \ {f} : /\ family'[g] = g <=> family[g] = g
                                /\ Rotating(g)' <=> Rotating(g)
                                /\ Alive(g)' = Alive(g)
  PROVE  [g \in Pairs |-> Baton(g)]' = [[g \in Pairs |-> Baton(g)] EXCEPT ![f] = Baton(f)']
<1>1. \A g \in Pairs \ {f} : Baton(g)' = Baton(g)
  BY BatonKept
<1>2. QED  BY <1>1

LEMMA ChainMaps ==
  Inv /\ ChainInv /\ Inv' /\ ChainInv' /\ [Next]_vars => [Chain!Next]_(Chain!vars)
<1> SUFFICES ASSUME Inv, ChainInv, Inv', ChainInv', [Next]_vars
             PROVE  [Chain!Next]_(Chain!vars)
  OBVIOUS
<1> DEFINE B == [f \in Pairs |-> Baton(f)]
<1>a. BatonFacts /\ BatonFacts'
  BY BatonIs, PTL
<1>b. ASSUME \A f \in Pairs : /\ family'[f] = f <=> family[f] = f
                              /\ Rotating(f)' <=> Rotating(f)
                              /\ Alive(f)' = Alive(f),
             Spent' = Spent
      PROVE  UNCHANGED Chain!vars
  <2>1. \A f \in Pairs : Baton(f)' = Baton(f)
    BY <1>a, <1>b, BatonKept
  <2>2. QED  BY <2>1, <1>b DEF Chain!vars
<1>1. CASE Quiet
  <2>1. \A f : Rotating(f)' <=> Rotating(f)
    BY <1>1 DEF Quiet, Rotating
  <2>2. \A f \in Pairs : Alive(f)' = Alive(f)
    BY <1>1 DEF Quiet, Alive, Live
  <2>3. Spent' = Spent
    BY <1>1 DEF Quiet, Spent, Live
  <2>4. QED  BY <1>1, <1>b, <2>1, <2>2, <2>3 DEF Quiet
<1>2. CASE Stop
  <2>1. \A f : ~Rotating(f)'
    BY <1>2 DEF Stop, Rotating
  <2>2. UNCHANGED <<family, used, revoked>>
    BY <1>2 DEF Stop, refreshVars
  <2>3. \A f \in Pairs : Alive(f)' = Alive(f)
    BY <2>2 DEF Alive, Live
  <2>4. Spent' = Spent
    BY <2>2 DEF Spent, Live
  <2>5. ASSUME NEW f \in Pairs
        PROVE  Baton(f)' = IF Baton(f) = "moving" THEN "gone" ELSE Baton(f)
    <3>1. CASE Rotating(f)
      BY <3>1, <1>a, <2>1, <2>2, <2>3 DEF BatonFacts
    <3>2. CASE ~Rotating(f)
      <4>1. Baton(f)' = Baton(f)
        BY <3>2, <1>a, <2>1, <2>2, <2>3, BatonKept
      <4>2. Baton(f) # "moving"
        BY <3>2, <1>a, BatonsAreNoPairs DEF BatonFacts, Alive
      <4>3. QED  BY <4>1, <4>2
    <3>3. QED  BY <3>1, <3>2
  <2>6. Chain!LoseMoving
    BY <2>4, <2>5 DEF Chain!LoseMoving
  <2>7. QED  BY <2>6 DEF Chain!Next
<1>3. ASSUME NEW p \in Pairs, RevokeRefresh(p)
      PROVE  [Chain!Next]_(Chain!vars)
  <2> DEFINE f == family[p]
  <2>1. /\ revoked' = [revoked EXCEPT ![p] = TRUE]
        /\ UNCHANGED <<family, used, pc, pair>>
    BY <1>3 DEF RevokeRefresh, requestVars
  <2>2. f \in Pairs /\ f # NoPair /\ family[f] = f
    BY <1>3, NonesAreNone DEF RevokeRefresh, Inv, TypeOK, RequestInv, ChainInv
  <2>3. \A q \in Pairs : Live(q)' <=> Live(q) /\ q # p
    BY <2>1 DEF Live, Inv, TypeOK
  <2>4. \A g : Rotating(g)' <=> Rotating(g)
    BY <2>1 DEF Rotating
  <2>5. CASE ~Live(p)
    <3>1. \A g \in Pairs : Alive(g)' = Alive(g)
      BY <2>1, <2>3, <2>5 DEF Alive
    <3>2. Spent' = Spent
      BY <2>1, <2>3, <2>5 DEF Spent
    <3>3. QED  BY <1>b, <2>1, <2>4, <3>1, <3>2
  <2>6. CASE Live(p)
    <3>1. p \in Alive(f)
      BY <2>6 DEF Alive
    <3>2. Baton(f) = p /\ Alive(f) = {p} /\ ~Rotating(f)
      BY <1>a, <2>2, <3>1 DEF BatonFacts
    <3>3. Alive(f)' = {}
      BY <2>1, <2>3, <3>2 DEF Alive
    <3>4. Baton(f)' = "gone"
      BY <1>a, <2>1, <2>2, <2>4, <3>2, <3>3 DEF BatonFacts
    <3>5. \A g \in Pairs \ {f} : Alive(g)' = Alive(g)
      BY <2>1, <2>3 DEF Alive
    <3>6. B' = [B EXCEPT ![f] = "gone"]
      BY <1>a, <2>1, <2>2, <2>4, <3>4, <3>5, BatonMoved
    <3>7. Spent' = Spent \cup {p}
      BY <2>1, <2>2, <2>3 DEF Spent
    <3>8. Chain!Drop(f)
      BY <2>2, <3>2, <3>6, <3>7 DEF Chain!Drop
    <3>9. QED  BY <2>2, <3>8 DEF Chain!Next
  <2>7. QED  BY <2>5, <2>6
<1>4. ASSUME NEW r \in Requests, RevokeFamily(r)
      PROVE  [Chain!Next]_(Chain!vars)
  <2>f. PICK f \in Pairs : f = family[pair[r]]
    BY <1>4 DEF RevokeFamily, Inv, TypeOK, RequestInv, Holding
  <2>1. /\ revoked' = [p \in Pairs |-> revoked[p] \/ family[p] = f]
        /\ UNCHANGED <<family, used>>
        /\ pc[r] = "reuse" /\ Return(r)
    BY <1>4, <2>f DEF RevokeFamily
  <2>2. f \in Pairs /\ f # NoPair /\ family[f] = f
    BY <2>f, <2>1, NonesAreNone DEF Inv, TypeOK, RequestInv, Holding, ChainInv
  <2>3. \A q \in Pairs : Live(q)' <=> Live(q) /\ family[q] # f
    BY <2>1 DEF Live, Inv, TypeOK
  <2>4. \A g : Rotating(g)' <=> Rotating(g)
    BY <2>1 DEF Rotating, Return, Inv, TypeOK
  <2>5. \A g \in Pairs \ {f} : Alive(g)' = Alive(g)
    BY <2>1, <2>3 DEF Alive
  <2>6. Alive(f)' = {}
    BY <2>1, <2>3 DEF Alive
  <2>7. CASE Alive(f) = {}
    <3>1. Spent' = Spent
      BY <2>1, <2>3, <2>7 DEF Spent, Alive
    <3>2. QED  BY <1>b, <2>1, <2>4, <2>5, <2>6, <2>7, <3>1
  <2>8. ASSUME NEW p \in Alive(f)
        PROVE  Chain!Drop(f)
    <3>1. Baton(f) = p /\ Alive(f) = {p} /\ ~Rotating(f) /\ p \in Pairs
      BY <1>a, <2>2, <2>8 DEF BatonFacts, Alive
    <3>2. Baton(f)' = "gone"
      BY <1>a, <2>1, <2>2, <2>4, <2>6, <3>1 DEF BatonFacts
    <3>3. B' = [B EXCEPT ![f] = "gone"]
      BY <1>a, <2>1, <2>2, <2>4, <2>5, <3>2, BatonMoved
    <3>4. Spent' = Spent \cup {p}
      BY <2>1, <2>2, <2>3, <3>1 DEF Spent, Alive
    <3>5. QED  BY <2>2, <3>1, <3>3, <3>4 DEF Chain!Drop
  <2>9. QED  BY <2>2, <2>7, <2>8 DEF Chain!Next
<1>5. ASSUME NEW r \in Requests, Rotate(r)
      PROVE  [Chain!Next]_(Chain!vars)
  <2>p. PICK p \in Pairs, f \in Pairs : p = pair[r] /\ f = family[p]
    BY <1>5 DEF Rotate, Inv, TypeOK, RequestInv, Holding
  <2>1. /\ p = pair[r] /\ f = family[p] /\ family[f] = f /\ f # NoPair
        /\ pc[r] = "found"
    BY <1>5, <2>p, NonesAreNone DEF Rotate, ChainInv
  <2>2. CASE used[p] \/ revoked[p]
    <3>1. /\ UNCHANGED <<family, used, revoked, pair>>
          /\ pc' = [pc EXCEPT ![r] = "lost"]
      BY <1>5, <2>1, <2>2 DEF Rotate, GoTo
    <3>2. \A g \in Pairs : Alive(g)' = Alive(g)
      BY <3>1 DEF Alive, Live
    <3>3. Spent' = Spent
      BY <3>1 DEF Spent, Live
    <3>4. \A g : Rotating(g)' <=> Rotating(g)
      BY <2>1, <3>1 DEF Rotating, Inv, TypeOK
    <3>5. QED  BY <1>b, <3>1, <3>2, <3>3, <3>4
  <2>3. CASE ~(used[p] \/ revoked[p])
    <3>1. /\ used' = [used EXCEPT ![p] = TRUE]
          /\ revoked' = [revoked EXCEPT ![p] = TRUE]
          /\ pc' = [pc EXCEPT ![r] = "rotated"]
          /\ UNCHANGED <<family, pair>>
      BY <1>5, <2>1, <2>3 DEF Rotate, GoTo
    <3>2. p \in Alive(f)
      BY <2>1, <2>3 DEF Alive, Live
    <3>3. Baton(f) = p
      BY <1>a, <2>1, <3>2 DEF BatonFacts
    <3>4. \A q \in Pairs : Live(q)' <=> Live(q) /\ q # p
      BY <2>1, <3>1 DEF Live, Inv, TypeOK
    <3>5. \A g : Rotating(g)' <=> Rotating(g) \/ g = f
      BY <2>1, <3>1 DEF Rotating, Inv, TypeOK
    <3>6. Baton(f)' = "moving"
      BY <1>a, <2>1, <3>5 DEF BatonFacts
    <3>7. \A g \in Pairs \ {f} : Alive(g)' = Alive(g)
      BY <2>1, <3>1, <3>4 DEF Alive
    <3>8. B' = [B EXCEPT ![f] = "moving"]
      BY <1>a, <2>1, <3>1, <3>5, <3>6, <3>7, BatonMoved
    <3>9. Spent' = Spent \cup {p}
      BY <2>1, <3>1, <3>4 DEF Spent
    <3>10. Chain!Take(f)
      BY <2>1, <3>3, <3>8, <3>9 DEF Chain!Take
    <3>11. QED  BY <2>1, <3>10 DEF Chain!Next
  <2>4. QED  BY <2>2, <2>3
<1>c. ASSUME NEW r \in Requests, NEW p \in Pairs, NEW f \in Pairs, Issue(r, p, f),
             pc[r] \in {"connected", "rotated"}
      PROVE  /\ family' = [family EXCEPT ![p] = f]
             /\ Alive(f)' = Alive(f) \cup {p}
             /\ \A g \in Pairs \ {f} : Alive(g)' = Alive(g)
             /\ Spent' = Spent
             /\ p \notin Spent
             /\ \A g \in Pairs : p # Baton(g)
  <2>1. /\ family[p] = NoPair
        /\ family' = [family EXCEPT ![p] = f]
        /\ UNCHANGED <<used, revoked>>
    BY <1>c DEF Issue
  <2>2. ~used[p] /\ ~revoked[p]
    BY <2>1 DEF ChainInv
  <2>3. \A q \in Pairs : Live(q)' <=> Live(q) \/ q = p
    BY <2>1, <2>2, NonesAreNone DEF Live, Inv, TypeOK
  <2>4. ~Live(p)
    BY <2>1 DEF Live
  <2>5. Spent' = Spent /\ p \notin Spent
    BY <2>1, <2>3, NonesAreNone DEF Spent, Inv, TypeOK
  <2>6. \A g \in Pairs : p \notin Alive(g)
    BY <2>4 DEF Alive
  <2>7. \A g \in Pairs : p # Baton(g)
    BY <1>a, <2>6 DEF BatonFacts
  <2>8. /\ Alive(f)' = Alive(f) \cup {p}
        /\ \A g \in Pairs \ {f} : Alive(g)' = Alive(g)
    BY <2>1, <2>3, <2>4, NonesAreNone DEF Alive, Inv, TypeOK
  <2>9. QED  BY <2>1, <2>5, <2>7, <2>8
<1>6. ASSUME NEW r \in Requests, NEW p \in Pairs, IssueFirst(r, p)
      PROVE  [Chain!Next]_(Chain!vars)
  <2>1. Issue(r, p, p) /\ pc[r] = "connected"
    BY <1>6 DEF IssueFirst
  <2>2. family[p] = NoPair /\ Return(r)
    BY <2>1 DEF Issue
  <2>3. \A s \in Requests : /\ pc'[s] = "rotated" <=> pc[s] = "rotated"
                            /\ pc[s] = "rotated" => pair'[s] = pair[s]
    BY <2>1, <2>2 DEF Return, Inv, TypeOK
  <2>4. family' = [family EXCEPT ![p] = p]
    BY <2>1, <1>c
  <2>5. \A s \in Requests : pc[s] = "rotated" => pair[s] \in Pairs /\ pair[s] # p
    BY <2>2 DEF Inv, RequestInv, Holding
  <2>6. \A g : Rotating(g)' <=> Rotating(g)
    BY <2>3, <2>4, <2>5 DEF Rotating, Inv, TypeOK
  <2>7. Baton(p) = "unborn"
    BY <1>a, <2>2, NonesAreNone DEF BatonFacts
  <2>8. p \in Alive(p)'
    BY <2>1, <1>c
  <2>9. Baton(p)' = p
    BY <1>a, <2>8 DEF BatonFacts
  <2>10. \A g \in Pairs \ {p} : family'[g] = family[g] /\ Alive(g)' = Alive(g)
    BY <2>1, <2>4, <1>c DEF Inv, TypeOK
  <2>11. B' = [B EXCEPT ![p] = p]
    BY <1>a, <2>6, <2>9, <2>10, BatonMoved
  <2>12. p \notin Spent /\ p \notin Chain!Held /\ Spent' = Spent
    BY <2>1, <1>c DEF Chain!Held
  <2>13. Chain!Start(p)
    BY <2>7, <2>11, <2>12 DEF Chain!Start
  <2>14. QED  BY <2>13 DEF Chain!Next
<1>7. ASSUME NEW r \in Requests, NEW p \in Pairs, IssueNext(r, p)
      PROVE  [Chain!Next]_(Chain!vars)
  <2>f. PICK f \in Pairs : f = family[pair[r]]
    BY <1>7 DEF IssueNext, Inv, TypeOK, RequestInv, Holding
  <2>1. f = family[pair[r]] /\ Issue(r, p, f) /\ pc[r] = "rotated"
    BY <1>7, <2>f DEF IssueNext
  <2>2. /\ pair[r] \in Pairs /\ f # NoPair /\ family[f] = f
        /\ family[p] = NoPair /\ Return(r)
    BY <2>1, NonesAreNone DEF Issue, Inv, TypeOK, RequestInv, Holding, ChainInv
  <2>3. family' = [family EXCEPT ![p] = f] /\ p # f
    BY <2>1, <2>2, <1>c
  <2>4. \A s \in Requests : pc[s] = "rotated" => pair[s] \in Pairs /\ pair[s] # p
    BY <2>2 DEF Inv, RequestInv, Holding
  <2>5. \A s \in Requests : pc'[s] = "rotated" <=> pc[s] = "rotated" /\ s # r
    BY <2>1, <2>2 DEF Return, Inv, TypeOK
  <2>6. \A s \in Requests \ {r} : pair'[s] = pair[s]
    BY <2>2 DEF Return, Inv, TypeOK
  <2>7. \A g \in Pairs \ {f} : Rotating(g)' <=> Rotating(g)
    <3>1. \A s \in Requests \ {r} :
            pc'[s] = "rotated" => family'[pair'[s]] = family[pair[s]]
      BY <2>3, <2>4, <2>5, <2>6 DEF Inv, TypeOK
    <3>2. QED  BY <2>1, <2>5, <3>1 DEF Rotating
  <2>8. Rotating(f)
    BY <2>1 DEF Rotating
  <2>9. Baton(f) = "moving" /\ p \in Alive(f)'
    BY <1>a, <2>1, <2>2, <2>8, <1>c DEF BatonFacts
  <2>10. Baton(f)' = p
    BY <1>a, <2>2, <2>9 DEF BatonFacts
  <2>11. \A g \in Pairs \ {f} : /\ family'[g] = g <=> family[g] = g
                                /\ Alive(g)' = Alive(g)
    BY <2>1, <2>2, <2>3, <1>c, NonesAreNone DEF Inv, TypeOK
  <2>12. B' = [B EXCEPT ![f] = p]
    BY <1>a, <2>2, <2>7, <2>10, <2>11, BatonMoved
  <2>13. p \notin Spent /\ p \notin Chain!Held /\ Spent' = Spent
    BY <2>1, <2>2, <1>c DEF Chain!Held
  <2>14. Chain!Give(f)
    BY <2>2, <2>9, <2>10, <2>12, <2>13 DEF Chain!Give
  <2>15. QED  BY <2>2, <2>14 DEF Chain!Next
<1>8. QED
  BY <1>1, <1>2, <1>3, <1>4, <1>5, <1>6, <1>7, RefreshShape

\* The tables of refresh tokens, with their concurrent rotations, replays,
\* revocations and stops, implement TokenChain.
THEOREM ImplementsTokenChain == Spec => ChainKept
<1>1. Init => Chain!Init
  BY NonesAreNone DEF Init, Chain!Init, Baton, Spent, Live
<1>2. QED
  BY <1>1, InitInv, InvStep, InitChain, ChainStep, ChainMaps, PTL
     DEF Spec, ChainKept, Chain!Spec

-----------------------------------------------------------------------------
(* The clients: types.                                                     *)

Asking == {"missed", "admitted", "fetching", "fetched", "stored"}

ResolversInv ==
  \A r \in Resolvers :
    /\ stage[r] \in Asking => asked[r] \in Documents
    /\ stage[r] = "fetched" => got[r] \in Versions
    /\ stage[r] \in {"fetched", "stored"} => gotAt[r] \in Nat

\* A check counts a hit with the backends that saw it, in a window that may
\* be new, and its judge notes the admission.
Counts(seen, judge, k, ok) ==
  /\ ok = Allows(judge, k)
  /\ count' = [b \in Backends |-> [count[b] EXCEPT ![k] =
                IF b \in seen /\ Allows(b, k) THEN Counted(b, k) + 1 ELSE @]]
  /\ resetAt' = [b \in Backends |-> [resetAt[b] EXCEPT ![k] =
                  IF b \in seen THEN End(b, k) ELSE @]]
  /\ admitted' = [admitted EXCEPT ![judge][k] =
                    IF ok THEN Append(@, [at |-> clock, since |-> since[judge][k]]) ELSE @]
  /\ UNCHANGED since

LEMMA CheckIs ==
  ASSUME NEW k, NEW ok, Check(k, ok)
  PROVE  \E seen \in SUBSET Backends : \E judge \in seen : Counts(seen, judge, k, ok)
<1>1. PICK route \in Routes : Counts(route[1], route[2], k, ok)
  BY DEF Check, Counts
<1>2. route[1] \in SUBSET Backends /\ route[2] \in route[1]
  BY DEF Routes, Backends
<1>3. QED  BY <1>1, <1>2

LEMMA CheckTypes ==
  ASSUME LimiterTypeOK, NEW k \in LimitKeys, NEW ok \in BOOLEAN, Check(k, ok),
         clock' = clock
  PROVE  LimiterTypeOK'
<1>1. PICK seen \in SUBSET Backends : \E judge \in seen : Counts(seen, judge, k, ok)
  BY CheckIs
<1>0. PICK judge \in seen : Counts(seen, judge, k, ok)
  BY <1>1
<1>2. clock \in Nat /\ Window \in Nat /\ Backends # {}
  BY OnRedisAssumption, WindowAssumption DEF LimiterTypeOK
<1>3. \A b \in Backends : Counted(b, k) \in Nat /\ End(b, k) \in Nat \cup {Unset}
  BY <1>2 DEF LimiterTypeOK, Counted, End
<1>4. count' \in [Backends -> [LimitKeys -> Nat]]
  BY <1>0, <1>3 DEF LimiterTypeOK, Counts
<1>5. resetAt' \in [Backends -> [LimitKeys -> Nat \cup {Unset}]]
  BY <1>0, <1>3 DEF LimiterTypeOK, Counts
<1> DEFINE x == [at |-> clock, since |-> since[judge][k]]
<1>6. Append(admitted[judge][k], x) \in Seq(Admission)
  <2>1. x \in Admission
    BY DEF LimiterTypeOK, Admission
  <2> HIDE DEF x
  <2>2. QED  BY <2>1, AppendProperties DEF LimiterTypeOK
<1>7. admitted' \in [Backends -> [LimitKeys -> Seq(Admission)]]
  BY <1>0, <1>6 DEF LimiterTypeOK, Counts
<1>8. QED  BY <1>0, <1>4, <1>5, <1>7 DEF LimiterTypeOK, Counts

LEMMA LimiterUntouched ==
  ASSUME LimiterTypeOK, clock' = clock, UNCHANGED limiterVars
  PROVE  LimiterTypeOK'
BY DEF LimiterTypeOK, limiterVars

LEMMA ClientsTypeInit == ClientsInit => ClientsTypeOK /\ ResolversInv
BY ClientsAssumption, OnRedisAssumption
   DEF ClientsInit, ClientsTypeOK, ResolversInv, LimiterInit, LimiterTypeOK,
       Versions, Absent, Unset, Asking

LEMMA ClientsTypeStep ==
  ClientsTypeOK /\ ResolversInv /\ [ClientsNext]_clientsVars
    => ClientsTypeOK' /\ ResolversInv'
<1> SUFFICES ASSUME ClientsTypeOK, ResolversInv, [ClientsNext]_clientsVars
             PROVE  ClientsTypeOK' /\ ResolversInv'
  OBVIOUS
<1>0. /\ 1 \in Versions /\ Absent \notin Versions /\ CacheTTL \in Nat
      /\ NoClient \notin Documents /\ Address \in LimitKeys /\ clock \in Nat
  BY ClientsAssumption, OnRedisAssumption
     DEF Versions, Absent, Ids, ClientsTypeOK, LimiterTypeOK
<1> USE DEF ClientsTypeOK, ResolversInv, Asking, Leave, MoveTo, rowVars, resolverVars
<1>1. ASSUME NEW i \in Registered, Register(i)
      PROVE  ClientsTypeOK' /\ ResolversInv'
  BY <1>0, <1>1 DEF Register, limiterVars, LimiterTypeOK, Ids
<1>2. ASSUME NEW r \in Resolvers, NEW i \in Ids, Resolve(r, i)
      PROVE  ClientsTypeOK' /\ ResolversInv'
  BY <1>0, <1>2, ZenonT(40) DEF Resolve, limiterVars, LimiterTypeOK, Ids
<1>3. ASSUME NEW r \in Resolvers, AskLimiter(r)
      PROVE  ClientsTypeOK' /\ ResolversInv'
  <2>1. PICK ok \in BOOLEAN : /\ Check(Address, ok)
                              /\ IF ok THEN MoveTo(r, "admitted") ELSE Leave(r)
    BY <1>3 DEF AskLimiter
  <2>2. clock' = clock /\ UNCHANGED <<document, row, cachedUntil>> /\ stage[r] = "missed"
    BY <1>3 DEF AskLimiter
  <2>3. LimiterTypeOK'
    BY <1>0, <2>1, <2>2, CheckTypes
  <2>4. CASE MoveTo(r, "admitted")
    BY <2>2, <2>3, <2>4
  <2>5. CASE Leave(r)
    BY <2>2, <2>3, <2>5
  <2>6. QED  BY <2>1, <2>4, <2>5
<1>4. ASSUME NEW r \in Resolvers, ReadCache(r)
      PROVE  ClientsTypeOK' /\ ResolversInv'
  <2>1. LimiterTypeOK' /\ UNCHANGED <<document, row, cachedUntil>> /\ stage[r] = "admitted"
    BY <1>4, LimiterUntouched DEF ReadCache
  <2>2. CASE Leave(r)
    BY <1>0, <2>1, <2>2
  <2>3. CASE MoveTo(r, "fetching")
    BY <1>0, <2>1, <2>3
  <2>4. QED  BY <1>4, <2>2, <2>3 DEF ReadCache
<1>5. ASSUME NEW r \in Resolvers, Fetch(r)
      PROVE  ClientsTypeOK' /\ ResolversInv'
  <2>1. LimiterTypeOK' /\ UNCHANGED <<document, row, cachedUntil>> /\ stage[r] = "fetching"
    BY <1>5, LimiterUntouched DEF Fetch
  <2>2. CASE Leave(r)
    BY <1>0, <2>1, <2>2
  <2>3. CASE /\ document[asked[r]] # Bad
             /\ stage' = [stage EXCEPT ![r] = "fetched"]
             /\ got' = [got EXCEPT ![r] = document[asked[r]]]
             /\ gotAt' = [gotAt EXCEPT ![r] = clock]
             /\ UNCHANGED asked
    <3>1. document[asked[r]] \in Versions
      BY <2>1, <2>3
    <3>2. QED  BY <1>0, <2>1, <2>3, <3>1
  <2>4. QED  BY <1>5, <2>2, <2>3 DEF Fetch
<1>6. ASSUME NEW r \in Resolvers, StoreRow(r)
      PROVE  ClientsTypeOK' /\ ResolversInv'
  BY <1>0, <1>6 DEF StoreRow, limiterVars, LimiterTypeOK
<1>7. ASSUME NEW r \in Resolvers, StoreCache(r)
      PROVE  ClientsTypeOK' /\ ResolversInv'
  BY <1>0, <1>7 DEF StoreCache, limiterVars, LimiterTypeOK
<1>8. ASSUME NEW i \in Documents, Publish(i)
      PROVE  ClientsTypeOK' /\ ResolversInv'
  BY <1>8 DEF Publish, limiterVars, LimiterTypeOK
<1>9. CASE Restart
  <2>1. LimiterTypeOK'
    <3>1. \A k \in LimitKeys : Len(admitted["memory"][k]) \in Nat
      BY LenProperties DEF LimiterTypeOK, Backends
    <3>2. [k \in LimitKeys |-> Len(admitted["memory"][k])] \in [LimitKeys -> Nat]
      BY <3>1
    <3>3. [k \in LimitKeys |-> 0] \in [LimitKeys -> Nat]
      OBVIOUS
    <3>4. [k \in LimitKeys |-> Unset] \in [LimitKeys -> Nat \cup {Unset}]
      OBVIOUS
    <3>5. QED  BY <1>9, <3>2, <3>3, <3>4 DEF Restart, Clear, LimiterTypeOK
  <2>2. QED  BY <1>9, <2>1 DEF Restart
<1>10. CASE ClientsTick
  BY <1>10, OnRedisAssumption DEF ClientsTick, ClockTick, limiterVars, LimiterTypeOK
<1>11. CASE UNCHANGED clientsVars
  BY <1>11 DEF clientsVars, limiterVars, LimiterTypeOK
<1>12. QED
  BY <1>1, <1>2, <1>3, <1>4, <1>5, <1>6, <1>7, <1>8, <1>9, <1>10, <1>11 DEF ClientsNext

LEMMA ClientsTypesHold == ClientsSpec => [](ClientsTypeOK /\ ResolversInv)
BY ClientsTypeInit, ClientsTypeStep, PTL DEF ClientsSpec

\* Rows only hold versions, and a request in flight knows for which URL it
\* fetches and when it did (auth/oauth.py).
THEOREM ClientsTypeCorrect == ClientsSpec => []ClientsTypeOK
BY ClientsTypesHold, PTL

LEMMA SettledStep ==
  ASSUME ClientsTypeOK, ResolversInv, [ClientsNext]_clientsVars,
         NEW i \in Ids, Settled(i)
  PROVE  row'[i] = row[i] /\ Settled(i)'
<1>0. \A r \in Resolvers : asked[r] # i /\ NoClient # i
  BY ClientsAssumption DEF Settled
<1>a. ASSUME row'[i] = row[i], \A r \in Resolvers : asked'[r] \in {asked[r], NoClient}
      PROVE  row'[i] = row[i] /\ Settled(i)'
  BY <1>0, <1>a DEF Settled
<1> USE DEF ClientsTypeOK
<1>1. ASSUME NEW j \in Registered, Register(j)
      PROVE  row'[i] = row[i] /\ Settled(i)'
  <2>1. j # i
    BY <1>1 DEF Register, Settled
  <2>2. QED  BY <1>a, <1>1, <2>1 DEF Register, resolverVars
<1>2. ASSUME NEW r \in Resolvers, NEW j \in Ids, Resolve(r, j)
      PROVE  row'[i] = row[i] /\ Settled(i)'
  <2>1. CASE row[j] # Absent
    BY <1>a, <1>2, <2>1 DEF Resolve, resolverVars, rowVars
  <2>2. CASE row[j] = Absent
    <3>1. j # i
      BY <2>2 DEF Settled
    <3>2. row' = row /\ asked' = [asked EXCEPT ![r] = j]
      BY <1>2, <2>2 DEF Resolve, rowVars
    <3>3. QED  BY <1>0, <3>1, <3>2 DEF Settled
  <2>3. QED  BY <2>1, <2>2
<1>3. ASSUME NEW r \in Resolvers,
             AskLimiter(r) \/ ReadCache(r) \/ Fetch(r) \/ StoreCache(r)
      PROVE  row'[i] = row[i] /\ Settled(i)'
  <2>1. row' = row
    BY <1>3 DEF AskLimiter, ReadCache, Fetch, StoreCache, rowVars
  <2>2. asked' = asked \/ asked' = [asked EXCEPT ![r] = NoClient]
    BY <1>3 DEF AskLimiter, ReadCache, Fetch, StoreCache, Leave, MoveTo
  <2>3. QED  BY <1>a, <2>1, <2>2
<1>4. ASSUME NEW r \in Resolvers, StoreRow(r)
      PROVE  row'[i] = row[i] /\ Settled(i)'
  BY <1>0, <1>a, <1>4 DEF StoreRow, MoveTo
<1>5. CASE Restart
  BY <1>a, <1>5 DEF Restart, rowVars
<1>6. CASE (\E j \in Documents : Publish(j)) \/ ClientsTick \/ UNCHANGED clientsVars
  BY <1>a, <1>6 DEF Publish, ClientsTick, clientsVars, rowVars, resolverVars
<1>7. QED
  BY <1>1, <1>2, <1>3, <1>4, <1>5, <1>6 DEF ClientsNext

\* A client that has settled is resolved from its row alone, for ever.
THEOREM ClientsSettle == ClientsSpec => SettledForGood
<1>1. ClientsTypeOK /\ ResolversInv /\ [ClientsNext]_clientsVars
        => [\A i \in Ids : Settled(i) => row'[i] = row[i] /\ Settled(i)']_clientsVars
  BY SettledStep
<1>2. QED  BY <1>1, ClientsTypesHold, PTL DEF ClientsSpec, SettledForGood

-----------------------------------------------------------------------------
(* The limiter.  A are the admissions of one bucket, s of them before its  *)
(* counts were last lost, n its count, e the end of its window and l its   *)
(* limit.  The later admissions split at p and m: those of the current     *)
(* window come after m, those of the window before it after p, and those   *)
(* up to p lie at least a whole window further back.  Those before the     *)
(* loss lie before the first window after it.                              *)

Splits(A, s, n, e, l, p, m) ==
  /\ p <= m /\ m - p <= l /\ Len(A) - m <= n
  /\ \A i \in (s + 1)..p : A[i].at < e - 2 * Window
  /\ \A i \in (s + 1)..m : A[i].at < e - Window
  /\ m > s => \A i \in 1..s : A[i].at <= e - 2 * Window

Windows(A, s, n, e, l) ==
  /\ \A i \in (s + 1)..Len(A) : A[i].at < e
  /\ e # Unset => \A i \in 1..s : A[i].at <= e - Window
  /\ \E p, m \in s..Len(A) : Splits(A, s, n, e, l, p, m)

\* What SlidingBound says of one bucket.
Apart(A, l) ==
  \A i, j \in 1..Len(A) :
    i <= j /\ A[j].at - A[i].at < Window =>
      IF A[j].since < i THEN j - i < 2 * l ELSE j - A[j].since <= l

BucketOK(A, s, n, e, l, t) ==
  /\ n <= l
  /\ e - Window <= t
  /\ s <= Len(A)
  /\ \A i \in 1..Len(A) : A[i].at <= t
  /\ Windows(A, s, n, e, l)
  /\ Apart(A, l)

RateInv ==
  \A b \in Backends, k \in LimitKeys :
    BucketOK(admitted[b][k], since[b][k], count[b][k], resetAt[b][k], Limit[k], clock)

LEMMA TimesAre ==
  ASSUME NEW A \in Seq(Admission)
  PROVE  /\ Len(A) \in Nat
         /\ \A i \in 1..Len(A) : A[i].at \in Nat /\ A[i].since \in Nat
<1>1. \A x \in Admission : x.at \in Nat /\ x.since \in Nat
  BY OnRedisAssumption DEF Admission
<1>2. Len(A) \in Nat /\ \A i \in 1..Len(A) : A[i] \in Admission
  BY ElementOfSeq
<1>3. QED  BY <1>1, <1>2

\* A new window: the current one becomes the one before.
LEMMA WindowRolls ==
  ASSUME NEW A \in Seq(Admission), NEW s \in Nat, NEW n \in Nat, NEW e \in Int,
         NEW l \in Nat, NEW t \in Nat, n <= l, e <= t, s <= Len(A),
         \A i \in 1..Len(A) : A[i].at <= t, Windows(A, s, n, e, l)
  PROVE  Windows(A, s, 0, t + Window, l)
<1>1. PICK p \in s..Len(A), m \in s..Len(A) : Splits(A, s, n, e, l, p, m)
  BY DEF Windows
<1>2. Len(A) \in Nat /\ Window \in Nat \ {0} /\ \A i \in 1..Len(A) : A[i].at \in Nat
  BY WindowAssumption, TimesAre
<1>3. \A i \in (s + 1)..Len(A) : A[i].at < e
  BY DEF Windows
<1>4. ASSUME NEW i \in (s + 1)..m PROVE A[i].at < (t + Window) - 2 * Window
  <2>1. A[i].at < e - Window /\ A[i].at \in Nat
    BY <1>1, <1>2 DEF Splits
  <2>2. QED  BY <1>2, <2>1
<1>5. ASSUME NEW i \in (s + 1)..Len(A) PROVE A[i].at < (t + Window) - Window
  <2>1. A[i].at < e /\ A[i].at \in Nat
    BY <1>2, <1>3
  <2>2. QED  BY <1>2, <2>1, SMTT(20)
<1>6. ASSUME Len(A) > s, NEW i \in 1..s PROVE A[i].at <= (t + Window) - 2 * Window
  <2>1. Len(A) \in (s + 1)..Len(A)
    BY <1>2, <1>6
  <2>2. A[Len(A)].at \in Nat /\ A[Len(A)].at < e
    BY <1>2, <1>3, <2>1
  <2>3. e # Unset
    BY <2>2 DEF Unset
  <2>4. A[i].at <= e - Window /\ A[i].at \in Nat
    BY <1>2, <2>3 DEF Windows
  <2>5. QED  BY <1>2, <2>4
<1>7. \A i \in 1..s : A[i].at <= (t + Window) - Window
  BY <1>2
<1>8. m <= Len(A) /\ Len(A) - m <= l /\ Len(A) - Len(A) <= 0
  BY <1>1, <1>2 DEF Splits
<1>9. Splits(A, s, 0, t + Window, l, m, Len(A))
  BY <1>4, <1>5, <1>6, <1>8 DEF Splits
<1>10. \A i \in (s + 1)..Len(A) : A[i].at < t + Window
  BY <1>2, <1>5, SMTT(20)
<1>11. QED
  BY <1>2, <1>7, <1>9, <1>10 DEF Windows

\* A hit is counted, whether or not it is an admission of this bucket.
LEMMA HitCounts ==
  ASSUME NEW A \in Seq(Admission), NEW s \in Nat, NEW n \in Nat, NEW e \in Int,
         NEW l \in Nat, Windows(A, s, n, e, l)
  PROVE  Windows(A, s, n + 1, e, l)
<1>1. PICK p \in s..Len(A), m \in s..Len(A) : Splits(A, s, n, e, l, p, m)
  BY DEF Windows
<1>2. Splits(A, s, n + 1, e, l, p, m)
  BY <1>1 DEF Splits
<1>3. QED  BY <1>2 DEF Windows

\* An admission in the current window: the earlier ones that are close to it
\* are in this window and the one before, or come before the loss, which then
\* has no other window after it.
LEMMA Admits ==
  ASSUME NEW A \in Seq(Admission), NEW s \in Nat, NEW n \in Nat, NEW e \in Int,
         NEW l \in Nat, NEW t \in 0..MaxClock, n < l, t < e, e - Window <= t,
         s <= Len(A), Windows(A, s, n, e, l), Apart(A, l)
  PROVE  /\ Windows(Append(A, [at |-> t, since |-> s]), s, n + 1, e, l)
         /\ Apart(Append(A, [at |-> t, since |-> s]), l)
<1> DEFINE x == [at |-> t, since |-> s]
           B == Append(A, x)
           z == Len(A)
<1>1. PICK p \in s..Len(A), m \in s..Len(A) : Splits(A, s, n, e, l, p, m)
  BY DEF Windows
<1>2. /\ z \in Nat /\ Window \in Nat \ {0} /\ t \in Nat /\ s <= z
      /\ \A i \in 1..z : A[i].at \in Nat /\ A[i].since \in Nat
  BY WindowAssumption, OnRedisAssumption, TimesAre
<1>a. x \in Admission /\ x.at = t /\ x.since = s
  BY DEF Admission
<1> HIDE DEF x
<1>3. /\ B \in Seq(Admission) /\ Len(B) = z + 1 /\ B[z + 1] = x
      /\ \A i \in 1..z : B[i] = A[i]
  BY <1>a, AppendProperties
<1>4. /\ p <= m /\ m - p <= l /\ z - m <= n /\ p \in s..z /\ m \in s..z
      /\ \A i \in (s + 1)..p : A[i].at < e - 2 * Window
      /\ \A i \in (s + 1)..m : A[i].at < e - Window
      /\ m > s => \A i \in 1..s : A[i].at <= e - 2 * Window
  BY <1>1 DEF Splits
<1>5. /\ \A i \in (s + 1)..z : A[i].at < e
      /\ e # Unset => \A i \in 1..s : A[i].at <= e - Window
  BY DEF Windows
<1>6. Apart(A, l)
  OBVIOUS
<1> HIDE DEF B, z
<1>7. Windows(B, s, n + 1, e, l)
  <2>1. /\ (s + 1)..p \subseteq 1..z /\ (s + 1)..m \subseteq 1..z
        /\ (s + 1)..z \subseteq 1..z /\ 1..s \subseteq 1..z
    BY <1>2, <1>4, SMTT(20)
  <2>2. \A i \in (s + 1)..(z + 1) : B[i].at < e
    <3> SUFFICES ASSUME NEW i \in (s + 1)..(z + 1) PROVE B[i].at < e
      OBVIOUS
    <3>1. CASE i = z + 1
      BY <1>3, <1>a, <3>1
    <3>2. CASE i # z + 1
      <4>1. i \in (s + 1)..z
        BY <1>2, <3>2
      <4>2. QED  BY <1>3, <1>5, <2>1, <4>1
    <3>3. QED  BY <3>1, <3>2
  <2>3. e # Unset => \A i \in 1..s : B[i].at <= e - Window
    BY <1>3, <1>5, <2>1
  <2>4. (z + 1) - m <= n + 1
    BY <1>2, <1>4, SMTT(20)
  <2>5. /\ \A i \in (s + 1)..p : B[i].at < e - 2 * Window
        /\ \A i \in (s + 1)..m : B[i].at < e - Window
        /\ m > s => \A i \in 1..s : B[i].at <= e - 2 * Window
    BY <1>3, <1>4, <2>1
  <2>6. Splits(B, s, n + 1, e, l, p, m)
    BY <1>3, <1>4, <2>4, <2>5 DEF Splits
  <2>7. p \in s..Len(B) /\ m \in s..Len(B)
    BY <1>2, <1>3, <1>4, SMTT(20)
  <2>8. QED  BY <1>3, <2>2, <2>3, <2>6, <2>7 DEF Windows
<1>8. ASSUME NEW i \in 1..z, t - A[i].at < Window, s < i
      PROVE  (z + 1) - i < 2 * l
  <2>1. ~(i \in (s + 1)..p)
    <3>1. SUFFICES ASSUME i \in (s + 1)..p PROVE FALSE
      OBVIOUS
    <3> DEFINE a == A[i].at
    <3>2. a < e - 2 * Window /\ a \in Nat /\ t - a < Window
      BY <1>2, <1>4, <1>8, <3>1
    <3> HIDE DEF a
    <3>3. QED  BY <1>2, <3>2, SMTT(20)
  <2>2. i > p
    BY <1>2, <1>4, <1>8, <2>1
  <2>3. QED  BY <1>2, <1>4, <2>2
<1>9. ASSUME NEW i \in 1..z, t - A[i].at < Window, ~(s < i)
      PROVE  (z + 1) - s <= l
  <2>1. i \in 1..s
    BY <1>2, <1>9
  <2>2. ~(m > s)
    <3>1. SUFFICES ASSUME m > s PROVE FALSE
      OBVIOUS
    <3> DEFINE a == A[i].at
    <3>2. a <= e - 2 * Window /\ a \in Nat /\ t - a < Window
      BY <1>2, <1>4, <1>9, <2>1, <3>1
    <3> HIDE DEF a
    <3>3. QED  BY <1>2, <3>2
  <2>3. QED  BY <1>2, <1>4, <2>2
<1>10. ASSUME NEW i \in 1..(z + 1), NEW j \in 1..(z + 1),
              i <= j, B[j].at - B[i].at < Window
       PROVE  IF B[j].since < i THEN j - i < 2 * l ELSE j - B[j].since <= l
  <2>1. CASE i \in 1..z /\ j \in 1..z
    <3>1. B[i] = A[i] /\ B[j] = A[j]
      BY <1>3, <2>1
    <3>2. QED  BY <1>6, <1>10, <2>1, <3>1 DEF Apart, z
  <2>2. CASE i \in 1..z /\ j = z + 1
    <3>1. B[i] = A[i] /\ B[j].at = t /\ B[j].since = s
      BY <1>3, <1>a, <2>2
    <3>2. QED  BY <1>8, <1>9, <1>10, <2>2, <3>1
  <2>3. CASE i = z + 1 /\ j = z + 1
    <3>1. B[j].since = s
      BY <1>3, <1>a, <2>3
    <3>2. QED  BY <1>2, <2>3, <3>1
  <2>4. QED  BY <1>2, <1>10, <2>1, <2>2, <2>3
<1>11. Apart(B, l)
  BY <1>3, <1>10 DEF Apart
<1>12. QED  BY <1>7, <1>11 DEF B, x

LEMMA RateInit == ClientsInit => RateInv
<1> SUFFICES ASSUME ClientsInit, NEW b \in Backends, NEW k \in LimitKeys
             PROVE  BucketOK(admitted[b][k], since[b][k], count[b][k], resetAt[b][k],
                             Limit[k], clock)
  BY DEF RateInv
<1>1. /\ admitted[b][k] = <<>> /\ count[b][k] = 0 /\ resetAt[b][k] = Unset
      /\ since[b][k] = 0
      /\ clock = 0 /\ Len(<<>>) = 0 /\ Limit[k] \in Nat /\ Window \in Nat
  BY LimitAssumption, WindowAssumption DEF ClientsInit, LimiterInit
<1>2. Splits(<<>>, 0, 0, Unset, Limit[k], 0, 0)
  BY <1>1 DEF Splits
<1>3. Windows(<<>>, 0, 0, Unset, Limit[k])
  BY <1>1, <1>2 DEF Windows
<1>4. QED
  BY <1>1, <1>3 DEF BucketOK, Apart, Unset

LEMMA RateUntouched ==
  ASSUME RateInv, UNCHANGED limiterVars, clock' = clock
  PROVE  RateInv'
BY DEF RateInv, BucketOK, limiterVars

\* What is true of a bucket whose hit is about to be counted.
LEMMA BucketHit ==
  ASSUME LimiterTypeOK, RateInv, NEW b \in Backends, NEW k \in LimitKeys
  PROVE  /\ clock \in 0..MaxClock /\ Limit[k] \in Nat \ {0}
         /\ admitted[b][k] \in Seq(Admission)
         /\ since[b][k] \in Nat /\ since[b][k] <= Len(admitted[b][k])
         /\ \A i \in 1..Len(admitted[b][k]) : admitted[b][k][i].at <= clock
         /\ Counted(b, k) \in Nat /\ Counted(b, k) <= Limit[k]
         /\ End(b, k) \in Int /\ clock < End(b, k) /\ End(b, k) - Window <= clock
         /\ Windows(admitted[b][k], since[b][k], Counted(b, k), End(b, k), Limit[k])
         /\ Apart(admitted[b][k], Limit[k])
<1>1. /\ clock \in 0..MaxClock /\ clock \in Nat /\ Limit[k] \in Nat \ {0}
      /\ admitted[b][k] \in Seq(Admission) /\ since[b][k] \in Nat
      /\ count[b][k] \in Nat /\ resetAt[b][k] \in Int /\ Window \in Nat \ {0}
  BY LimitAssumption, WindowAssumption, OnRedisAssumption DEF LimiterTypeOK, Unset
<1>2. /\ count[b][k] <= Limit[k] /\ resetAt[b][k] - Window <= clock
      /\ since[b][k] <= Len(admitted[b][k])
      /\ \A i \in 1..Len(admitted[b][k]) : admitted[b][k][i].at <= clock
      /\ Windows(admitted[b][k], since[b][k], count[b][k], resetAt[b][k], Limit[k])
      /\ Apart(admitted[b][k], Limit[k])
  BY DEF RateInv, BucketOK
<1>3. CASE Over(b, k)
  <2>1. Counted(b, k) = 0 /\ End(b, k) = clock + Window /\ resetAt[b][k] <= clock
    BY <1>1, <1>3 DEF Counted, End, Over
  <2>2. Windows(admitted[b][k], since[b][k], 0, clock + Window, Limit[k])
    BY <1>1, <1>2, <2>1, WindowRolls
  <2>3. /\ Counted(b, k) \in Nat /\ Counted(b, k) <= Limit[k]
        /\ End(b, k) \in Int /\ clock < End(b, k) /\ End(b, k) - Window <= clock
    BY <1>1, <2>1
  <2>4. QED  BY <1>1, <1>2, <2>1, <2>2, <2>3
<1>4. CASE ~Over(b, k)
  <2>1. Counted(b, k) = count[b][k] /\ End(b, k) = resetAt[b][k] /\ clock < resetAt[b][k]
    BY <1>1, <1>4 DEF Counted, End, Over
  <2>2. QED  BY <1>1, <1>2, <2>1
<1>5. QED  BY <1>3, <1>4

LEMMA CheckKeepsRates ==
  ASSUME LimiterTypeOK, RateInv, NEW k \in LimitKeys, NEW ok \in BOOLEAN,
         Check(k, ok), clock' = clock
  PROVE  RateInv'
<1>1. PICK seen \in SUBSET Backends : \E judge \in seen : Counts(seen, judge, k, ok)
  BY CheckIs
<1>2. PICK judge \in seen : Counts(seen, judge, k, ok)
  BY <1>1
<1> SUFFICES ASSUME NEW b \in Backends, NEW y \in LimitKeys
             PROVE  BucketOK(admitted'[b][y], since'[b][y], count'[b][y], resetAt'[b][y],
                             Limit[y], clock')
  BY DEF RateInv
<1>0. since' = since
  BY <1>2 DEF Counts
<1>3. CASE y # k \/ b \notin seen
  <2>1. /\ admitted'[b][y] = admitted[b][y] /\ count'[b][y] = count[b][y]
        /\ resetAt'[b][y] = resetAt[b][y]
    BY <1>2, <1>3 DEF Counts, LimiterTypeOK
  <2>2. QED  BY <1>0, <2>1 DEF RateInv, BucketOK
<1>4. CASE y = k /\ b \in seen
  <2> DEFINE A == admitted[b][k]
             s == since[b][k]
             n == Counted(b, k)
             e == End(b, k)
             l == Limit[k]
             B == Append(A, [at |-> clock, since |-> s])
  <2>1. /\ clock \in 0..MaxClock /\ l \in Nat \ {0} /\ A \in Seq(Admission)
        /\ s \in Nat /\ s <= Len(A) /\ \A i \in 1..Len(A) : A[i].at <= clock
        /\ n \in Nat /\ n <= l
        /\ e \in Int /\ clock < e /\ e - Window <= clock
        /\ Windows(A, s, n, e, l) /\ Apart(A, l)
    BY BucketHit
  <2>2. resetAt'[b][k] = e
    BY <1>2, <1>4 DEF Counts, LimiterTypeOK
  <2>3. count'[b][k] = IF Allows(b, k) THEN n + 1 ELSE count[b][k]
    BY <1>2, <1>4 DEF Counts, LimiterTypeOK
  <2>4. admitted'[b][k] = IF b = judge /\ Allows(b, k) THEN B ELSE A
    BY <1>2, <1>4 DEF Counts, LimiterTypeOK
  <2>5. Allows(b, k) <=> n < l
    BY DEF Allows
  <2>6. ~Allows(b, k) => count[b][k] = n
    BY <2>1, <2>5 DEF Counted
  <2>7. since'[b][k] = s
    BY <1>0
  <2>8. /\ Len(B) = Len(A) + 1 /\ Len(A) \in Nat
        /\ \A i \in 1..Len(B) : B[i].at <= clock
    <3>1. /\ Len(B) = Len(A) + 1 /\ Len(A) \in Nat
          /\ B[Len(A) + 1] = [at |-> clock, since |-> s]
          /\ \A i \in 1..Len(A) : B[i] = A[i]
      <4> DEFINE x == [at |-> clock, since |-> s]
      <4>1. x \in Admission
        BY <2>1 DEF Admission
      <4> HIDE DEF x
      <4>2. /\ Len(Append(A, x)) = Len(A) + 1 /\ Len(A) \in Nat
            /\ Append(A, x)[Len(A) + 1] = x
            /\ \A i \in 1..Len(A) : Append(A, x)[i] = A[i]
        BY <2>1, <4>1, AppendProperties, LenProperties
      <4>3. QED  BY <4>2 DEF x
    <3> HIDE DEF A, B, s
    <3>2. clock \in Int
      BY <2>1
    <3>3. QED  BY <2>1, <3>1, <3>2
  <2> HIDE DEF A, s, n, e, l, B
  <2>9. CASE Allows(b, k) /\ b = judge
    <3>1. Windows(B, s, n + 1, e, l) /\ Apart(B, l)
      BY <2>1, <2>5, <2>9, Admits DEF B
    <3>2. n + 1 <= l /\ s <= Len(B)
      BY <2>1, <2>5, <2>8, <2>9
    <3>3. BucketOK(B, s, n + 1, e, l, clock)
      BY <2>1, <2>8, <3>1, <3>2 DEF BucketOK
    <3>4. QED  BY <1>4, <2>2, <2>3, <2>4, <2>7, <2>9, <3>3 DEF l
  <2>10. CASE Allows(b, k) /\ b # judge
    <3>1. Windows(A, s, n + 1, e, l)
      BY <2>1, HitCounts
    <3>2. n + 1 <= l
      BY <2>1, <2>5, <2>10
    <3>3. BucketOK(A, s, n + 1, e, l, clock)
      BY <2>1, <3>1, <3>2 DEF BucketOK
    <3>4. QED  BY <1>4, <2>2, <2>3, <2>4, <2>7, <2>10, <3>3 DEF l
  <2>11. CASE ~Allows(b, k)
    <3>1. BucketOK(A, s, n, e, l, clock)
      BY <2>1 DEF BucketOK
    <3>2. QED  BY <1>4, <2>2, <2>3, <2>4, <2>6, <2>7, <2>11, <3>1 DEF l
  <2>12. QED  BY <2>9, <2>10, <2>11
<1>5. QED  BY <1>3, <1>4

LEMMA ClearKeepsRates ==
  ASSUME LimiterTypeOK, RateInv, Clear, clock' = clock
  PROVE  RateInv'
<1> SUFFICES ASSUME NEW b \in Backends, NEW k \in LimitKeys
             PROVE  BucketOK(admitted'[b][k], since'[b][k], count'[b][k], resetAt'[b][k],
                             Limit[k], clock')
  BY DEF RateInv
<1> DEFINE A == admitted[b][k]
<1>1. /\ A \in Seq(Admission) /\ Len(A) \in Nat
      /\ clock \in Nat /\ Limit[k] \in Nat /\ Window \in Nat
  BY LimitAssumption, WindowAssumption, OnRedisAssumption, TimesAre DEF LimiterTypeOK
<1>2. Apart(A, Limit[k]) /\ \A i \in 1..Len(A) : A[i].at <= clock
  BY DEF RateInv, BucketOK
<1>3. CASE b = "memory"
  <2>1. /\ admitted'[b][k] = A /\ count'[b][k] = 0 /\ resetAt'[b][k] = Unset
        /\ since'[b][k] = Len(A)
    BY <1>3 DEF Clear, LimiterTypeOK
  <2> HIDE DEF A
  <2>2. (Len(A) + 1)..Len(A) = {} /\ Len(A) \in Len(A)..Len(A) /\ Len(A) - Len(A) = 0
    BY <1>1
  <2>3. Splits(A, Len(A), 0, Unset, Limit[k], Len(A), Len(A))
    BY <1>1, <2>2 DEF Splits
  <2>4. Windows(A, Len(A), 0, Unset, Limit[k])
    BY <2>2, <2>3 DEF Windows
  <2>5. 0 <= Limit[k] /\ Unset - Window <= clock /\ Len(A) <= Len(A)
    BY <1>1 DEF Unset
  <2>6. QED  BY <1>2, <2>1, <2>4, <2>5 DEF BucketOK
<1>4. CASE b # "memory"
  <2>1. /\ admitted'[b][k] = admitted[b][k] /\ count'[b][k] = count[b][k]
        /\ resetAt'[b][k] = resetAt[b][k] /\ since'[b][k] = since[b][k]
    BY <1>4 DEF Clear, LimiterTypeOK
  <2>2. QED  BY <2>1 DEF RateInv, BucketOK
<1>5. QED  BY <1>3, <1>4

LEMMA RateStep ==
  ClientsTypeOK /\ RateInv /\ [ClientsNext]_clientsVars => RateInv'
<1> SUFFICES ASSUME ClientsTypeOK, RateInv, [ClientsNext]_clientsVars PROVE RateInv'
  OBVIOUS
<1>1. CASE \E r \in Resolvers : AskLimiter(r)
  <2>1. PICK ok \in BOOLEAN : Check(Address, ok)
    BY <1>1 DEF AskLimiter
  <2>2. clock' = clock
    BY <1>1 DEF AskLimiter
  <2>3. QED  BY <2>1, <2>2, CheckKeepsRates, ClientsAssumption DEF ClientsTypeOK
<1>2. CASE Restart
  BY <1>2, ClearKeepsRates DEF Restart, ClientsTypeOK
<1>3. CASE ClientsTick
  <2>1. UNCHANGED limiterVars /\ clock' = clock + 1
    BY <1>3 DEF ClientsTick, ClockTick
  <2>2. clock \in Nat /\ Window \in Nat /\ resetAt \in [Backends -> [LimitKeys -> Int]]
    BY WindowAssumption, OnRedisAssumption DEF ClientsTypeOK, LimiterTypeOK, Unset
  <2>3. ASSUME NEW b \in Backends, NEW k \in LimitKeys
        PROVE  /\ resetAt[b][k] - Window <= clock + 1
               /\ \A i \in 1..Len(admitted[b][k]) : admitted[b][k][i].at <= clock + 1
    <3>1. \A i \in 1..Len(admitted[b][k]) : admitted[b][k][i].at \in Nat
      BY TimesAre DEF ClientsTypeOK, LimiterTypeOK
    <3>2. QED  BY <2>2, <3>1 DEF RateInv, BucketOK
  <2>4. QED  BY <2>1, <2>3 DEF RateInv, BucketOK, limiterVars
<1>4. CASE UNCHANGED <<clock, limiterVars>>
  BY <1>4, RateUntouched
<1>5. CASE \/ \E i \in Registered : Register(i)
           \/ \E i \in Documents : Publish(i)
           \/ \E r \in Resolvers :
                \/ \E i \in Ids : Resolve(r, i)
                \/ ReadCache(r) \/ Fetch(r) \/ StoreRow(r) \/ StoreCache(r)
  BY <1>4, <1>5 DEF Register, Publish, Resolve, ReadCache, Fetch, StoreRow, StoreCache
<1>6. CASE UNCHANGED clientsVars
  BY <1>4, <1>6 DEF clientsVars
<1>7. QED
  BY <1>1, <1>2, <1>3, <1>5, <1>6 DEF ClientsNext

\* Fixed windows never admit more than twice the limit in a stretch of one
\* window while a backend keeps its counts, and one limit more after a restart
\* that lost them, for any limit, window and number of keys, also when Redis
\* comes and goes and each backend counts hits that the other one judged.
THEOREM RateIsBounded == ClientsSpec => []SlidingBound
<1>1. ClientsTypeOK /\ RateInv => SlidingBound
  <2> SUFFICES ASSUME ClientsTypeOK, RateInv, NEW b \in Backends, NEW k \in LimitKeys,
                      NEW i \in DOMAIN admitted[b][k], NEW j \in DOMAIN admitted[b][k],
                      i <= j, admitted[b][k][j].at - admitted[b][k][i].at < Window
               PROVE  IF admitted[b][k][j].since < i THEN j - i < 2 * Limit[k]
                      ELSE j - admitted[b][k][j].since <= Limit[k]
    BY DEF SlidingBound
  <2>1. admitted[b][k] \in Seq(Admission)
    BY DEF ClientsTypeOK, LimiterTypeOK
  <2>2. i \in 1..Len(admitted[b][k]) /\ j \in 1..Len(admitted[b][k])
    BY <2>1
  <2>3. Apart(admitted[b][k], Limit[k])
    BY DEF RateInv, BucketOK
  <2>4. QED  BY <2>2, <2>3 DEF Apart
<1>2. QED
  BY <1>1, ClientsTypesHold, RateInit, RateStep, PTL DEF ClientsSpec

=============================================================================
