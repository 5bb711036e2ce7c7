--------------------------- MODULE DealAccessProofs ---------------------------
(***************************************************************************)
(* Who gets into a pool, and what a process death costs, for every number  *)
(* of users, pools, invitations and requests: proofs about DealAccess.     *)
(***************************************************************************)
EXTENDS DealAccess, FiniteSetTheorems, TLAPS

Spent(t, p, u) ==
    /\ invites[t] # NoInvite
    /\ invites[t].pool = p
    /\ invites[t].acceptedBy = u
    /\ invites[t].email \in {u, Nobody}

Invited(p, u) == \E t \in Tokens : Spent(t, p, u)

Agreed(p, u) == \E a \in log : a.pool = p /\ a.user = u

(***************************************************************************)
(* What a request may rely on at its next statement, because no other one  *)
(* takes it away.                                                          *)
(***************************************************************************)
Relies(c) ==
    /\ At(c, "markAccepted") =>
         /\ invites[calls[c].token] # NoInvite
         /\ invites[calls[c].token].email \in {calls[c].user, Nobody}
    /\ At(c, "grant") => Invited(calls[c].pool, calls[c].user)
    /\ At(c, "markConfiAccepted") => Agreed(calls[c].pool, calls[c].user)

AcceptedIsLogged ==
    \A p \in Pools, u \in Users : access[p][u].accepted => Agreed(p, u)

LoggedHasAccess == \A a \in log : has(a.pool, a.user)

(***************************************************************************)
(* The inductive invariant.                                                *)
(***************************************************************************)
Safe ==
    /\ TypeOK
    /\ BuyersAreInvited
    /\ AcceptedIsLogged
    /\ LoggedHasAccess
    /\ \A c \in Calls : Relies(c)

-----------------------------------------------------------------------------
(***************************************************************************)
(* A request's record says which of its fields it has.                     *)
(***************************************************************************)
LEMMA RequestFields ==
    ASSUME TypeOK, NEW c \in Calls, calls[c] # NoCall
    PROVE  /\ calls[c].user \in Users
           /\ calls[c].step = "markAccepted" => calls[c].token \in Tokens
           /\ calls[c].step # "markAccepted" => calls[c].pool \in Pools
           /\ calls[c].step = "stamp" => calls[c].seed \in BOOLEAN
<1>1. calls[c] \in Requests
  BY DEF TypeOK
<1>. QED
  BY <1>1 DEF Requests

LEMMA PoolRequest ==
    ASSUME NEW step \in {"seed", "grant", "markConfiAccepted"},
           NEW p \in Pools, NEW u \in Users
    PROVE  [step |-> step, pool |-> p, user |-> u] \in Requests
BY DEF Requests

(***************************************************************************)
(* A grant adds a row and leaves every row there was.                      *)
(***************************************************************************)
LEMMA GrantAdds ==
    ASSUME TypeOK, NEW p \in Pools, NEW u \in Users,
           NEW party \in {"originator", "buyer", "admin"},
           access' = grant(p, u, party)
    PROVE  /\ access' \in [Pools -> [Users -> Rows]]
           /\ \A q \in Pools, v \in Users : has(q, v) => access'[q][v] = access[q][v]
           /\ \A q \in Pools, v \in Users :
                ~has(q, v) => access'[q][v] \in {access[q][v], [party |-> party, accepted |-> FALSE]}
           /\ \A q \in Pools, v \in Users :
                access'[q][v] # access[q][v] => q = p /\ v = u
<1>1. [party |-> party, accepted |-> FALSE] \in Rows
  BY DEF Rows
<1>2. access \in [Pools -> [Users -> Rows]]
  BY DEF TypeOK
<1>3. CASE has(p, u)
  BY <1>2, <1>3 DEF grant
<1>4. CASE ~has(p, u)
  <2>1. access' = [access EXCEPT ![p][u] = [party |-> party, accepted |-> FALSE]]
    BY <1>4 DEF grant
  <2>. QED
    BY <1>1, <1>2, <1>4, <2>1 DEF has
<1>. QED
  BY <1>3, <1>4

(***************************************************************************)
(* A stamp changes no party and one acceptance, from FALSE to TRUE.        *)
(***************************************************************************)
LEMMA MarkOpens ==
    ASSUME TypeOK, NEW c \in Calls, markConfiAccepted(c)
    PROVE  /\ calls[c].pool \in Pools /\ calls[c].user \in Users
           /\ access' \in [Pools -> [Users -> Rows]]
           /\ \A q \in Pools, v \in Users :
                /\ access'[q][v].party = access[q][v].party
                /\ access[q][v].accepted => access'[q][v].accepted
                /\ access'[q][v] # access[q][v] => q = calls[c].pool /\ v = calls[c].user
<1> DEFINE p == calls[c].pool
           u == calls[c].user
<1>1. p \in Pools /\ u \in Users
  BY RequestFields DEF markConfiAccepted, At
<1>2. access \in [Pools -> [Users -> Rows]]
  BY DEF TypeOK
<1>3. CASE access' = access
  BY <1>1, <1>2, <1>3
<1>4. CASE access' = [access EXCEPT ![p][u].accepted = TRUE]
  <2>0. access[p][u] \in Rows
    BY <1>1, <1>2
  <2>1. [access[p][u] EXCEPT !.accepted = TRUE] \in Rows
    BY <2>0 DEF Rows
  <2>2. access' \in [Pools -> [Users -> Rows]]
    BY <1>1, <1>2, <1>4, <2>1
  <2>3. ASSUME NEW q \in Pools, NEW v \in Users, q # p \/ v # u
        PROVE  access'[q][v] = access[q][v]
    BY <1>1, <1>2, <1>4, <2>3
  <2>4. access'[p][u] = [access[p][u] EXCEPT !.accepted = TRUE]
    BY <1>1, <1>2, <1>4
  <2>5. access'[p][u].accepted /\ access'[p][u].party = access[p][u].party
    BY <1>1, <1>2, <2>4 DEF Rows
  <2>. QED
    BY <1>1, <2>2, <2>3, <2>5
<1>. QED
  BY <1>3, <1>4 DEF markConfiAccepted

(***************************************************************************)
(* The state keeps its type.                                               *)
(***************************************************************************)
LEMMA InitTyped == Init => TypeOK
BY DEF Init, TypeOK, Somebody, Rows, NoRow

LEMMA TypeStep == TypeOK /\ (\A c \in Calls : Relies(c)) /\ [Next]_vars => TypeOK'
<1> SUFFICES ASSUME TypeOK, \A c \in Calls : Relies(c), [Next]_vars PROVE TypeOK'
  OBVIOUS
<1> USE RoleAssumption, BoundsAssumption
<1>1. CASE UNCHANGED vars
  BY <1>1 DEF vars, TypeOK
<1>2. ASSUME NEW c \in Calls, NEW p \in Pools, NEW u \in Users, NEW seed \in BOOLEAN,
             createPool(c, p, u, seed)
      PROVE  TypeOK'
  <2>1. [step |-> "stamp", pool |-> p, user |-> u, seed |-> seed] \in Requests
    BY DEF Requests
  <2>. QED
    BY <1>2, <2>1 DEF createPool, TypeOK, Somebody
<1>3. ASSUME NEW c \in Calls, NEW p \in Pools, NEW u \in Users, record(c, p, u)
      PROVE  TypeOK'
  <2>1. [step |-> "markConfiAccepted", pool |-> p, user |-> u] \in Requests
    BY PoolRequest
  <2>2. [pool |-> p, user |-> u, version |-> version] \in Acceptances
    BY DEF Acceptances, TypeOK
  <2>. QED
    BY <1>3, <2>1, <2>2 DEF record, Then, TypeOK
<1>4. ASSUME NEW t \in Tokens, NEW p \in Pools, NEW u \in Users, NEW email \in Somebody,
             NEW expires \in 1 .. MaxTime, mint(t, p, u, email, expires)
      PROVE  TypeOK'
  <2>1. [pool |-> p, email |-> email, expires |-> expires, acceptedBy |-> Nobody] \in Invites
    BY DEF Invites, Somebody
  <2>. QED
    BY <1>4, <2>1 DEF mint, TypeOK
<1>5. ASSUME NEW c \in Calls, NEW t \in Tokens, NEW u \in Users, acceptInvitation(c, t, u)
      PROVE  TypeOK'
  <2>1. [step |-> "markAccepted", token |-> t, user |-> u] \in Requests
    BY DEF Requests
  <2>. QED
    BY <1>5, <2>1 DEF acceptInvitation, tables, TypeOK
<1>6. ASSUME NEW c \in Calls, stampOwner(c) PROVE TypeOK'
  <2>1. calls[c].pool \in Pools /\ calls[c].user \in Users
    BY <1>6, RequestFields DEF stampOwner, At
  <2>2. access' \in [Pools -> [Users -> Rows]]
    BY <1>6, <2>1, GrantAdds DEF stampOwner
  <2>3. calls' \in [Calls -> Requests \cup {NoCall}]
    BY <1>6, <2>1, PoolRequest DEF stampOwner, Then, Done, TypeOK
  <2>. QED
    BY <1>6, <2>2, <2>3 DEF stampOwner, TypeOK
<1>7. ASSUME NEW c \in Calls, seedSingleLoan(c) PROVE TypeOK'
  <2>1. calls[c].pool \in Pools
    BY <1>7, RequestFields DEF seedSingleLoan, At
  <2>. QED
    BY <1>7, <2>1 DEF seedSingleLoan, Done, TypeOK
<1>8. ASSUME NEW c \in Calls, markAccepted(c) PROVE TypeOK'
  <2> DEFINE t == calls[c].token
  <2>1. t \in Tokens /\ calls[c].user \in Users
    BY <1>8, RequestFields DEF markAccepted, At
  <2>2. CASE invites[t].acceptedBy # Nobody /\ Done(c) /\ UNCHANGED invites
    BY <1>8, <2>2 DEF markAccepted, Done, TypeOK
  <2>3. CASE /\ invites[t].acceptedBy = Nobody
             /\ invites' = [invites EXCEPT ![t].acceptedBy = calls[c].user]
             /\ Then(c, "grant", invites[t].pool, calls[c].user)
    <3>1. invites[t] \in Invites
      BY <1>8, <2>1 DEF markAccepted, Relies, TypeOK
    <3>2. [invites[t] EXCEPT !.acceptedBy = calls[c].user] \in Invites
      BY <2>1, <3>1 DEF Invites, Somebody
    <3>3. invites' \in [Tokens -> Invites \cup {NoInvite}]
      BY <2>1, <2>3, <3>2 DEF TypeOK
    <3>4. calls' \in [Calls -> Requests \cup {NoCall}]
      BY <2>1, <2>3, <3>1, PoolRequest DEF Then, Invites, TypeOK
    <3>. QED
      BY <1>8, <3>3, <3>4 DEF markAccepted, TypeOK
  <2>. QED
    BY <1>8, <2>2, <2>3 DEF markAccepted
<1>9. ASSUME NEW c \in Calls, grantBuyer(c) PROVE TypeOK'
  <2>1. calls[c].pool \in Pools /\ calls[c].user \in Users
    BY <1>9, RequestFields DEF grantBuyer, At
  <2>2. access' \in [Pools -> [Users -> Rows]]
    BY <1>9, <2>1, GrantAdds DEF grantBuyer
  <2>. QED
    BY <1>9, <2>2 DEF grantBuyer, Done, TypeOK
<1>10. ASSUME NEW c \in Calls, markConfiAccepted(c) PROVE TypeOK'
  <2>1. access' \in [Pools -> [Users -> Rows]]
    BY <1>10, MarkOpens
  <2>. QED
    BY <1>10, <2>1 DEF markConfiAccepted, Done, TypeOK
<1>11. ASSUME NEW c \in Calls, Crash(c) PROVE TypeOK'
  BY <1>11 DEF Crash, Done, tables, TypeOK
<1>12. ASSUME NEW p \in Pools, NEW u \in Users, backfill(p, u) PROVE TypeOK'
  <2>1. access' \in [Pools -> [Users -> Rows]]
    BY <1>12, GrantAdds DEF backfill
  <2>. QED
    BY <1>12, <2>1 DEF backfill, TypeOK
<1>13. CASE Deploy
  BY <1>13 DEF Deploy, tables, TypeOK
<1>14. CASE Tick
  BY <1>14 DEF Tick, tables, TypeOK
<1>. QED
  BY <1>1, <1>2, <1>3, <1>4, <1>5, <1>6, <1>7, <1>8, <1>9, <1>10, <1>11, <1>12, <1>13, <1>14
     DEF Next

(***************************************************************************)
(* What a step of any kind does to the tables: no row, spent invitation or *)
(* logged acceptance is taken back, and what is new was asked for.         *)
(***************************************************************************)
RowsStay ==
    \A p \in Pools, u \in Users : has(p, u) =>
      /\ access'[p][u].party = access[p][u].party
      /\ access[p][u].accepted => access'[p][u].accepted

SpentStay ==
    \A t \in Tokens :
      /\ invites[t] # NoInvite =>
           /\ invites'[t] # NoInvite
           /\ invites'[t].pool = invites[t].pool
           /\ invites'[t].email = invites[t].email
      /\ invites[t] # NoInvite /\ invites[t].acceptedBy # Nobody => invites'[t] = invites[t]

LogStays == log \subseteq log'

Kept == RowsStay /\ SpentStay /\ LogStays

LEMMA StepsKeep ==
    ASSUME TypeOK, \A c \in Calls : Relies(c), [Next]_vars
    PROVE  Kept
<1> USE DEF Kept, RowsStay, SpentStay, LogStays
<1>1. CASE UNCHANGED <<access, invites, log>>
  BY <1>1
<1>2. ASSUME NEW c \in Calls, NEW p \in Pools, NEW u \in Users, record(c, p, u)
      PROVE  Kept
  BY <1>2 DEF record
<1>3. ASSUME NEW t \in Tokens, NEW p \in Pools, NEW u \in Users, NEW email \in Somebody,
             NEW expires \in 1 .. MaxTime, mint(t, p, u, email, expires)
      PROVE  Kept
  BY <1>3 DEF mint, TypeOK
<1>4. ASSUME NEW c \in Calls, stampOwner(c) PROVE Kept
  <2>1. calls[c].pool \in Pools /\ calls[c].user \in Users
    BY <1>4, RequestFields DEF stampOwner, At
  <2>. QED
    BY <1>4, <2>1, GrantAdds DEF stampOwner
<1>5. ASSUME NEW c \in Calls, markAccepted(c) PROVE Kept
  <2>1. calls[c].token \in Tokens /\ invites[calls[c].token] # NoInvite
    BY <1>5, RequestFields DEF markAccepted, At, Relies
  <2>2. invites[calls[c].token] \in Invites
    BY <2>1 DEF TypeOK
  <2>3. CASE invites' = [invites EXCEPT ![calls[c].token].acceptedBy = calls[c].user]
             /\ invites[calls[c].token].acceptedBy = Nobody
    <3>1. calls[c].user \in Users
      BY <1>5, RequestFields DEF markAccepted, At
    <3>2. [invites[calls[c].token] EXCEPT !.acceptedBy = calls[c].user] \in Invites
      BY <2>2, <3>1 DEF Invites, Somebody
    <3>3. SpentStay
      BY <2>1, <2>2, <2>3, <3>2, NoInviteAssumption DEF TypeOK, Invites
    <3>. QED
      BY <1>5, <3>3 DEF markAccepted
  <2>4. CASE UNCHANGED invites
    BY <1>5, <2>4 DEF markAccepted
  <2>. QED
    BY <1>5, <2>3, <2>4 DEF markAccepted
<1>6. ASSUME NEW c \in Calls, grantBuyer(c) PROVE Kept
  <2>1. calls[c].pool \in Pools /\ calls[c].user \in Users
    BY <1>6, RequestFields DEF grantBuyer, At
  <2>. QED
    BY <1>6, <2>1, GrantAdds DEF grantBuyer
<1>7. ASSUME NEW c \in Calls, markConfiAccepted(c) PROVE Kept
  BY <1>7, MarkOpens DEF markConfiAccepted
<1>8. ASSUME NEW p \in Pools, NEW u \in Users, backfill(p, u) PROVE Kept
  BY <1>8, GrantAdds DEF backfill
<1>9. CASE \E c \in Calls, p \in Pools, u \in Users : \E seed \in BOOLEAN : createPool(c, p, u, seed)
  BY <1>1, <1>9 DEF createPool
<1>10. CASE \E c \in Calls, t \in Tokens, u \in Users : acceptInvitation(c, t, u)
  BY <1>1, <1>10 DEF acceptInvitation, tables
<1>11. CASE \E c \in Calls : seedSingleLoan(c) \/ Crash(c)
  BY <1>1, <1>11 DEF seedSingleLoan, Crash, tables
<1>12. CASE Deploy \/ Tick \/ UNCHANGED vars
  BY <1>1, <1>12 DEF Deploy, Tick, tables, vars
<1>. QED
  BY <1>2, <1>3, <1>4, <1>5, <1>6, <1>7, <1>8, <1>9, <1>10, <1>11, <1>12 DEF Next

-----------------------------------------------------------------------------
(***************************************************************************)
(* What one request relies on, no step of another takes away; and what it  *)
(* does next is licensed by it.                                            *)
(***************************************************************************)
LEMMA AgreedStays ==
    ASSUME LogStays, NEW p, NEW u, Agreed(p, u)
    PROVE  Agreed(p, u)'
BY DEF LogStays, Agreed

LEMMA InvitedStays ==
    ASSUME NobodyAssumption, SpentStay, NEW p, NEW u \in Users, Invited(p, u)
    PROVE  Invited(p, u)'
BY DEF SpentStay, Invited, Spent

LEMMA ReliesStep ==
    ASSUME Safe, [Next]_vars
    PROVE  \A c \in Calls : Relies(c)'
<1> SUFFICES ASSUME NEW c \in Calls PROVE Relies(c)'
  OBVIOUS
<1> USE NobodyAssumption, NoCallAssumption
<1>1. Kept
  BY StepsKeep DEF Safe
<1>2. CASE calls'[c] = calls[c]
  <2>1. CASE At(c, "markAccepted")
    <3>1. calls[c].token \in Tokens
      BY <2>1, RequestFields DEF At, Safe
    <3>. QED
      BY <1>1, <1>2, <2>1, <3>1 DEF Safe, Relies, At, Kept, SpentStay
  <2>2. CASE At(c, "grant")
    <3>1. calls[c].user \in Users /\ Invited(calls[c].pool, calls[c].user)
      BY <2>2, RequestFields DEF At, Safe, Relies
    <3>2. Invited(calls[c].pool, calls[c].user)'
      BY <1>1, <1>2, <3>1 DEF Kept, SpentStay, Invited, Spent
    <3>. QED
      BY <1>2, <2>2, <3>2 DEF Relies, At
  <2>3. CASE At(c, "markConfiAccepted")
    <3>1. Agreed(calls[c].pool, calls[c].user)'
      BY <1>1, <1>2, <2>3 DEF Kept, LogStays, Agreed, Safe, Relies
    <3>. QED
      BY <1>2, <2>3, <3>1 DEF Relies, At
  <2>4. CASE ~At(c, "markAccepted") /\ ~At(c, "grant") /\ ~At(c, "markConfiAccepted")
    BY <1>2, <2>4 DEF Relies, At
  <2>. QED
    BY <2>1, <2>2, <2>3, <2>4
<1>3. CASE calls'[c] = NoCall
  BY <1>3 DEF Relies, At
<1>4. ASSUME NEW p \in Pools, NEW u \in Users, record(c, p, u)
      PROVE  Relies(c)'
  <2>1. calls'[c] = [step |-> "markConfiAccepted", pool |-> p, user |-> u]
    BY <1>4 DEF record, Then, Safe, TypeOK
  <2>2. [pool |-> p, user |-> u, version |-> version] \in log'
    BY <1>4 DEF record
  <2>3. Agreed(p, u)'
    BY <2>2 DEF Agreed
  <2>. QED
    BY <2>1, <2>3 DEF Relies, At
<1>5. ASSUME NEW t \in Tokens, NEW u \in Users, acceptInvitation(c, t, u)
      PROVE  Relies(c)'
  <2>1. calls'[c] = [step |-> "markAccepted", token |-> t, user |-> u]
    BY <1>5 DEF acceptInvitation, Safe, TypeOK
  <2>. QED
    BY <1>5, <2>1 DEF acceptInvitation, tables, Relies, At
<1>6. CASE markAccepted(c)
  <2>1. PICK t \in Tokens, u \in Users : t = calls[c].token /\ u = calls[c].user
    BY <1>6, RequestFields DEF markAccepted, At, Safe
  <2>2. invites[t] \in Invites /\ invites[t].email \in {u, Nobody}
    BY <1>6, <2>1 DEF markAccepted, Relies, Safe, TypeOK
  <2>3. CASE /\ invites' = [invites EXCEPT ![t].acceptedBy = u]
             /\ Then(c, "grant", invites[t].pool, u)
    <3>1. PICK p \in Pools : p = invites[t].pool
      BY <2>2 DEF Invites
    <3>2. calls'[c] = [step |-> "grant", pool |-> p, user |-> u]
      BY <2>3, <3>1 DEF Then, Safe, TypeOK
    <3>3. invites'[t] = [invites[t] EXCEPT !.acceptedBy = u]
      BY <2>1, <2>3 DEF Safe, TypeOK
    <3>4. /\ invites'[t] \in Invites
          /\ invites'[t].pool = p
          /\ invites'[t].acceptedBy = u
          /\ invites'[t].email = invites[t].email
      BY <2>1, <2>2, <3>1, <3>3 DEF Invites, Somebody
    <3>5. invites'[t] # NoInvite
      BY <3>4, NoInviteAssumption
    <3>6. Invited(p, u)'
      BY <2>1, <2>2, <3>4, <3>5 DEF Invited, Spent
    <3>. QED
      BY <3>2, <3>6 DEF Relies, At
  <2>4. CASE Done(c)
    BY <1>3, <2>4 DEF Done, Safe, TypeOK
  <2>. QED
    BY <1>6, <2>1, <2>3, <2>4 DEF markAccepted
<1>7. ASSUME NEW p \in Pools, NEW u \in Users, NEW seed \in BOOLEAN, createPool(c, p, u, seed)
      PROVE  Relies(c)'
  <2>1. calls'[c].step = "stamp"
    BY <1>7 DEF createPool, Safe, TypeOK
  <2>. QED
    BY <2>1 DEF Relies, At
<1>8. CASE stampOwner(c)
  <2>1. calls'[c] = NoCall \/ calls'[c].step = "seed"
    BY <1>8 DEF stampOwner, Then, Done, Safe, TypeOK
  <2>. QED
    BY <2>1 DEF Relies, At
<1>9. CASE seedSingleLoan(c) \/ grantBuyer(c) \/ markConfiAccepted(c) \/ Crash(c)
  <2>1. calls'[c] = NoCall
    BY <1>9 DEF seedSingleLoan, grantBuyer, markConfiAccepted, Crash, Done, Safe, TypeOK
  <2>. QED
    BY <1>3, <2>1
<1>10. ASSUME NEW d \in Calls, d # c,
              \/ stampOwner(d) \/ seedSingleLoan(d) \/ markAccepted(d)
              \/ grantBuyer(d) \/ markConfiAccepted(d) \/ Crash(d)
              \/ \E p \in Pools, u \in Users :
                    record(d, p, u) \/ \E seed \in BOOLEAN : createPool(d, p, u, seed)
              \/ \E t \in Tokens, u \in Users : acceptInvitation(d, t, u)
       PROVE  Relies(c)'
  <2>1. calls'[c] = calls[c]
    BY <1>10 DEF stampOwner, seedSingleLoan, markAccepted, grantBuyer, markConfiAccepted, Crash,
                 record, createPool, acceptInvitation, Then, Done, Safe, TypeOK
  <2>. QED
    BY <1>2, <2>1
<1>11. CASE \/ UNCHANGED vars \/ Deploy \/ Tick
            \/ \E p \in Pools, u \in Users : backfill(p, u)
            \/ \E t \in Tokens, p \in Pools, u \in Users, email \in Somebody,
                  expires \in 1 .. MaxTime : mint(t, p, u, email, expires)
  BY <1>2, <1>11 DEF vars, Deploy, Tick, backfill, mint
<1>. QED
  BY <1>4, <1>5, <1>6, <1>7, <1>8, <1>9, <1>10, <1>11 DEF Next

-----------------------------------------------------------------------------
(***************************************************************************)
(* A row that is new, or that has just become a buyer's or an accepted     *)
(* one, is what the request that wrote it was licensed to write.           *)
(***************************************************************************)
LEMMA BuyersStep ==
    ASSUME Safe, [Next]_vars
    PROVE  BuyersAreInvited'
<1> SUFFICES ASSUME NEW p \in Pools, NEW u \in Users, access'[p][u].party = "buyer"
             PROVE  Invited(p, u)'
  BY DEF BuyersAreInvited, Invited, Spent
<1>1. Kept
  BY StepsKeep DEF Safe
<1>2. CASE access[p][u].party = "buyer"
  <2>1. Invited(p, u)
    BY <1>2 DEF Safe, BuyersAreInvited, Invited, Spent
  <2>. QED
    BY <1>1, <2>1, InvitedStays, NobodyAssumption DEF Kept
<1>3. CASE access[p][u].party # "buyer"
  <2>1. ASSUME NEW c \in Calls, grantBuyer(c) PROVE Invited(p, u)'
    <3>1. calls[c].pool \in Pools /\ calls[c].user \in Users
      BY <2>1, RequestFields DEF grantBuyer, At, Safe
    <3>2. p = calls[c].pool /\ u = calls[c].user
      BY <1>3, <2>1, <3>1, GrantAdds DEF grantBuyer, Safe
    <3>3. Invited(p, u)
      BY <2>1, <3>2 DEF grantBuyer, Safe, Relies
    <3>. QED
      BY <1>1, <3>3, InvitedStays, NobodyAssumption DEF Kept
  <2>2. ASSUME NEW c \in Calls, stampOwner(c) PROVE FALSE
    <3>1. calls[c].pool \in Pools /\ calls[c].user \in Users
      BY <2>2, RequestFields DEF stampOwner, At, Safe
    <3>2. access' = grant(calls[c].pool, calls[c].user, "originator")
      BY <2>2 DEF stampOwner
    <3>3. \/ access'[p][u] = access[p][u]
          \/ access'[p][u] = [party |-> "originator", accepted |-> FALSE]
      BY <3>1, <3>2, GrantAdds DEF Safe
    <3>. QED
      BY <1>3, <3>3
  <2>3. ASSUME NEW q \in Pools, NEW v \in Users, backfill(q, v) PROVE FALSE
    <3>1. PICK party \in {"admin", "originator"} : access' = grant(q, v, party)
      BY <2>3 DEF backfill
    <3>2. access'[p][u] \in {access[p][u], [party |-> party, accepted |-> FALSE]}
      BY <3>1, GrantAdds DEF Safe
    <3>. QED
      BY <1>3, <3>1, <3>2
  <2>4. ASSUME NEW c \in Calls, markConfiAccepted(c) PROVE FALSE
    BY <1>3, <2>4, MarkOpens DEF Safe
  <2>5. CASE UNCHANGED access
    BY <1>3, <2>5
  <2>. QED
    BY <2>1, <2>2, <2>3, <2>4, <2>5
       DEF Next, vars, tables, createPool, record, mint, acceptInvitation, seedSingleLoan,
           markAccepted, Crash, Deploy, Tick
<1>. QED
  BY <1>2, <1>3

LEMMA AcceptedStep ==
    ASSUME Safe, [Next]_vars
    PROVE  AcceptedIsLogged'
<1> SUFFICES ASSUME NEW p \in Pools, NEW u \in Users, access'[p][u].accepted
             PROVE  Agreed(p, u)'
  BY DEF AcceptedIsLogged
<1>1. LogStays
  BY StepsKeep DEF Safe, Kept
<1>2. CASE Agreed(p, u)
  BY <1>1, <1>2, AgreedStays
<1>3. CASE access'[p][u] = access[p][u]
  BY <1>1, <1>3, AgreedStays DEF Safe, AcceptedIsLogged
<1>4. ASSUME NEW c \in Calls, markConfiAccepted(c), access'[p][u] # access[p][u]
      PROVE  Agreed(p, u)
  <2>1. p = calls[c].pool /\ u = calls[c].user
    BY <1>4, MarkOpens DEF Safe
  <2>2. Agreed(calls[c].pool, calls[c].user)
    BY <1>4 DEF markConfiAccepted, Safe, Relies
  <2>. QED
    BY <2>1, <2>2
<1>5. ASSUME NEW q \in Pools, NEW v \in Users, NEW party \in {"originator", "buyer", "admin"},
             access' = grant(q, v, party)
      PROVE  access'[p][u] = access[p][u]
  BY <1>5, GrantAdds DEF Safe
<1>6. ASSUME NEW c \in Calls, stampOwner(c) \/ grantBuyer(c)
      PROVE  access'[p][u] = access[p][u]
  <2>1. calls[c].pool \in Pools /\ calls[c].user \in Users
    BY <1>6, RequestFields DEF stampOwner, grantBuyer, At, Safe
  <2>. QED
    BY <1>5, <1>6, <2>1 DEF stampOwner, grantBuyer
<1>7. ASSUME NEW q \in Pools, NEW v \in Users, backfill(q, v)
      PROVE  access'[p][u] = access[p][u]
  BY <1>5, <1>7 DEF backfill
<1>8. CASE UNCHANGED access
  BY <1>3, <1>8
<1>. QED
  BY <1>2, <1>3, <1>4, <1>6, <1>7, <1>8
     DEF Next, vars, tables, createPool, record, mint, acceptInvitation, seedSingleLoan,
         markAccepted, Crash, Deploy, Tick

LEMMA LoggedStep ==
    ASSUME Safe, [Next]_vars
    PROVE  LoggedHasAccess'
<1> SUFFICES ASSUME NEW a \in log' PROVE has(a.pool, a.user)'
  BY DEF LoggedHasAccess
<1>1. TypeOK'
  BY TypeStep DEF Safe
<1>2. a.pool \in Pools /\ a.user \in Users
  BY <1>1 DEF TypeOK, Acceptances
<1>3. has(a.pool, a.user)
  <2>1. CASE a \in log
    BY <2>1 DEF Safe, LoggedHasAccess
  <2>2. CASE a \notin log
    <3>1. PICK c \in Calls, p \in Pools, u \in Users : record(c, p, u)
      BY <2>2 DEF Next, vars, tables, createPool, mint, acceptInvitation, stampOwner, seedSingleLoan,
           markAccepted, grantBuyer, markConfiAccepted, Crash, backfill, Deploy, Tick
    <3>. QED
      BY <2>2, <3>1 DEF record
  <2>. QED
    BY <2>1, <2>2
<1>4. access'[a.pool][a.user].party = access[a.pool][a.user].party
  BY <1>2, <1>3, StepsKeep DEF Safe, Kept, RowsStay
<1>. QED
  BY <1>3, <1>4 DEF has

-----------------------------------------------------------------------------
(***************************************************************************)
(* The theorems.                                                           *)
(***************************************************************************)
LEMMA SafeInit == Init => Safe
<1> SUFFICES ASSUME Init PROVE Safe
  OBVIOUS
<1>1. TypeOK
  BY InitTyped
<1>2. BuyersAreInvited /\ AcceptedIsLogged
  BY DEF Init, NoRow, BuyersAreInvited, AcceptedIsLogged
<1>3. LoggedHasAccess /\ \A c \in Calls : Relies(c)
  BY DEF Init, LoggedHasAccess, Relies, At
<1>. QED
  BY <1>1, <1>2, <1>3 DEF Safe

LEMMA SafeStep == Safe /\ [Next]_vars => Safe'
<1> SUFFICES ASSUME Safe, [Next]_vars PROVE Safe'
  OBVIOUS
<1>1. TypeOK'
  BY TypeStep DEF Safe
<1>. QED
  BY <1>1, ReliesStep, BuyersStep, AcceptedStep, LoggedStep DEF Safe

LEMMA SafeAlways == Spec => []Safe
BY SafeInit, SafeStep, PTL DEF Spec

(***************************************************************************)
(* The state is of its type, for every number of requests at a time.       *)
(***************************************************************************)
THEOREM AccessTyped == Spec => []TypeOK
<1>1. Safe => TypeOK
  BY DEF Safe
<1>. QED
  BY <1>1, SafeAlways, PTL

(***************************************************************************)
(* Every buyer's row goes back to an invitation to the pool that was meant *)
(* for that user and that this user spent, whichever requests raced for it *)
(* and wherever they died.                                                 *)
(***************************************************************************)
THEOREM BuyersInvited == Spec => []BuyersAreInvited
<1>1. Safe => BuyersAreInvited
  BY DEF Safe
<1>. QED
  BY <1>1, SafeAlways, PTL

(***************************************************************************)
(* The data room lets in no buyer who has not accepted an agreement, and   *)
(* only who has access accepts one.                                        *)
(***************************************************************************)
THEOREM EntryConsented == Spec => []EntryIsConsented
<1>1. Safe => EntryIsConsented
  BY DEF Safe, EntryIsConsented, AcceptedIsLogged, LoggedHasAccess, Agreed,
         enforceDataRoomAccessParam, acceptedAtFor
<1>. QED
  BY <1>1, SafeAlways, PTL

(***************************************************************************)
(* No step takes a row, an acceptance or a spent invitation back.          *)
(***************************************************************************)
THEOREM NothingTakenBack == Spec => NothingIsTakenBack
<1>1. ASSUME Safe, [Next]_vars
      PROVE  /\ \A p \in Pools, u \in Users : has(p, u) =>
                  /\ access'[p][u].party = access[p][u].party
                  /\ access[p][u].accepted => access'[p][u].accepted
             /\ \A t \in Tokens :
                  invites[t] # NoInvite /\ invites[t].acceptedBy # Nobody =>
                    invites'[t] = invites[t]
  BY <1>1, StepsKeep DEF Safe, Kept, RowsStay, SpentStay
<1>. QED
  BY <1>1, SafeAlways, PTL DEF Spec, NothingIsTakenBack

-----------------------------------------------------------------------------
(***************************************************************************)
(* Lost work.  A user may have spent several invitations to one pool, each *)
(* by a request of its own, and a row granted by one of them serves all of *)
(* them.  So each request that is to grant a row answers for one of the    *)
(* invitations its user spent, and an invitation that no request answers   *)
(* for is the loss of one process death.                                   *)
(***************************************************************************)
AnswersFor(of) ==
    \A c \in Calls : At(c, "grant") =>
      /\ of[c] \in Tokens
      /\ invites[of[c]] # NoInvite
      /\ invites[of[c]].pool = calls[c].pool
      /\ invites[of[c]].acceptedBy = calls[c].user

Orphans(of) ==
    {t \in Tokens : /\ invites[t] # NoInvite
                    /\ invites[t].acceptedBy # Nobody
                    /\ ~has(invites[t].pool, invites[t].acceptedBy)
                    /\ \A c \in Calls : At(c, "grant") => of[c] # t}

Lost(of) ==
    Cardinality(Ownerless) + Cardinality(Orphans(of)) + Cardinality(AcceptedForNothing)

Counted ==
    \E of \in [Calls -> Tokens \cup {NoInvite}] : AnswersFor(of) /\ Lost(of) <= crashes

LEMMA CountShrinks ==
    ASSUME NEW A, NEW B, NEW C, IsFiniteSet(A), IsFiniteSet(B), IsFiniteSet(C),
           NEW A2 \in SUBSET A, NEW B2 \in SUBSET B, NEW C2 \in SUBSET C
    PROVE  /\ Cardinality(A2) + Cardinality(B2) + Cardinality(C2)
                <= Cardinality(A) + Cardinality(B) + Cardinality(C)
           /\ Cardinality(A) + Cardinality(B) + Cardinality(C) \in Nat
           /\ Cardinality(A2) + Cardinality(B2) + Cardinality(C2) \in Nat
<1>1. /\ Cardinality(A2) <= Cardinality(A) /\ IsFiniteSet(A2)
      /\ Cardinality(B2) <= Cardinality(B) /\ IsFiniteSet(B2)
      /\ Cardinality(C2) <= Cardinality(C) /\ IsFiniteSet(C2)
  BY FS_Subset
<1>2. /\ Cardinality(A) \in Nat /\ Cardinality(B) \in Nat /\ Cardinality(C) \in Nat
      /\ Cardinality(A2) \in Nat /\ Cardinality(B2) \in Nat /\ Cardinality(C2) \in Nat
  BY <1>1, FS_CardinalityType
<1>. QED
  BY <1>1, <1>2

LEMMA CountGrows ==
    ASSUME NEW A, NEW B, NEW C, IsFiniteSet(A), IsFiniteSet(B), IsFiniteSet(C), NEW x,
           NEW A2 \in SUBSET (A \cup {x}), NEW B2 \in SUBSET B, NEW C2 \in SUBSET C
    PROVE  /\ Cardinality(A2) + Cardinality(B2) + Cardinality(C2)
                <= Cardinality(A) + Cardinality(B) + Cardinality(C) + 1
<1>1. /\ IsFiniteSet(A \cup {x})
      /\ \/ Cardinality(A \cup {x}) = Cardinality(A)
         \/ Cardinality(A \cup {x}) = Cardinality(A) + 1
  BY FS_AddElement
<1>2. /\ Cardinality(A2) + Cardinality(B2) + Cardinality(C2)
           <= Cardinality(A \cup {x}) + Cardinality(B) + Cardinality(C)
      /\ Cardinality(A2) + Cardinality(B2) + Cardinality(C2) \in Nat
  BY <1>1, CountShrinks
<1>3. Cardinality(A) \in Nat /\ Cardinality(B) \in Nat /\ Cardinality(C) \in Nat
  BY FS_CardinalityType
<1>. QED
  BY <1>1, <1>2, <1>3

LEMMA FiniteLoss ==
    ASSUME NEW of
    PROVE  IsFiniteSet(Ownerless) /\ IsFiniteSet(Orphans(of)) /\ IsFiniteSet(AcceptedForNothing)
<1>1. IsFiniteSet(Pools \X Users)
  BY BoundsAssumption, FS_Product
<1>2. /\ Ownerless \subseteq Pools /\ Orphans(of) \subseteq Tokens
      /\ AcceptedForNothing \subseteq Pools \X Users
  BY DEF Ownerless, Orphans, AcceptedForNothing
<1>. QED
  BY <1>1, <1>2, BoundsAssumption, FS_Subset

(***************************************************************************)
(* A request stays at its statement until it makes it or dies.             *)
(***************************************************************************)
LEMMA CallsWait ==
    ASSUME Safe, [Next]_vars, NEW c \in Calls, calls[c] # NoCall
    PROVE  \/ calls'[c] = calls[c]
           \/ stampOwner(c) \/ seedSingleLoan(c) \/ markAccepted(c)
           \/ grantBuyer(c) \/ markConfiAccepted(c) \/ Crash(c)
<1> USE DEF Safe, TypeOK
<1>1. ASSUME NEW d \in Calls, NEW p \in Pools, NEW u \in Users, NEW seed \in BOOLEAN,
             createPool(d, p, u, seed) \/ record(d, p, u)
      PROVE  calls'[c] = calls[c]
  BY <1>1 DEF createPool, record, Then
<1>2. ASSUME NEW d \in Calls, NEW t \in Tokens, NEW u \in Users, acceptInvitation(d, t, u)
      PROVE  calls'[c] = calls[c]
  BY <1>2 DEF acceptInvitation
<1>3. ASSUME NEW d \in Calls, d # c,
             \/ stampOwner(d) \/ seedSingleLoan(d) \/ markAccepted(d)
             \/ grantBuyer(d) \/ markConfiAccepted(d) \/ Crash(d)
      PROVE  calls'[c] = calls[c]
  BY <1>3 DEF stampOwner, seedSingleLoan, markAccepted, grantBuyer, markConfiAccepted, Crash,
              Then, Done
<1>4. CASE \/ UNCHANGED vars \/ Deploy \/ Tick
           \/ \E p \in Pools, u \in Users : backfill(p, u)
           \/ \E t \in Tokens, p \in Pools, u \in Users, email \in Somebody,
                 expires \in 1 .. MaxTime : mint(t, p, u, email, expires)
  BY <1>4 DEF vars, Deploy, Tick, backfill, mint
<1>. QED
  BY <1>1, <1>2, <1>3, <1>4 DEF Next

(***************************************************************************)
(* A step that is no process death loses no pool its creator's row, ...    *)
(***************************************************************************)
LEMMA GrantGives ==
    ASSUME TypeOK, NEW p \in Pools, NEW u \in Users,
           NEW party \in {"originator", "buyer", "admin"}, access' = grant(p, u, party)
    PROVE  has(p, u)'
<1>1. CASE has(p, u)
  BY <1>1 DEF grant, has
<1>2. CASE ~has(p, u)
  BY <1>2 DEF grant, has, TypeOK
<1>. QED
  BY <1>1, <1>2

LEMMA OwnersStep ==
    ASSUME Safe, [Next]_vars, NEW p \in Ownerless', p \notin Ownerless
    PROVE  \E c \in Calls : Crash(c) /\ At(c, "stamp") /\ p = calls[c].pool
<1>0. TypeOK /\ p \in Pools /\ RowsStay
  BY StepsKeep DEF Safe, Ownerless, Kept
<1>1. PICK u \in Users : creator'[p] = u
  <2>1. creator'[p] \in Somebody /\ creator'[p] # Nobody
    BY <1>0, TypeStep DEF Safe, TypeOK, Ownerless
  <2>. QED
    BY <2>1 DEF Somebody
<1>2. ~has(p, u)' /\ ~InFlight("stamp", p, u)'
  BY <1>1 DEF Ownerless
<1>3. ~has(p, u)
  BY <1>0, <1>2 DEF RowsStay, has
<1>4. CASE creator' = creator
  <2>1. InFlight("stamp", p, u)
    BY <1>0, <1>1, <1>3, <1>4, NobodyAssumption DEF Ownerless
  <2>2. PICK c \in Calls : At(c, "stamp") /\ calls[c].pool = p /\ calls[c].user = u
    BY <2>1 DEF InFlight
  <2>3. CASE calls'[c] = calls[c]
    BY <1>2, <2>2, <2>3 DEF InFlight, At
  <2>4. CASE stampOwner(c)
    BY <1>0, <1>2, <2>2, <2>4, GrantGives DEF stampOwner
  <2>5. CASE Crash(c)
    BY <2>2, <2>5
  <2>. QED
    BY <2>2, <2>3, <2>4, <2>5, CallsWait
       DEF At, seedSingleLoan, markAccepted, grantBuyer, markConfiAccepted
<1>5. ASSUME NEW c \in Calls, NEW q \in Pools, NEW v \in Users, NEW seed \in BOOLEAN,
             createPool(c, q, v, seed)
      PROVE  FALSE
  <2>1. CASE q = p
    <3>1. u = v /\ calls'[c] = [step |-> "stamp", pool |-> p, user |-> u, seed |-> seed]
      BY <1>0, <1>1, <1>5, <2>1 DEF createPool, TypeOK
    <3>2. calls'[c] \in Requests
      BY <1>0, <3>1 DEF Requests
    <3>3. At(c, "stamp")' /\ calls'[c].pool = p /\ calls'[c].user = u
      BY <3>1, <3>2, NoCallAssumption DEF At
    <3>. QED
      BY <1>2, <3>3 DEF InFlight
  <2>2. CASE q # p
    <3>1. creator'[p] = creator[p]
      BY <1>0, <1>5, <2>2 DEF createPool, TypeOK
    <3>2. PICK d \in Calls : At(d, "stamp") /\ calls[d].pool = p /\ calls[d].user = u
      BY <1>0, <1>1, <1>3, <3>1, NobodyAssumption DEF Ownerless, InFlight
    <3>3. calls'[d] = calls[d]
      BY <1>0, <1>5, <3>2 DEF createPool, TypeOK, At
    <3>. QED
      BY <1>2, <3>2, <3>3 DEF InFlight, At
  <2>. QED
    BY <2>1, <2>2
<1>. QED
  BY <1>4, <1>5 DEF Next, vars, tables, record, mint, acceptInvitation, stampOwner, seedSingleLoan,
     markAccepted, grantBuyer, markConfiAccepted, Crash, backfill, Deploy, Tick

(***************************************************************************)
(* ... no acceptance its stamp, ...                                        *)
(***************************************************************************)
LEMMA AcceptancesStep ==
    ASSUME Safe, [Next]_vars, NEW k \in AcceptedForNothing', k \notin AcceptedForNothing
    PROVE  \E c \in Calls : /\ Crash(c) /\ At(c, "markConfiAccepted")
                            /\ k = <<calls[c].pool, calls[c].user>>
<1>1. PICK p \in Pools, u \in Users : k = <<p, u>>
  BY DEF AcceptedForNothing
<1>2. /\ \E a \in log' : a.pool = p /\ a.user = u
      /\ ~access'[p][u].accepted /\ ~InFlight("markConfiAccepted", p, u)'
  BY <1>1 DEF AcceptedForNothing
<1>3. CASE \E a \in log : a.pool = p /\ a.user = u
  <2>1. has(p, u)
    BY <1>3 DEF Safe, LoggedHasAccess
  <2>2. ~access[p][u].accepted
    BY <1>2, <2>1, StepsKeep DEF Safe, Kept, RowsStay
  <2>3. InFlight("markConfiAccepted", p, u)
    BY <1>1, <1>3, <2>2 DEF AcceptedForNothing
  <2>4. PICK c \in Calls : At(c, "markConfiAccepted") /\ calls[c].pool = p /\ calls[c].user = u
    BY <2>3 DEF InFlight
  <2>5. CASE calls'[c] = calls[c]
    BY <1>2, <2>4, <2>5 DEF InFlight, At
  <2>6. CASE markConfiAccepted(c)
    <3>1. access' = [access EXCEPT ![p][u].accepted = TRUE]
      BY <2>1, <2>4, <2>6 DEF markConfiAccepted
    <3>2. access[p][u] \in Rows /\ access \in [Pools -> [Users -> Rows]]
      BY DEF Safe, TypeOK
    <3>3. access'[p][u] = [access[p][u] EXCEPT !.accepted = TRUE]
      BY <3>1, <3>2
    <3>4. access'[p][u].accepted
      BY <3>2, <3>3 DEF Rows
    <3>. QED
      BY <1>2, <3>4
  <2>7. CASE Crash(c)
    BY <1>1, <2>4, <2>7
  <2>. QED
    BY <2>4, <2>5, <2>6, <2>7, CallsWait
       DEF At, stampOwner, seedSingleLoan, markAccepted, grantBuyer
<1>4. CASE ~ \E a \in log : a.pool = p /\ a.user = u
  <2>1. PICK c \in Calls, q \in Pools, v \in Users : record(c, q, v)
    BY <1>2, <1>4 DEF Next, vars, tables, createPool, mint, acceptInvitation, stampOwner,
       seedSingleLoan, markAccepted, grantBuyer, markConfiAccepted, Crash, backfill, Deploy, Tick
  <2>2. q = p /\ v = u
    BY <1>2, <1>4, <2>1 DEF record
  <2>3. calls'[c] = [step |-> "markConfiAccepted", pool |-> p, user |-> u]
    BY <2>1, <2>2 DEF record, Then, Safe, TypeOK
  <2>4. calls'[c] \in Requests
    BY <2>3, PoolRequest
  <2>5. At(c, "markConfiAccepted")' /\ calls'[c].pool = p /\ calls'[c].user = u
    BY <2>3, <2>4, NoCallAssumption DEF At
  <2>. QED
    BY <1>2, <2>5 DEF InFlight
<1>. QED
  BY <1>3, <1>4

(***************************************************************************)
(* ... and no invitation the request that answers for it.                  *)
(***************************************************************************)
Spends(c) ==
    /\ At(c, "markAccepted")
    /\ invites[calls[c].token].acceptedBy = Nobody
    /\ invites' = [invites EXCEPT ![calls[c].token].acceptedBy = calls[c].user]
    /\ Then(c, "grant", invites[calls[c].token].pool, calls[c].user)
    /\ UNCHANGED access

LEMMA GrantsFollowSpending ==
    ASSUME Safe, [Next]_vars, NEW c \in Calls, At(c, "grant")', calls'[c] # calls[c]
    PROVE  Spends(c)
<1> USE DEF Safe, TypeOK
<1>1. ASSUME NEW p \in Pools, NEW u \in Users, NEW seed \in BOOLEAN,
             createPool(c, p, u, seed) \/ record(c, p, u)
      PROVE  FALSE
  BY <1>1 DEF createPool, record, Then, At
<1>2. ASSUME NEW t \in Tokens, NEW u \in Users, acceptInvitation(c, t, u)
      PROVE  FALSE
  BY <1>2 DEF acceptInvitation, At
<1>3. CASE stampOwner(c)
  BY <1>3 DEF stampOwner, Then, Done, At
<1>4. CASE seedSingleLoan(c) \/ grantBuyer(c) \/ markConfiAccepted(c) \/ Crash(c)
  BY <1>4 DEF seedSingleLoan, grantBuyer, markConfiAccepted, Crash, Done, At
<1>5. CASE markAccepted(c)
  BY <1>5 DEF markAccepted, Done, At, Spends
<1>6. ASSUME NEW d \in Calls, d # c,
             \/ stampOwner(d) \/ seedSingleLoan(d) \/ markAccepted(d)
             \/ grantBuyer(d) \/ markConfiAccepted(d) \/ Crash(d)
             \/ \E p \in Pools, u \in Users :
                   record(d, p, u) \/ \E seed \in BOOLEAN : createPool(d, p, u, seed)
             \/ \E t \in Tokens, u \in Users : acceptInvitation(d, t, u)
      PROVE  FALSE
  BY <1>6 DEF stampOwner, seedSingleLoan, markAccepted, grantBuyer, markConfiAccepted, Crash,
              record, createPool, acceptInvitation, Then, Done
<1>7. CASE \/ UNCHANGED vars \/ Deploy \/ Tick
           \/ \E p \in Pools, u \in Users : backfill(p, u)
           \/ \E t \in Tokens, p \in Pools, u \in Users, email \in Somebody,
                 expires \in 1 .. MaxTime : mint(t, p, u, email, expires)
  BY <1>7 DEF vars, Deploy, Tick, backfill, mint
<1>. QED
  BY <1>1, <1>2, <1>3, <1>4, <1>5, <1>6, <1>7 DEF Next

LEMMA SpendingOf ==
    ASSUME Safe, NEW c \in Calls, Spends(c), NEW t, t = calls[c].token
    PROVE  /\ t \in Tokens /\ calls[c].user \in Users /\ At(c, "grant")'
           /\ calls'[c].pool = invites[t].pool /\ calls'[c].user = calls[c].user
           /\ invites'[t] # NoInvite /\ invites'[t].pool = invites[t].pool
           /\ invites'[t].acceptedBy = calls[c].user
           /\ \A s \in Tokens : s # t => invites'[s] = invites[s]
           /\ \A d \in Calls : d # c => calls'[d] = calls[d]
<1>1. t \in Tokens /\ calls[c].user \in Users
  BY RequestFields DEF Spends, At, Safe
<1>2. invites[t] \in Invites
  BY <1>1 DEF Spends, Safe, Relies, TypeOK
<1>3. [invites[t] EXCEPT !.acceptedBy = calls[c].user] \in Invites
  BY <1>1, <1>2 DEF Invites, Somebody
<1>4. invites'[t] = [invites[t] EXCEPT !.acceptedBy = calls[c].user]
  BY <1>1 DEF Spends, Safe, TypeOK
<1>5. /\ invites'[t] # NoInvite /\ invites'[t].pool = invites[t].pool
      /\ invites'[t].acceptedBy = calls[c].user
  BY <1>2, <1>3, <1>4, NoInviteAssumption DEF Invites
<1>6. calls'[c] = [step |-> "grant", pool |-> invites[t].pool, user |-> calls[c].user]
  BY DEF Spends, Then, Safe, TypeOK
<1>7. invites[t].pool \in Pools
  BY <1>2 DEF Invites
<1>8. calls'[c] \in Requests
  BY <1>1, <1>6, <1>7, PoolRequest
<1>9. /\ \A s \in Tokens : s # t => invites'[s] = invites[s]
      /\ \A d \in Calls : d # c => calls'[d] = calls[d]
  BY DEF Spends, Then, Safe, TypeOK
<1>. QED
  BY <1>1, <1>5, <1>6, <1>8, <1>9, NoCallAssumption DEF At

(***************************************************************************)
(* An invitation is spent by a request that answers for it from then on.   *)
(***************************************************************************)
LEMMA InvitesStep ==
    ASSUME Safe, [Next]_vars, \A c \in Calls : ~Spends(c), NEW t \in Tokens,
           invites'[t] # NoInvite, invites'[t].acceptedBy # Nobody
    PROVE  invites[t] # NoInvite /\ invites[t].acceptedBy # Nobody /\ invites'[t] = invites[t]
<1>1. CASE UNCHANGED invites
  BY <1>1
<1>2. ASSUME NEW s \in Tokens, NEW p \in Pools, NEW u \in Users, NEW email \in Somebody,
             NEW expires \in 1 .. MaxTime, mint(s, p, u, email, expires)
      PROVE  s # t /\ invites'[t] = invites[t]
  BY <1>2 DEF mint, Safe, TypeOK
<1>3. ASSUME NEW c \in Calls, markAccepted(c) PROVE UNCHANGED invites
  BY <1>3 DEF markAccepted, Spends
<1>. QED
  BY <1>1, <1>2, <1>3 DEF Next, vars, tables, createPool, record, acceptInvitation, stampOwner,
     seedSingleLoan, grantBuyer, markConfiAccepted, Crash, backfill, Deploy, Tick

LEMMA OrphansStep ==
    ASSUME Safe, [Next]_vars, NEW of \in [Calls -> Tokens \cup {NoInvite}], AnswersFor(of)
    PROVE  \E next \in [Calls -> Tokens \cup {NoInvite}] :
             /\ AnswersFor(next)'
             /\ \A t \in Orphans(next)' :
                  \/ t \in Orphans(of)
                  \/ \E c \in Calls : Crash(c) /\ At(c, "grant") /\ t = of[c]
<1> USE NobodyAssumption
<1>0. TypeOK /\ Kept
  BY StepsKeep DEF Safe
<1>1. ASSUME NEW c \in Calls, At(c, "grant")
      PROVE  /\ calls[c].pool \in Pools /\ calls[c].user \in Users /\ of[c] \in Tokens
             /\ invites[of[c]] # NoInvite /\ invites[of[c]].pool = calls[c].pool
             /\ invites[of[c]].acceptedBy = calls[c].user
             /\ invites'[of[c]] = invites[of[c]]
  <2>1. calls[c].pool \in Pools /\ calls[c].user \in Users
    BY <1>0, <1>1, RequestFields DEF At
  <2>. QED
    BY <1>0, <1>1, <2>1 DEF AnswersFor, Kept, SpentStay
<1>2. ASSUME NEW t \in Tokens, invites[t] # NoInvite, invites[t].acceptedBy # Nobody,
             invites'[t] = invites[t],
             ~has(invites[t].pool, invites[t].acceptedBy)'
      PROVE  ~has(invites[t].pool, invites[t].acceptedBy)
  <2>1. invites[t] \in Invites
    BY <1>0, <1>2 DEF TypeOK
  <2>2. PICK p \in Pools, u \in Users : p = invites[t].pool /\ u = invites[t].acceptedBy
    BY <1>2, <2>1 DEF Invites, Somebody
  <2>. QED
    BY <1>0, <1>2, <2>2 DEF Kept, RowsStay, has
<1>3. CASE \A c \in Calls : ~Spends(c)
  <2>1. AnswersFor(of)'
    <3> SUFFICES ASSUME NEW c \in Calls, At(c, "grant")'
                 PROVE  /\ of[c] \in Tokens
                        /\ invites'[of[c]] # NoInvite
                        /\ invites'[of[c]].pool = calls'[c].pool
                        /\ invites'[of[c]].acceptedBy = calls'[c].user
      BY DEF AnswersFor
    <3>1. calls'[c] = calls[c]
      BY <1>3, GrantsFollowSpending
    <3>. QED
      BY <1>1, <3>1 DEF At
  <2>2. ASSUME NEW t \in Orphans(of)', t \notin Orphans(of)
        PROVE  \E c \in Calls : Crash(c) /\ At(c, "grant") /\ t = of[c]
    <3>1. /\ t \in Tokens /\ invites'[t] # NoInvite /\ invites'[t].acceptedBy # Nobody
          /\ ~has(invites[t].pool, invites[t].acceptedBy)'
          /\ \A c \in Calls : At(c, "grant")' => of[c] # t
      BY <2>2 DEF Orphans
    <3>2. invites[t] # NoInvite /\ invites[t].acceptedBy # Nobody /\ invites'[t] = invites[t]
      BY <1>3, <3>1, InvitesStep
    <3>3. ~has(invites[t].pool, invites[t].acceptedBy)
      BY <1>2, <3>1, <3>2
    <3>4. PICK c \in Calls : At(c, "grant") /\ of[c] = t
      BY <2>2, <3>1, <3>2, <3>3 DEF Orphans
    <3>5. CASE calls'[c] = calls[c]
      BY <3>1, <3>4, <3>5 DEF At
    <3>6. CASE grantBuyer(c)
      <4>1. PICK p \in Pools, u \in Users : p = calls[c].pool /\ u = calls[c].user
        BY <1>1, <3>4
      <4>2. has(p, u)'
        BY <1>0, <3>6, <4>1, GrantGives DEF grantBuyer
      <4>3. invites'[t].pool = p /\ invites'[t].acceptedBy = u
        BY <1>1, <3>4, <4>1
      <4>. QED
        BY <3>1, <4>2, <4>3 DEF has
    <3>7. CASE Crash(c)
      BY <3>4, <3>7
    <3>. QED
      BY <3>4, <3>5, <3>6, <3>7, CallsWait
         DEF At, stampOwner, seedSingleLoan, markAccepted, markConfiAccepted
  <2>. QED
    BY <2>1, <2>2
<1>4. ASSUME NEW d \in Calls, Spends(d)
      PROVE  \E next \in [Calls -> Tokens \cup {NoInvite}] :
               AnswersFor(next)' /\ \A t \in Orphans(next)' : t \in Orphans(of)
  <2>1. PICK s : s = calls[d].token
    OBVIOUS
  <2>2. /\ s \in Tokens /\ calls[d].user \in Users /\ At(d, "grant")'
        /\ calls'[d].pool = invites[s].pool /\ calls'[d].user = calls[d].user
        /\ invites'[s] # NoInvite /\ invites'[s].pool = invites[s].pool
        /\ invites'[s].acceptedBy = calls[d].user
        /\ \A t \in Tokens : t # s => invites'[t] = invites[t]
        /\ \A c \in Calls : c # d => calls'[c] = calls[c]
    BY <1>4, <2>1, SpendingOf
  <2>3. PICK next \in [Calls -> Tokens \cup {NoInvite}] :
          next[d] = s /\ \A c \in Calls : c # d => next[c] = of[c]
    <3>1. [of EXCEPT ![d] = s] \in [Calls -> Tokens \cup {NoInvite}]
      BY <2>2
    <3>. QED
      BY <3>1
  <2>4. AnswersFor(next)'
    <3> SUFFICES ASSUME NEW c \in Calls, At(c, "grant")'
                 PROVE  /\ next[c] \in Tokens
                        /\ invites'[next[c]] # NoInvite
                        /\ invites'[next[c]].pool = calls'[c].pool
                        /\ invites'[next[c]].acceptedBy = calls'[c].user
      BY DEF AnswersFor
    <3>1. CASE c = d
      BY <2>2, <2>3, <3>1
    <3>2. CASE c # d
      BY <1>1, <2>2, <2>3, <3>2 DEF At
    <3>. QED
      BY <3>1, <3>2
  <2>5. ASSUME NEW t \in Orphans(next)' PROVE t \in Orphans(of)
    <3>1. /\ t \in Tokens /\ invites'[t] # NoInvite /\ invites'[t].acceptedBy # Nobody
          /\ ~has(invites[t].pool, invites[t].acceptedBy)'
          /\ \A c \in Calls : At(c, "grant")' => next[c] # t
      BY DEF Orphans
    <3>2. t # s
      BY <2>2, <2>3, <3>1
    <3>3. invites'[t] = invites[t]
      BY <2>2, <3>1, <3>2
    <3>4. ~has(invites[t].pool, invites[t].acceptedBy)
      BY <1>2, <3>1, <3>3
    <3>5. \A c \in Calls : At(c, "grant") => of[c] # t
      BY <1>4, <2>2, <2>3, <3>1 DEF At, Spends
    <3>. QED
      BY <3>1, <3>3, <3>4, <3>5 DEF Orphans
  <2>. QED
    BY <2>4, <2>5
<1>. QED
  BY <1>3, <1>4

-----------------------------------------------------------------------------
LEMMA CountedInit == Init => Counted
<1> SUFFICES ASSUME Init PROVE Counted
  OBVIOUS
<1> DEFINE of == [c \in Calls |-> NoInvite]
<1>1. \A c \in Calls : ~At(c, "grant")
  BY DEF Init, At
<1>2. Ownerless = {} /\ Orphans(of) = {} /\ AcceptedForNothing = {}
  BY DEF Init, Ownerless, Orphans, AcceptedForNothing
<1>3. Lost(of) = 0
  BY <1>2, FS_EmptySet DEF Lost
<1>4. AnswersFor(of) /\ of \in [Calls -> Tokens \cup {NoInvite}] /\ crashes = 0
  BY <1>1 DEF AnswersFor, Init
<1> HIDE DEF of
<1>. QED
  BY <1>3, <1>4 DEF Counted

LEMMA CountedStep == Safe /\ Counted /\ [Next]_vars => Counted'
<1> SUFFICES ASSUME Safe, Counted, [Next]_vars PROVE Counted'
  OBVIOUS
<1>1. PICK of \in [Calls -> Tokens \cup {NoInvite}] : AnswersFor(of) /\ Lost(of) <= crashes
  BY DEF Counted
<1>2. PICK next \in [Calls -> Tokens \cup {NoInvite}] :
         /\ AnswersFor(next)'
         /\ \A t \in Orphans(next)' :
              \/ t \in Orphans(of)
              \/ \E c \in Calls : Crash(c) /\ At(c, "grant") /\ t = of[c]
  BY <1>1, OrphansStep
<1>3. PICK A, B, C, A2, B2, C2 :
         /\ A = Ownerless /\ B = Orphans(of) /\ C = AcceptedForNothing
         /\ A2 = Ownerless' /\ B2 = Orphans(next)' /\ C2 = AcceptedForNothing'
  OBVIOUS
<1>4. IsFiniteSet(A) /\ IsFiniteSet(B) /\ IsFiniteSet(C)
  BY <1>3, FiniteLoss
<1>5. /\ Cardinality(A) + Cardinality(B) + Cardinality(C) <= crashes
      /\ Lost(next)' = Cardinality(A2) + Cardinality(B2) + Cardinality(C2)
  BY <1>1, <1>3 DEF Lost
<1>6. crashes \in Nat
  BY DEF Safe, TypeOK
<1>7. CASE \A c \in Calls : ~Crash(c)
  <2>1. A2 \subseteq A /\ B2 \subseteq B /\ C2 \subseteq C
    BY <1>2, <1>3, <1>7, OwnersStep, AcceptancesStep
  <2>2. /\ Cardinality(A2) + Cardinality(B2) + Cardinality(C2)
             <= Cardinality(A) + Cardinality(B) + Cardinality(C)
        /\ Cardinality(A) + Cardinality(B) + Cardinality(C) \in Nat
        /\ Cardinality(A2) + Cardinality(B2) + Cardinality(C2) \in Nat
    BY <1>4, <2>1, CountShrinks
  <2>3. crashes' = crashes
    BY <1>7 DEF Next, vars, createPool, record, mint, acceptInvitation, stampOwner, seedSingleLoan,
       markAccepted, grantBuyer, markConfiAccepted, backfill, Deploy, Tick
  <2>. QED
    BY <1>2, <1>5, <1>6, <2>2, <2>3 DEF Counted
<1>8. ASSUME NEW c \in Calls, Crash(c) PROVE Counted'
  <2>1. crashes' = crashes + 1 /\ \A d \in Calls : Crash(d) => d = c
    <3>1. calls'[c] = NoCall /\ calls[c] # NoCall /\ crashes' = crashes + 1
      BY <1>8 DEF Crash, Done, Safe, TypeOK
    <3>2. \A d \in Calls : d # c => calls'[d] = calls[d]
      BY <1>8 DEF Crash, Done, Safe, TypeOK
    <3>3. \A d \in Calls : Crash(d) => calls'[d] = NoCall /\ calls[d] # NoCall
      BY DEF Crash, Done, Safe, TypeOK
    <3>. QED
      BY <3>1, <3>2, <3>3
  <2>2. /\ A2 \subseteq A \/ (At(c, "stamp") /\ A2 \subseteq A \cup {calls[c].pool})
        /\ B2 \subseteq B \/ (At(c, "grant") /\ B2 \subseteq B \cup {of[c]})
        /\ \/ C2 \subseteq C
           \/ /\ At(c, "markConfiAccepted")
              /\ C2 \subseteq C \cup {<<calls[c].pool, calls[c].user>>}
    <3>1. A2 \subseteq A \/ (At(c, "stamp") /\ A2 \subseteq A \cup {calls[c].pool})
      BY <1>3, <2>1, OwnersStep
    <3>2. B2 \subseteq B \/ (At(c, "grant") /\ B2 \subseteq B \cup {of[c]})
      BY <1>2, <1>3, <2>1
    <3>3. \/ C2 \subseteq C
          \/ /\ At(c, "markConfiAccepted")
             /\ C2 \subseteq C \cup {<<calls[c].pool, calls[c].user>>}
      BY <1>3, <2>1, AcceptancesStep
    <3>. QED
      BY <3>1, <3>2, <3>3
  <2>3. PICK x : \/ A2 \subseteq A \cup {x} /\ B2 \subseteq B /\ C2 \subseteq C
                 \/ A2 \subseteq A /\ B2 \subseteq B \cup {x} /\ C2 \subseteq C
                 \/ A2 \subseteq A /\ B2 \subseteq B /\ C2 \subseteq C \cup {x}
    BY <2>2 DEF At
  <2>4. /\ Cardinality(A) \in Nat /\ Cardinality(B) \in Nat /\ Cardinality(C) \in Nat
        /\ Cardinality(A2) \in Nat /\ Cardinality(B2) \in Nat /\ Cardinality(C2) \in Nat
    <3>1. IsFiniteSet(A \cup {x}) /\ IsFiniteSet(B \cup {x}) /\ IsFiniteSet(C \cup {x})
      BY <1>4, FS_AddElement
    <3>2. A2 \subseteq A \cup {x} /\ B2 \subseteq B \cup {x} /\ C2 \subseteq C \cup {x}
      BY <2>3
    <3>3. IsFiniteSet(A2) /\ IsFiniteSet(B2) /\ IsFiniteSet(C2)
      BY <3>1, <3>2, FS_Subset
    <3>. QED
      BY <1>4, <3>3, FS_CardinalityType
  <2>5. Cardinality(A2) + Cardinality(B2) + Cardinality(C2)
          <= Cardinality(A) + Cardinality(B) + Cardinality(C) + 1
    <3>1. CASE A2 \subseteq A \cup {x} /\ B2 \subseteq B /\ C2 \subseteq C
      BY <1>4, <3>1, CountGrows
    <3>2. CASE A2 \subseteq A /\ B2 \subseteq B \cup {x} /\ C2 \subseteq C
      <4>1. Cardinality(B2) + Cardinality(A2) + Cardinality(C2)
              <= Cardinality(B) + Cardinality(A) + Cardinality(C) + 1
        BY <1>4, <3>2, CountGrows
      <4>. QED
        BY <2>4, <4>1
    <3>3. CASE A2 \subseteq A /\ B2 \subseteq B /\ C2 \subseteq C \cup {x}
      <4>1. Cardinality(C2) + Cardinality(A2) + Cardinality(B2)
              <= Cardinality(C) + Cardinality(A) + Cardinality(B) + 1
        BY <1>4, <3>3, CountGrows
      <4>. QED
        BY <2>4, <4>1
    <3>. QED
      BY <2>3, <3>1, <3>2, <3>3
  <2>. QED
    BY <1>2, <1>5, <1>6, <2>1, <2>4, <2>5 DEF Counted
<1>. QED
  BY <1>7, <1>8

LEMMA CountedIsFaults ==
    ASSUME Safe, Counted
    PROVE  LostWorkIsFaults
<1>1. PICK of \in [Calls -> Tokens \cup {NoInvite}] : AnswersFor(of) /\ Lost(of) <= crashes
  BY DEF Counted
<1>2. SpentForNothing \subseteq Orphans(of)
  <2> SUFFICES ASSUME NEW t \in SpentForNothing PROVE t \in Orphans(of)
    OBVIOUS
  <2>1. \A c \in Calls : At(c, "grant") => of[c] # t
    BY <1>1 DEF AnswersFor, SpentForNothing, InFlight
  <2>. QED
    BY <2>1 DEF SpentForNothing, Orphans
<1>3. IsFiniteSet(Ownerless) /\ IsFiniteSet(Orphans(of)) /\ IsFiniteSet(AcceptedForNothing)
  BY FiniteLoss
<1>4. /\ Cardinality(Ownerless) + Cardinality(SpentForNothing) + Cardinality(AcceptedForNothing)
           <= Lost(of)
      /\ Lost(of) \in Nat
      /\ Cardinality(Ownerless) + Cardinality(SpentForNothing) + Cardinality(AcceptedForNothing)
           \in Nat
  BY <1>2, <1>3, CountShrinks DEF Lost
<1>. QED
  BY <1>1, <1>4 DEF LostWorkIsFaults, Safe, TypeOK

(***************************************************************************)
(* What is lost - a pool's creator's row, an invitation spent for nothing, *)
(* an acceptance that opens no door - is at most one piece for each        *)
(* process death, whichever requests raced and wherever they were cut off. *)
(***************************************************************************)
THEOREM LossIsFaults == Spec => []LostWorkIsFaults
<1>1. Spec => []Counted
  BY CountedInit, CountedStep, SafeAlways, PTL DEF Spec
<1>2. Safe /\ Counted => LostWorkIsFaults
  BY CountedIsFaults
<1>. QED
  BY <1>1, <1>2, SafeAlways, PTL

=============================================================================
