------------------------------ MODULE DealAccess ------------------------------
(***************************************************************************)
(* Who has access to a pool and who may enter its data room: the creator's *)
(* own row, the buyers' invitations, and the confidentiality agreement     *)
(* they accept.  Enforcement (DEAL_ACCESS_ENFORCEMENT) is on.              *)
(*                                                                         *)
(* The tables pool, deal_access, invitations and confi_acceptances are in  *)
(* one database without a transaction around a handler, and the code       *)
(* guards an invitation against use by another request between its read    *)
(* and its update; so a step is one statement, of one of several requests, *)
(* and a process may die after any of them.                                *)
(***************************************************************************)
EXTENDS Naturals, FiniteSets

CONSTANTS
    Pools, Users, Tokens,
    Role,        \* Role[u]: "ADMIN", "ORIGINATOR" or "BUYER"
    Seeded,      \* the users that the backfill grants every pool to
    Calls,       \* requests that may be in flight at a time
    Nobody, NoInvite, NoCall,
    MaxTime, MaxVersion, MaxCrashes   \* bounds

ASSUME RoleAssumption ==
    /\ Role \in [Users -> {"ADMIN", "ORIGINATOR", "BUYER"}]
    /\ Seeded \subseteq {u \in Users : Role[u] # "BUYER"}

ASSUME NobodyAssumption == Nobody \notin Users

ASSUME BoundsAssumption ==
    /\ MaxTime \in Nat /\ MaxVersion \in Nat /\ MaxCrashes \in Nat
    /\ IsFiniteSet(Pools) /\ IsFiniteSet(Users) /\ IsFiniteSet(Tokens)
    /\ IsFiniteSet(Calls)

VARIABLES
    creator,   \* creator[p]: who created pool p, which only deal_access records
    loans,     \* the pools whose one loan was seeded with them
    access,    \* access[p][u]: the row of deal_access
    invites,   \* invites[t]: the row of invitations
    log,       \* confi_acceptances
    version,   \* CONFIDENTIALITY_AGREEMENT_VERSION of the deployed code
    now,
    calls,     \* calls[c]: the request's next statement, NoCall when it has none
    crashes

vars ==
    <<creator, loans, access, invites, log, version, now, calls, crashes>>

tables == <<creator, loans, access, invites, log>>

-----------------------------------------------------------------------------
Somebody == Users \cup {Nobody}

Rows == [party : {"none", "originator", "buyer", "admin"}, accepted : BOOLEAN]

NoRow == [party |-> "none", accepted |-> FALSE]

Invites ==
    [pool : Pools, email : Somebody, expires : Nat, acceptedBy : Somebody]

ASSUME NoInviteAssumption == NoInvite \notin Invites

Acceptances == [pool : Pools, user : Users, version : Nat]

(***************************************************************************)
(* A request between two of its statements, named for the next one.        *)
(***************************************************************************)
Requests ==
    [step : {"stamp"}, pool : Pools, user : Users, seed : BOOLEAN]
      \cup [step : {"seed", "grant", "markConfiAccepted"},
            pool : Pools, user : Users]
      \cup [step : {"markAccepted"}, token : Tokens, user : Users]

ASSUME NoCallAssumption == NoCall \notin Requests

has(p, u) == access[p][u].party # "none"

\* A faulty variant: a later grant replaces the row.
insertOrReplace(p, u, party) ==
    [access EXCEPT ![p][u] = [party |-> party, accepted |-> FALSE]]

(***************************************************************************)
(* INSERT OR IGNORE: who has a row keeps it as it is.                      *)
(***************************************************************************)
grant(p, u, party) ==
    IF has(p, u) THEN access
    ELSE [access EXCEPT ![p][u] = [party |-> party, accepted |-> FALSE]]

acceptedAtFor(p, u) == access[p][u].accepted

enforceDataRoomAccessParam(p, u) ==
    \/ Role[u] = "ADMIN"
    \/ has(p, u) /\ (Role[u] = "BUYER" => acceptedAtFor(p, u))

canInviteToResource(p, u) == Role[u] = "ADMIN" \/ has(p, u)

At(c, step) == calls[c] # NoCall /\ calls[c].step = step

Then(c, step, p, u) ==
    calls' = [calls EXCEPT ![c] = [step |-> step, pool |-> p, user |-> u]]

Done(c) == calls' = [calls EXCEPT ![c] = NoCall]

-----------------------------------------------------------------------------
Init ==
    /\ creator = [p \in Pools |-> Nobody]
    /\ loans = {}
    /\ access = [p \in Pools |-> [u \in Users |-> NoRow]]
    /\ invites = [t \in Tokens |-> NoInvite]
    /\ log = {}
    /\ version = 1
    /\ now = 1
    /\ calls = [c \in Calls |-> NoCall]
    /\ crashes = 0

\* A faulty variant: a pool that is seeded is not stamped.
returnSeededFirst(c, p, u, seed) ==
    /\ calls[c] = NoCall /\ creator[p] = Nobody
    /\ creator' = [creator EXCEPT ![p] = u]
    /\ IF seed THEN Then(c, "seed", p, u)
       ELSE calls' = [calls EXCEPT ![c] =
              [step |-> "stamp", pool |-> p, user |-> u, seed |-> seed]]
    /\ UNCHANGED <<loans, access, invites, log, version, now, crashes>>

(***************************************************************************)
(* POST /pools: the pool, its creator's row, and the loan of a deal that   *)
(* is a single property.                                                   *)
(***************************************************************************)
createPool(c, p, u, seed) ==
    /\ calls[c] = NoCall /\ creator[p] = Nobody
    /\ creator' = [creator EXCEPT ![p] = u]
    /\ calls' = [calls EXCEPT ![c] =
         [step |-> "stamp", pool |-> p, user |-> u, seed |-> seed]]
    /\ UNCHANGED <<loans, access, invites, log, version, now, crashes>>

stampOwner(c) ==
    /\ At(c, "stamp")
    /\ access' = grant(calls[c].pool, calls[c].user, "originator")
    /\ IF calls[c].seed THEN Then(c, "seed", calls[c].pool, calls[c].user)
       ELSE Done(c)
    /\ UNCHANGED <<creator, loans, invites, log, version, now, crashes>>

seedSingleLoan(c) ==
    /\ At(c, "seed")
    /\ loans' = loans \cup {calls[c].pool}
    /\ Done(c)
    /\ UNCHANGED <<creator, access, invites, log, version, now, crashes>>

(***************************************************************************)
(* POST /invites, for one email or for whoever holds the token; a lifetime *)
(* may be any number of days.                                              *)
(***************************************************************************)
mint(t, p, u, email, expires) ==
    /\ invites[t] = NoInvite /\ creator[p] # Nobody
    /\ Role[u] # "BUYER" /\ canInviteToResource(p, u)
    /\ invites' = [invites EXCEPT ![t] =
         [pool |-> p, email |-> email, expires |-> expires,
          acceptedBy |-> Nobody]]
    /\ UNCHANGED <<creator, loans, access, log, version, now, calls, crashes>>

(***************************************************************************)
(* POST /invites/:token/accept: the invitation is read and checked, then   *)
(* spent if it still is not, then the row is granted.                      *)
(***************************************************************************)
acceptInvitation(c, t, u) ==
    /\ calls[c] = NoCall /\ invites[t] # NoInvite
    /\ invites[t].acceptedBy = Nobody
    /\ now < invites[t].expires
    /\ invites[t].email \in {u, Nobody}
    /\ calls' = [calls EXCEPT ![c] =
         [step |-> "markAccepted", token |-> t, user |-> u]]
    /\ UNCHANGED <<tables, version, now, crashes>>

\* A faulty variant: an invitation that is spent is spent again.
spendUnchecked(c) ==
    LET t == calls[c].token
    IN  /\ At(c, "markAccepted")
        /\ invites' = [invites EXCEPT ![t].acceptedBy = calls[c].user]
        /\ Then(c, "grant", invites[t].pool, calls[c].user)
        /\ UNCHANGED <<creator, loans, access, log, version, now, crashes>>

markAccepted(c) ==
    LET t == calls[c].token
    IN  /\ At(c, "markAccepted")
        /\ \/ /\ invites[t].acceptedBy = Nobody
              /\ invites' = [invites EXCEPT ![t].acceptedBy = calls[c].user]
              /\ Then(c, "grant", invites[t].pool, calls[c].user)
           \/ /\ invites[t].acceptedBy # Nobody
              /\ Done(c)
              /\ UNCHANGED invites
        /\ UNCHANGED <<creator, loans, access, log, version, now, crashes>>

\* A faulty variant: the row is given the role of the user.
grantInvitedRole(c) ==
    /\ At(c, "grant")
    /\ access' = grant(calls[c].pool, calls[c].user, Role[calls[c].user])
    /\ Done(c)
    /\ UNCHANGED <<creator, loans, invites, log, version, now, crashes>>

grantBuyer(c) ==
    /\ At(c, "grant")
    /\ access' = grant(calls[c].pool, calls[c].user, "buyer")
    /\ Done(c)
    /\ UNCHANGED <<creator, loans, invites, log, version, now, crashes>>

\* A faulty variant: the acceptance is logged after the door opens.
recordAfterMark(c, p, u) ==
    /\ calls[c] = NoCall /\ has(p, u)
    /\ access' = [access EXCEPT ![p][u].accepted = TRUE]
    /\ Then(c, "markConfiAccepted", p, u)
    /\ UNCHANGED <<creator, loans, invites, log, version, now, crashes>>

(***************************************************************************)
(* POST /pools/:poolId/confidentiality/accept: the acceptance is logged    *)
(* and then the row is stamped.                                            *)
(***************************************************************************)
record(c, p, u) ==
    /\ calls[c] = NoCall /\ has(p, u)
    /\ log' = log \cup {[pool |-> p, user |-> u, version |-> version]}
    /\ Then(c, "markConfiAccepted", p, u)
    /\ UNCHANGED <<creator, loans, access, invites, version, now, crashes>>

markConfiAccepted(c) ==
    /\ At(c, "markConfiAccepted")
    /\ access' = IF has(calls[c].pool, calls[c].user)
                 THEN [access EXCEPT ![calls[c].pool][calls[c].user].accepted = TRUE]
                 ELSE access
    /\ Done(c)
    /\ UNCHANGED <<creator, loans, invites, log, version, now, crashes>>

(***************************************************************************)
(* scripts/backfill-deal-access.ts, one row of it: it may be run at any    *)
(* time, and stopped and run again.                                        *)
(***************************************************************************)
backfill(p, u) ==
    /\ creator[p] # Nobody /\ u \in Seeded
    /\ access' = grant(p, u, IF Role[u] = "ADMIN" THEN "admin" ELSE "originator")
    /\ UNCHANGED <<creator, loans, invites, log, version, now, calls, crashes>>

(***************************************************************************)
(* The text of the agreement changes with a deployment.                    *)
(***************************************************************************)
Deploy ==
    /\ version < MaxVersion
    /\ \A c \in Calls : calls[c] = NoCall
    /\ version' = version + 1
    /\ UNCHANGED <<tables, now, calls, crashes>>

Tick ==
    /\ now < MaxTime
    /\ now' = now + 1
    /\ UNCHANGED <<tables, version, calls, crashes>>

(***************************************************************************)
(* The process that serves a request dies.                                 *)
(***************************************************************************)
Crash(c) ==
    /\ crashes < MaxCrashes
    /\ calls[c] # NoCall
    /\ Done(c)
    /\ crashes' = crashes + 1
    /\ UNCHANGED <<tables, version, now>>

Next ==
    \/ \E c \in Calls, p \in Pools, u \in Users :
         \/ \E seed \in BOOLEAN : createPool(c, p, u, seed)
         \/ record(c, p, u)
    \/ \E t \in Tokens, p \in Pools, u \in Users, email \in Somebody,
          expires \in 1 .. MaxTime : mint(t, p, u, email, expires)
    \/ \E c \in Calls, t \in Tokens, u \in Users : acceptInvitation(c, t, u)
    \/ \E c \in Calls :
         \/ stampOwner(c) \/ seedSingleLoan(c) \/ markAccepted(c)
         \/ grantBuyer(c) \/ markConfiAccepted(c) \/ Crash(c)
    \/ \E p \in Pools, u \in Users : backfill(p, u)
    \/ Deploy
    \/ Tick

Spec == Init /\ [][Next]_vars

-----------------------------------------------------------------------------
(***************************************************************************)
(* The type of the state.                                                  *)
(***************************************************************************)
TypeOK ==
    /\ creator \in [Pools -> Somebody]
    /\ loans \subseteq Pools
    /\ access \in [Pools -> [Users -> Rows]]
    /\ invites \in [Tokens -> Invites \cup {NoInvite}]
    /\ log \subseteq Acceptances
    /\ version \in Nat /\ now \in Nat /\ crashes \in Nat
    /\ calls \in [Calls -> Requests \cup {NoCall}]

(***************************************************************************)
(* Every buyer's row goes back to an invitation to that pool which that    *)
(* user spent and which was meant for them; as an invitation is spent by   *)
(* one user, it lets in one buyer, however many requests read it unspent.  *)
(***************************************************************************)
BuyersAreInvited ==
    \A p \in Pools, u \in Users : access[p][u].party = "buyer" =>
      \E t \in Tokens : /\ invites[t] # NoInvite
                        /\ invites[t].pool = p
                        /\ invites[t].acceptedBy = u
                        /\ invites[t].email \in {u, Nobody}

(***************************************************************************)
(* A buyer whom the data room lets in has accepted an agreement, and who   *)
(* accepted one had been given access before.                              *)
(***************************************************************************)
EntryIsConsented ==
    /\ \A p \in Pools, u \in Users :
         Role[u] = "BUYER" /\ enforceDataRoomAccessParam(p, u) =>
           \E a \in log : a.pool = p /\ a.user = u
    /\ \A a \in log : has(a.pool, a.user)

(***************************************************************************)
(* Work that was begun and that no request will finish is the work of a    *)
(* process death, one piece each: a pool without its creator's row, an     *)
(* invitation spent for nothing, an acceptance that opens no door.         *)
(***************************************************************************)
InFlight(step, p, u) ==
    \E c \in Calls : /\ At(c, step)
                     /\ calls[c].pool = p /\ calls[c].user = u

Ownerless ==
    {p \in Pools : /\ creator[p] # Nobody /\ ~has(p, creator[p])
                   /\ ~InFlight("stamp", p, creator[p])}

SpentForNothing ==
    {t \in Tokens : /\ invites[t] # NoInvite
                    /\ invites[t].acceptedBy # Nobody
                    /\ ~has(invites[t].pool, invites[t].acceptedBy)
                    /\ ~InFlight("grant", invites[t].pool, invites[t].acceptedBy)}

AcceptedForNothing ==
    {k \in Pools \X Users :
       /\ \E a \in log : <<a.pool, a.user>> = k
       /\ ~access[k[1]][k[2]].accepted
       /\ ~InFlight("markConfiAccepted", k[1], k[2])}

LostWorkIsFaults ==
    Cardinality(Ownerless) + Cardinality(SpentForNothing)
      + Cardinality(AcceptedForNothing) <= crashes

(***************************************************************************)
(* Nothing given is taken back: a row keeps its party and its acceptance   *)
(* through every later grant, and a spent invitation its user.             *)
(***************************************************************************)
NothingIsTakenBack ==
    [][/\ \A p \in Pools, u \in Users : has(p, u) =>
            /\ access'[p][u].party = access[p][u].party
            /\ access[p][u].accepted => access'[p][u].accepted
       /\ \A t \in Tokens :
            invites[t] # NoInvite /\ invites[t].acceptedBy # Nobody =>
              invites'[t] = invites[t]]_vars

(***************************************************************************)
(* What storage/confi-acceptance-store.ts says of a version: that a change *)
(* of the text requires a new acceptance.  The room asks for none.         *)
(***************************************************************************)
NewTextNeedsNewConsent ==
    \A p \in Pools, u \in Users :
      Role[u] = "BUYER" /\ enforceDataRoomAccessParam(p, u) =>
        [pool |-> p, user |-> u, version |-> version] \in log

=============================================================================
