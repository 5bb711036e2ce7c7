------------------------------- MODULE PoolTape -------------------------------
(***************************************************************************)
(* One pool advanced by originator tapes: Phase A opens a working tape and *)
(* binds its rows to known loans, Phase B resolves the other rows, freezes *)
(* the tape, records the departures and moves the pool's pointer; besides, *)
(* loans are disposed or closed one at a time.                             *)
(*                                                                         *)
(* Every handler is synchronous, so handlers never interleave.  But each   *)
(* SQL statement commits by itself (only freezeTape is a transaction), so  *)
(* a handler that throws, or a process that dies, leaves the statements it *)
(* had made.  Each statement is an action, and req is the handler between  *)
(* two of them.                                                            *)
(***************************************************************************)
EXTENDS Naturals, Sequences, FiniteSets, FiniteSetsExt

CONSTANTS
    Refs,        \* originator loan references that rows may carry
    Outcomes,    \* disposition kinds: "kicked", "dropped"
    MaxLoans,    \* bound: loans of the pool
    MaxRows,     \* bound: rows of a tape
    MaxVersion,  \* bound: tape version numbers a request may carry
    MaxCrashes   \* bound: process deaths

ASSUME PoolBounds ==
    /\ MaxLoans \in Nat /\ MaxRows \in Nat
    /\ MaxVersion \in Nat /\ MaxCrashes \in Nat

ASSUME OutcomesExist == Outcomes # {}

VARIABLES
    nloans,    \* the loan_in_pool rows are 1 .. nloans, in order of insertion
    ref,       \* ref[l]: the originator's reference to loan l
    closed,    \* loans whose lifecycle_status is 'closed'
    disposed,  \* loans with a current_disposition_id
    records,   \* the disposition rows
    tapes,     \* the frozen tapes, in order of insertion
    current,   \* pool.current_tape_id: an index into tapes, 0 if null
    working,   \* the pool's working_tape row
    req,       \* the handler in progress
    crashes

tables == <<nloans, ref, closed, disposed, records, tapes, current, working>>
vars == <<tables, req, crashes>>

Loans == 1 .. MaxLoans
loans == 1 .. nloans
Versions == 1 .. MaxVersion
NoRef == "no ref"        \* a row whose reference is null

(***************************************************************************)
(* A pending entry is a row of the working tape: bound to a loan, or still *)
(* unmatched (loan 0).                                                     *)
(***************************************************************************)
Entry == [ref : Refs \cup {NoRef}, loan : {0} \cup Loans]
FrozenTape == [version : Nat, prior : Nat, members : SUBSET Loans]
NoTape == [version |-> 0, prior |-> 0, entries |-> <<>>]

Unmatched == {p \in DOMAIN working.entries : working.entries[p].loan = 0}

Members(t) == IF t = 0 THEN {} ELSE tapes[t].members

(***************************************************************************)
(* A handler: the statement it makes next, the loans it has to insert, the *)
(* references it has to rewrite, the departed loans it has to look at, and *)
(* the loan it is disposing of.                                            *)
(***************************************************************************)
Handler == [at : {"idle", "mint", "rekey", "depart", "mark", "dispose"},
            mints : SUBSET (Loans \X (Refs \cup {NoRef})),
            rekeys : SUBSET (Loans \X (Refs \cup {NoRef})),
            todo : SUBSET Loans, loan : {0} \cup Loans]

Idle == [at |-> "idle", mints |-> {}, rekeys |-> {}, todo |-> {}, loan |-> 0]

Throw == req' = Idle

(***************************************************************************)
(* A pool is created empty, or with one loan seeded under its name.        *)
(***************************************************************************)
Init ==
    /\ nloans \in {0, 1} /\ nloans <= MaxLoans
    /\ \E name \in Refs : ref = [l \in Loans |-> IF l \in loans THEN name ELSE NoRef]
    /\ closed = {}
    /\ disposed = {}
    /\ records = {}
    /\ tapes = <<>>
    /\ current = 0
    /\ working = NoTape
    /\ req = Idle
    /\ crashes = 0

-----------------------------------------------------------------------------
(* Phase A.                                                                *)

(***************************************************************************)
(* A row is bound on an exact reference to the first such loan of the      *)
(* pool, disposed and closed loans included; else it waits for a human.    *)
(***************************************************************************)
classifyRow(r) ==
    LET exact == {l \in loans : r # NoRef /\ ref[l] = r}
    IN [ref |-> r, loan |-> IF exact = {} THEN 0 ELSE Min(exact)]

\* A faulty variant: the prior tape is not compared with the current one.
advanceTapePhaseAStale(version, prior, rows) ==
    /\ req.at = "idle"
    /\ prior \in 0 .. Len(tapes)
    /\ working = NoTape
    /\ working' = [version |-> version, prior |-> prior,
                   entries |-> [p \in DOMAIN rows |-> classifyRow(rows[p])]]
    /\ UNCHANGED <<nloans, ref, closed, disposed, records, tapes, current, req, crashes>>

(***************************************************************************)
(* The prior tape must be the pool's current one, and the pool may have    *)
(* one working tape.  The version is taken as it comes.                    *)
(***************************************************************************)
advanceTapePhaseA(version, prior, rows) ==
    /\ req.at = "idle"
    /\ prior = current
    /\ working = NoTape
    /\ working' = [version |-> version, prior |-> prior,
                   entries |-> [p \in DOMAIN rows |-> classifyRow(rows[p])]]
    /\ UNCHANGED <<nloans, ref, closed, disposed, records, tapes, current, req, crashes>>

-----------------------------------------------------------------------------
(* Phase B.                                                                *)

(***************************************************************************)
(* Resolve: every unmatched row is bound to a loan of the pool or to a     *)
(* fresh one (0), and the bindings are written to the working tape.  The   *)
(* fresh loans' rows are not inserted yet.                                 *)
(***************************************************************************)
Minted(p, news) == nloans + Cardinality({q \in news : q <= p})

advanceTapePhaseB(choice) ==
    LET news == {p \in Unmatched : choice[p] = 0}
        bound == [p \in DOMAIN working.entries |->
                    [working.entries[p] EXCEPT !.loan =
                        IF p \notin Unmatched THEN @
                        ELSE IF p \in news THEN Minted(p, news) ELSE choice[p]]]
    IN /\ req.at = "idle"
       /\ working # NoTape
       /\ nloans + Cardinality(news) <= MaxLoans
       /\ working' = [working EXCEPT !.entries = bound]
       /\ req' = [Idle EXCEPT
                    !.at = "mint",
                    !.mints = {<<bound[p].loan, bound[p].ref>> : p \in news},
                    !.rekeys = {<<bound[p].loan, bound[p].ref>> :
                                  p \in {q \in Unmatched \ news :
                                           ref[choice[q]] # bound[q].ref}}]
       /\ UNCHANGED <<nloans, ref, closed, disposed, records, tapes, current, crashes>>

(***************************************************************************)
(* One INSERT per fresh loan, in the order of the rows.                    *)
(***************************************************************************)
insertLoanInPool ==
    /\ req.at = "mint"
    /\ \E m \in req.mints :
         /\ m[1] = nloans + 1
         /\ nloans' = m[1]
         /\ ref' = [ref EXCEPT ![m[1]] = m[2]]
         /\ req' = [req EXCEPT !.mints = @ \ {m}]
    /\ UNCHANGED <<closed, disposed, records, tapes, current, working, crashes>>

(***************************************************************************)
(* freezeTape, one transaction: the tape (its version unique in the pool), *)
(* its membership (each loan once, each a row of the pool), and the        *)
(* working tape deleted.  A violated constraint rolls it back and throws.  *)
(***************************************************************************)
Freezable ==
    /\ \A t \in DOMAIN tapes : tapes[t].version # working.version
    /\ \A p \in DOMAIN working.entries : working.entries[p].loan \in loans
    /\ \A p, q \in DOMAIN working.entries :
         working.entries[p].loan = working.entries[q].loan => p = q

Bound == {working.entries[p].loan : p \in DOMAIN working.entries}

freezeTape ==
    /\ req.at = "mint" /\ req.mints = {}
    /\ IF Freezable
       THEN /\ tapes' = Append(tapes, [version |-> working.version,
                                       prior |-> working.prior,
                                       members |-> Bound])
            /\ working' = NoTape
            /\ req' = [req EXCEPT !.at = "rekey",
                                  !.todo = Members(working.prior) \ Bound]
       ELSE UNCHANGED <<tapes, working>> /\ Throw
    /\ UNCHANGED <<nloans, ref, closed, disposed, records, current, crashes>>

updateOriginatorLoanRef ==
    /\ req.at = "rekey" /\ req.rekeys # {}
    /\ \E k \in req.rekeys :
         /\ ref' = [ref EXCEPT ![k[1]] = k[2]]
         /\ req' = [req EXCEPT !.rekeys = @ \ {k}]
    /\ UNCHANGED <<nloans, closed, disposed, records, tapes, current, working, crashes>>

(***************************************************************************)
(* The departures.  Which labels the request carries is chosen where they  *)
(* are looked at: a first tape takes none, and a departed loan that is not *)
(* disposed needs one.  Without it, or when the loan is closed, the        *)
(* handler throws, after the freeze and before the pointer moves.          *)
(***************************************************************************)
frozen == Len(tapes)

StartDepartures(labelled) ==
    /\ req.at = "rekey" /\ req.rekeys = {}
    /\ IF tapes[frozen].prior = 0 /\ labelled
       THEN Throw
       ELSE req' = [req EXCEPT !.at = "depart"]
    /\ UNCHANGED <<tables, crashes>>

recordDisposition(l, from, to, outcome) ==
    /\ records' = records \cup {[loan |-> l, lastSeenOnTape |-> from,
                                 leftOnTape |-> to, outcome |-> outcome]}
    /\ req' = [req EXCEPT !.at = IF @ = "idle" THEN "dispose" ELSE "mark",
                          !.todo = @ \ {l}, !.loan = l]
    /\ UNCHANGED <<nloans, ref, closed, disposed, tapes, current, working, crashes>>

PassOver(l) ==
    /\ req' = [req EXCEPT !.todo = @ \ {l}]
    /\ UNCHANGED <<tables, crashes>>

RecordDeparture(l, labelled) ==
    IF labelled /\ l \notin closed
    THEN \E outcome \in Outcomes :
           recordDisposition(l, tapes[frozen].prior, frozen, outcome)
    ELSE Throw /\ UNCHANGED <<tables, crashes>>

\* A faulty variant: a disposed loan is recorded once more.
departRecordingAgain(l, labelled) ==
    /\ req.at = "depart" /\ l \in req.todo
    /\ RecordDeparture(l, labelled)

\* A faulty variant: a departure without a label is passed over.
departUnlabelled(l, labelled) ==
    /\ req.at = "depart" /\ l \in req.todo
    /\ IF l \in disposed \/ ~labelled THEN PassOver(l) ELSE RecordDeparture(l, labelled)

depart(l, labelled) ==
    /\ req.at = "depart" /\ l \in req.todo
    /\ IF l \in disposed THEN PassOver(l) ELSE RecordDeparture(l, labelled)

(***************************************************************************)
(* The second statement of writeDisposition.                               *)
(***************************************************************************)
setCurrentDisposition ==
    /\ req.at \in {"mark", "dispose"}
    /\ disposed' = disposed \cup {req.loan}
    /\ req' = IF req.at = "dispose" THEN Idle
              ELSE [req EXCEPT !.at = "depart", !.loan = 0]
    /\ UNCHANGED <<nloans, ref, closed, records, tapes, current, working, crashes>>

\* A faulty variant: the pointer is given the version number.
setCurrentTapeByVersion ==
    /\ req.at = "depart" /\ req.todo = {}
    /\ current' = tapes[frozen].version
    /\ req' = Idle
    /\ UNCHANGED <<nloans, ref, closed, disposed, records, tapes, working, crashes>>

setCurrentTape ==
    /\ req.at = "depart" /\ req.todo = {}
    /\ current' = frozen
    /\ req' = Idle
    /\ UNCHANGED <<nloans, ref, closed, disposed, records, tapes, working, crashes>>

-----------------------------------------------------------------------------
(* One loan at a time.                                                     *)

(***************************************************************************)
(* Reject or withdraw a loan now: it leaves from the current tape.  A      *)
(* disposed loan answers without a write or with a conflict.               *)
(***************************************************************************)
recordStandaloneDisposition(l, outcome) ==
    /\ req.at = "idle"
    /\ l \in loans \ closed
    /\ current # 0
    /\ l \notin disposed
    /\ recordDisposition(l, current, current, outcome)

(***************************************************************************)
(* Close a loan that the engine derives as cleared (whether it does is not *)
(* modelled: any loan may be).                                             *)
(***************************************************************************)
close(l) ==
    /\ req.at = "idle"
    /\ l \in loans \ closed
    /\ l \notin disposed
    /\ closed' = closed \cup {l}
    /\ UNCHANGED <<nloans, ref, disposed, records, tapes, current, working, req, crashes>>

(***************************************************************************)
(* The process dies between two statements of a handler.  Nothing repairs  *)
(* the pool tables at boot.                                                *)
(***************************************************************************)
Crash ==
    /\ req.at # "idle"
    /\ crashes < MaxCrashes
    /\ crashes' = crashes + 1
    /\ req' = Idle
    /\ UNCHANGED tables

-----------------------------------------------------------------------------

Tapes == UNION {[1 .. n -> Refs \cup {NoRef}] : n \in 0 .. MaxRows}

PhaseA == \E v \in Versions : \E prior \in 0 .. MaxVersion : \E rows \in Tapes :
            advanceTapePhaseA(v, prior, rows)

PhaseB ==
    \/ \E choice \in [Unmatched -> {0} \cup loans] : advanceTapePhaseB(choice)
    \/ insertLoanInPool \/ freezeTape \/ updateOriginatorLoanRef
    \/ \E labelled \in BOOLEAN : \/ StartDepartures(labelled)
                                 \/ \E l \in Loans : depart(l, labelled)
    \/ setCurrentTape

OneLoan ==
    \/ \E l \in Loans : \E outcome \in Outcomes : recordStandaloneDisposition(l, outcome)
    \/ setCurrentDisposition
    \/ \E l \in Loans : close(l)

Next == PhaseA \/ PhaseB \/ OneLoan \/ Crash

Spec == Init /\ [][Next]_vars

-----------------------------------------------------------------------------
(* Properties                                                              *)

TypeOK ==
    /\ nloans \in 0 .. MaxLoans
    /\ ref \in [Loans -> Refs \cup {NoRef}]
    /\ closed \subseteq Loans
    /\ disposed \subseteq Loans
    /\ records \subseteq [loan : Loans, lastSeenOnTape : Nat, leftOnTape : Nat,
                          outcome : Outcomes]
    /\ tapes \in Seq(FrozenTape)
    /\ current \in 0 .. Len(tapes)
    /\ working \in [version : Nat, prior : Nat, entries : Seq(Entry)]
    /\ req \in Handler
    /\ crashes \in Nat

(***************************************************************************)
(* The open working tape always continues the pool's current tape: neither *)
(* a second Phase A, nor a Phase B that failed half-way, nor a restart     *)
(* leaves a working tape that would fork the pool's history when frozen.   *)
(***************************************************************************)
WorkingFollowsCurrent == working # NoTape => working.prior = current

(***************************************************************************)
(* A loan has one disposition record, however it came to be disposed (out  *)
(* of band, as a departure, both); only a death between the record and the *)
(* loan's pointer to it can add another, one per death.                    *)
(***************************************************************************)
OneRecordPerLoan ==
    \A l \in Loans : Cardinality({r \in records : r.loan = l}) <= 1 + crashes

(***************************************************************************)
(* No loan is both closed and disposed, whatever tapes, rejections and     *)
(* closings come in what order and fail where.                             *)
(***************************************************************************)
ClosedXorDisposed == closed \cap disposed = {}

(***************************************************************************)
(* The pool implements the fates of its loans: what the pointer shows      *)
(* loses a loan only when that loan is disposed, a closed loan never.      *)
(***************************************************************************)
Fates == INSTANCE LoanFates WITH roll <- Members(current)

ImplementsLoanFates == Fates!Spec

=============================================================================
