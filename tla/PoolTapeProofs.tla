---------------------------- MODULE PoolTapeProofs ----------------------------
(***************************************************************************)
(* Proofs about a pool advanced by tapes, for any references, outcomes and *)
(* bounds: the types, a loan is never both closed and disposed, the        *)
(* membership the pool shows loses no loan that is not disposed, and a     *)
(* loan is recorded twice only by a process death.                         *)
(***************************************************************************)
EXTENDS PoolTape, SequenceTheorems, FiniteSetTheorems, TLAPS

-----------------------------------------------------------------------------
(***************************************************************************)
(* A set of numbers has a least element, so that the first loan of a       *)
(* reference is one of the loans that carry it.                            *)
(***************************************************************************)
LEMMA LeastExists ==
    ASSUME NEW S \in SUBSET Nat, S # {}
    PROVE  \E x \in S : \A y \in S : x <= y
<1>1. IsWellFoundedOn(OpToRel(<, Nat), Nat)
  BY NatLessThanWellFounded
<1>2. PICK x \in S : \A y \in S : <<y, x>> \notin OpToRel(<, Nat)
  BY <1>1, WFMin
<1>3. \A y \in S : ~(y < x)
  BY <1>2 DEF OpToRel
<1> QED
  BY <1>3

LEMMA MinIsLeast ==
    ASSUME NEW S \in SUBSET Nat, S # {}
    PROVE  Min(S) \in S /\ \A y \in S : Min(S) <= y
  BY LeastExists DEF Min

-----------------------------------------------------------------------------
(***************************************************************************)
(* Types.                                                                  *)
(***************************************************************************)
WorkingTape == [version : Nat, prior : Nat, entries : Seq(Entry)]

Record == [loan : Loans, lastSeenOnTape : Nat, leftOnTape : Nat, outcome : Outcomes]

LEMMA FrozenPrior ==
    ASSUME TypeOK, frozen > 0
    PROVE  tapes[frozen].prior \in Nat /\ frozen \in Nat
<1>1. tapes \in Seq(FrozenTape) /\ frozen \in 1 .. Len(tapes) /\ frozen \in Nat
  BY LenProperties DEF TypeOK, frozen
<1>2. tapes[frozen] \in FrozenTape
  BY <1>1, ElementOfSeq
<1> QED
  BY <1>1, <1>2 DEF FrozenTape

LEMMA NoTapeType == NoTape \in WorkingTape
  BY EmptySeq DEF NoTape, WorkingTape

LEMMA InitTyped == Init => TypeOK
<1> SUFFICES ASSUME Init PROVE TypeOK
  OBVIOUS
<1>1. working \in WorkingTape
  BY NoTapeType DEF Init
<1>2. tapes \in Seq(FrozenTape) /\ Len(tapes) = 0
  BY EmptySeq DEF Init
<1>3. req \in Handler
  BY DEF Init, Idle, Handler
<1>4. ref \in [Loans -> Refs \cup {NoRef}]
  BY DEF Init
<1> QED
  BY <1>1, <1>2, <1>3, <1>4, PoolBounds DEF Init, TypeOK, WorkingTape

LEMMA LoansAreLoans ==
    ASSUME TypeOK
    PROVE  loans \subseteq Loans
  BY PoolBounds DEF TypeOK, loans, Loans

(***************************************************************************)
(* A fresh loan's number is one of the pool's.                             *)
(***************************************************************************)
LEMMA MintedIsLoan ==
    ASSUME nloans \in Nat, NEW news, IsFiniteSet(news), NEW p \in news,
           p \in Nat, nloans + Cardinality(news) <= MaxLoans
    PROVE  Minted(p, news) \in Loans
<1> DEFINE upto == {q \in news : q <= p}
<1>1. upto \subseteq news /\ p \in upto
  OBVIOUS
<1>2. IsFiniteSet(upto) /\ Cardinality(upto) <= Cardinality(news)
  BY <1>1, FS_Subset
<1>3. Cardinality(upto) \in Nat /\ Cardinality(news) \in Nat
  BY <1>2, FS_CardinalityType
<1>4. Cardinality(upto) # 0
  BY <1>1, <1>2, FS_EmptySet
<1> QED
  BY <1>2, <1>3, <1>4, PoolBounds DEF Minted, Loans

LEMMA PhaseATyped ==
    ASSUME TypeOK, NEW v \in Versions, NEW prior \in 0 .. MaxVersion, NEW rows \in Tapes,
           advanceTapePhaseA(v, prior, rows)
    PROVE  TypeOK'
<1>1. PICK n \in Nat : rows \in [1 .. n -> Refs \cup {NoRef}]
  BY PoolBounds DEF Tapes
<1>2. \A r \in Refs \cup {NoRef} : classifyRow(r) \in Entry
  <2> SUFFICES ASSUME NEW r \in Refs \cup {NoRef} PROVE classifyRow(r) \in Entry
    OBVIOUS
  <2> DEFINE exact == {l \in loans : r # NoRef /\ ref[l] = r}
  <2>1. exact \in SUBSET Loans /\ exact \in SUBSET Nat
    BY LoansAreLoans DEF Loans
  <2>2. exact # {} => Min(exact) \in Loans
    <3> HIDE DEF exact
    <3> QED
      BY <2>1, MinIsLeast
  <2>3. classifyRow(r) = [ref |-> r, loan |-> IF exact = {} THEN 0 ELSE Min(exact)]
    BY DEF classifyRow
  <2> QED
    BY <2>2, <2>3 DEF Entry
<1> DEFINE entries == [p \in DOMAIN rows |-> classifyRow(rows[p])]
<1>3. entries \in Seq(Entry)
  <2>1. entries \in [1 .. n -> Entry]
    BY <1>1, <1>2
  <2> QED
    BY <2>1, SeqDef
<1>4. working' \in WorkingTape
  <2>1. working' = [version |-> v, prior |-> prior, entries |-> entries]
    BY DEF advanceTapePhaseA
  <2>2. v \in Nat /\ prior \in Nat
    BY PoolBounds DEF Versions
  <2> HIDE DEF entries
  <2> QED
    BY <1>3, <2>1, <2>2 DEF WorkingTape
<1> QED
  BY <1>4 DEF advanceTapePhaseA, TypeOK, WorkingTape

(***************************************************************************)
(* What Phase B hands to its statements.                                   *)
(***************************************************************************)
LEMMA PhaseBTyped ==
    ASSUME TypeOK, NEW choice \in [Unmatched -> {0} \cup loans], advanceTapePhaseB(choice)
    PROVE  TypeOK'
<1> DEFINE news == {p \in Unmatched : choice[p] = 0}
           new(p) == IF p \notin Unmatched THEN working.entries[p].loan
                     ELSE IF p \in news THEN Minted(p, news) ELSE choice[p]
           bound == [p \in DOMAIN working.entries |->
                       [working.entries[p] EXCEPT !.loan = new(p)]]
           mints == {<<bound[p].loan, bound[p].ref>> : p \in news}
           rekeys == {<<bound[p].loan, bound[p].ref>> :
                        p \in {q \in Unmatched \ news : ref[choice[q]] # bound[q].ref}}
<1>1. PICK n \in Nat : working.entries \in [1 .. n -> Entry]
  BY SeqDef DEF TypeOK
<1>2. nloans + Cardinality(news) <= MaxLoans
  BY DEF advanceTapePhaseB
<1>3. news \subseteq 1 .. n /\ IsFiniteSet(news)
  <2>1. news \subseteq 1 .. n
    BY <1>1 DEF Unmatched
  <2>2. IsFiniteSet(1 .. n)
    BY FS_Interval
  <2> HIDE DEF news
  <2> QED
    BY <2>1, <2>2, FS_Subset
<1>4. \A p \in news : Minted(p, news) \in Loans
  <2> HIDE DEF news
  <2> QED
    BY <1>2, <1>3, MintedIsLoan DEF TypeOK
<1>5. \A p \in Unmatched \ news : choice[p] \in Loans
  BY LoansAreLoans
<1>6. /\ \A p \in 1 .. n : new(p) \in {0} \cup Loans
      /\ \A p \in Unmatched : new(p) \in Loans
  <2>1. \A p \in 1 .. n : working.entries[p] \in Entry
    BY <1>1
  <2>2. Unmatched \subseteq 1 .. n
    BY <1>1 DEF Unmatched
  <2> HIDE DEF news
  <2> QED
    BY <1>4, <1>5, <2>1, <2>2 DEF Entry
<1>7. bound \in [1 .. n -> Entry]
  <2> HIDE DEF new
  <2> QED
    BY <1>1, <1>6 DEF Entry
<1>8. \A p \in Unmatched : bound[p].loan \in Loans /\ bound[p].ref \in Refs \cup {NoRef}
  <2>1. Unmatched \subseteq 1 .. n
    BY <1>1 DEF Unmatched
  <2>2. \A p \in 1 .. n : bound[p].loan = new(p) /\ bound[p].ref \in Refs \cup {NoRef}
    <3> HIDE DEF new
    <3> QED
      BY <1>1, <1>6 DEF Entry
  <2> HIDE DEF bound, new
  <2> QED
    BY <1>6, <2>1, <2>2
<1>9. mints \in SUBSET (Loans \X (Refs \cup {NoRef})) /\ rekeys \in SUBSET (Loans \X (Refs \cup {NoRef}))
  <2>1. news \subseteq Unmatched
    OBVIOUS
  <2> HIDE DEF bound, news
  <2> QED
    BY <1>8, <2>1
<1>10. req' = [Idle EXCEPT !.at = "mint", !.mints = mints, !.rekeys = rekeys]
  BY DEF advanceTapePhaseB
<1>11. req' \in Handler
  <2> HIDE DEF mints, rekeys
  <2> QED
    BY <1>9, <1>10 DEF Idle, Handler
<1>12. working' = [working EXCEPT !.entries = bound]
  BY DEF advanceTapePhaseB
<1>13. working' \in WorkingTape
  <2>1. bound \in Seq(Entry)
    BY <1>7, SeqDef
  <2> HIDE DEF bound
  <2> QED
    BY <1>12, <2>1 DEF TypeOK, WorkingTape
<1> QED
  BY <1>11, <1>13 DEF TypeOK, advanceTapePhaseB, WorkingTape

(***************************************************************************)
(* The freeze appends a tape whose members are loans of the pool.          *)
(***************************************************************************)
LEMMA FreezeAppends ==
    ASSUME TypeOK, freezeTape, Freezable
    PROVE  /\ Bound \subseteq Loans
           /\ tapes' \in Seq(FrozenTape)
           /\ Len(tapes) \in Nat /\ Len(tapes') = Len(tapes) + 1
           /\ \A t \in 1 .. Len(tapes) : tapes'[t] = tapes[t]
           /\ tapes'[Len(tapes) + 1] = [version |-> working.version, prior |-> working.prior,
                                        members |-> Bound]
<1> DEFINE tape == [version |-> working.version, prior |-> working.prior, members |-> Bound]
<1>1. Bound \subseteq Loans
  BY LoansAreLoans DEF Freezable, Bound
<1>2. tape \in FrozenTape
  BY <1>1 DEF TypeOK, FrozenTape
<1>3. tapes' = Append(tapes, tape)
  BY DEF freezeTape
<1> HIDE DEF tape
<1>4. tapes \in Seq(FrozenTape)
  BY DEF TypeOK
<1>5. /\ tapes' \in Seq(FrozenTape)
      /\ Len(tapes) \in Nat /\ Len(tapes') = Len(tapes) + 1
      /\ \A t \in 1 .. Len(tapes) : tapes'[t] = tapes[t]
      /\ tapes'[Len(tapes) + 1] = tape
  BY <1>2, <1>3, <1>4, AppendProperties, LenProperties
<1> QED
  BY <1>1, <1>5 DEF tape

LEMMA MembersAreLoans ==
    ASSUME TypeOK, NEW t \in 0 .. Len(tapes)
    PROVE  Members(t) \subseteq Loans
<1>1. CASE t = 0
  BY <1>1 DEF Members
<1>2. CASE t # 0
  <2>1. t \in 1 .. Len(tapes)
    BY <1>2, LenProperties DEF TypeOK
  <2>2. tapes[t] \in FrozenTape
    BY <2>1, ElementOfSeq DEF TypeOK
  <2> QED
    BY <1>2, <2>2 DEF Members, FrozenTape
<1> QED
  BY <1>1, <1>2

-----------------------------------------------------------------------------
(***************************************************************************)
(* The invariant.  While Phase B works on the departures, the working tape *)
(* is gone, the tape it froze continues the current one, and every loan    *)
(* the frozen tape drops is disposed, still to be looked at, or the one    *)
(* whose record was just written.  A handler marks a loan only if it is    *)
(* not closed: nothing runs between its check and its mark.                *)
(***************************************************************************)
Departing ==
    req.at \in {"rekey", "depart", "mark"} =>
        /\ working = NoTape
        /\ frozen > 0
        /\ tapes[frozen].prior = current
        /\ Members(current) \ tapes[frozen].members
             \subseteq disposed \cup req.todo \cup (IF req.at = "mark" THEN {req.loan} ELSE {})

Freezing == req.at = "mint" => working.prior = current

Marking ==
    /\ req.at \in {"mark", "dispose"} => req.loan \in Loans \ closed
    /\ ClosedXorDisposed

Inv == TypeOK /\ WorkingFollowsCurrent /\ Freezing /\ Departing /\ Marking

LEMMA InitInv == Init => Inv
  BY InitTyped DEF Init, Inv, WorkingFollowsCurrent, Freezing, Departing, Marking,
     ClosedXorDisposed, Idle

LEMMA NextTyped ==
    ASSUME Inv, [Next]_vars
    PROVE  TypeOK'
<1>0. TypeOK
  BY DEF Inv
<1>1. CASE PhaseA
  BY <1>0, <1>1, PhaseATyped DEF PhaseA
<1>2. ASSUME NEW choice \in [Unmatched -> {0} \cup loans], advanceTapePhaseB(choice)
      PROVE  TypeOK'
  BY <1>0, <1>2, PhaseBTyped
<1>3. CASE insertLoanInPool
  <2>1. PICK m \in req.mints : /\ m[1] = nloans + 1
                               /\ nloans' = m[1]
                               /\ ref' = [ref EXCEPT ![m[1]] = m[2]]
                               /\ req' = [req EXCEPT !.mints = @ \ {m}]
    BY <1>3 DEF insertLoanInPool
  <2>2. m[1] \in Loans /\ m[2] \in Refs \cup {NoRef}
    BY <1>0, <2>1 DEF TypeOK, Handler
  <2>3. req' \in Handler
    BY <1>0, <2>1 DEF TypeOK, Handler
  <2>4. ref' \in [Loans -> Refs \cup {NoRef}]
    BY <1>0, <2>1, <2>2 DEF TypeOK
  <2>5. nloans' \in 0 .. MaxLoans
    BY <2>1, <2>2, PoolBounds DEF Loans
  <2> QED
    BY <1>0, <1>3, <2>3, <2>4, <2>5 DEF insertLoanInPool, TypeOK
<1>4. CASE freezeTape
  <2>1. CASE Freezable
    <3>1. tapes' \in Seq(FrozenTape) /\ current \in 0 .. Len(tapes')
      BY <1>0, <1>4, <2>1, FreezeAppends DEF TypeOK
    <3>2. NoTape \in WorkingTape
      BY NoTapeType
    <3>3. req' \in Handler
      <4>1. Members(working.prior) \ Bound \subseteq Loans
        BY <1>0, <1>4, MembersAreLoans DEF Inv, TypeOK, Freezing, freezeTape
      <4>2. req' = [req EXCEPT !.at = "rekey", !.todo = Members(working.prior) \ Bound]
        BY <1>4, <2>1 DEF freezeTape
      <4> QED
        BY <1>0, <4>1, <4>2 DEF TypeOK, Handler
    <3>4. working' = NoTape
      BY <1>4, <2>1 DEF freezeTape
    <3> QED
      BY <1>0, <1>4, <3>1, <3>2, <3>3, <3>4 DEF freezeTape, TypeOK, WorkingTape
  <2>2. CASE ~Freezable
    <3>1. req' = Idle /\ UNCHANGED <<tables, crashes>>
      BY <1>4, <2>2 DEF freezeTape, Throw, tables
    <3> QED
      BY <1>0, <3>1 DEF TypeOK, Idle, Handler, tables
  <2> QED
    BY <2>1, <2>2
<1>5. CASE updateOriginatorLoanRef
  <2>1. PICK k \in req.rekeys : /\ ref' = [ref EXCEPT ![k[1]] = k[2]]
                                /\ req' = [req EXCEPT !.rekeys = @ \ {k}]
    BY <1>5 DEF updateOriginatorLoanRef
  <2>2. k[1] \in Loans /\ k[2] \in Refs \cup {NoRef} /\ req' \in Handler
    BY <1>0, <2>1 DEF TypeOK, Handler
  <2>3. ref' \in [Loans -> Refs \cup {NoRef}]
    BY <1>0, <2>1, <2>2 DEF TypeOK
  <2> QED
    BY <1>0, <1>5, <2>2, <2>3 DEF updateOriginatorLoanRef, TypeOK
<1>6. ASSUME NEW labelled \in BOOLEAN, StartDepartures(labelled) PROVE TypeOK'
  BY <1>0, <1>6 DEF StartDepartures, Throw, tables, TypeOK, Handler, Idle
<1>7. ASSUME NEW labelled \in BOOLEAN, NEW l \in Loans, depart(l, labelled) PROVE TypeOK'
  <2>1. UNCHANGED <<nloans, ref, closed, disposed, tapes, current, working, crashes>>
    BY <1>7 DEF depart, PassOver, RecordDeparture, recordDisposition, tables
  <2>2. \/ req' = [req EXCEPT !.todo = @ \ {l}]
        \/ req' = Idle
        \/ req' = [req EXCEPT !.at = IF @ = "idle" THEN "dispose" ELSE "mark",
                              !.todo = @ \ {l}, !.loan = l]
    BY <1>7 DEF depart, PassOver, RecordDeparture, recordDisposition, Throw
  <2>3. req' \in Handler
    <3>1. Idle \in Handler
      BY DEF Idle, Handler
    <3>2. [req EXCEPT !.todo = @ \ {l}] \in Handler
      BY <1>0 DEF TypeOK, Handler
    <3>3. [req EXCEPT !.at = IF @ = "idle" THEN "dispose" ELSE "mark",
                      !.todo = @ \ {l}, !.loan = l] \in Handler
      BY <1>0 DEF TypeOK, Handler
    <3> QED
      BY <2>2, <3>1, <3>2, <3>3
  <2>4. records' \subseteq Record
    <3>1. CASE \E outcome \in Outcomes :
                 recordDisposition(l, tapes[frozen].prior, frozen, outcome)
      <4>1. tapes[frozen].prior \in Nat /\ frozen \in Nat
        BY <1>0, <1>7, FrozenPrior DEF depart, Inv, Departing
      <4> QED
        BY <1>0, <3>1, <4>1 DEF recordDisposition, Record, TypeOK
    <3>2. CASE UNCHANGED tables
      BY <1>0, <3>2 DEF tables, Record, TypeOK
    <3> QED
      BY <1>7, <3>1, <3>2 DEF depart, PassOver, RecordDeparture
  <2> QED
    BY <1>0, <2>1, <2>3, <2>4 DEF TypeOK, Record
<1>8. CASE setCurrentTape
  BY <1>0, <1>8, LenProperties DEF setCurrentTape, frozen, TypeOK, Idle, Handler
<1>9. ASSUME NEW l \in Loans, NEW outcome \in Outcomes, recordStandaloneDisposition(l, outcome)
      PROVE  TypeOK'
  <2>1. current \in Nat
    BY <1>0, LenProperties DEF TypeOK
  <2>2. records' \subseteq Record
    BY <1>0, <1>9, <2>1 DEF recordStandaloneDisposition, recordDisposition, TypeOK, Record
  <2>3. req' \in Handler
    BY <1>0, <1>9 DEF recordStandaloneDisposition, recordDisposition, TypeOK, Handler
  <2> QED
    BY <1>0, <1>9, <2>2, <2>3 DEF recordStandaloneDisposition, recordDisposition, TypeOK, Record
<1>10. CASE setCurrentDisposition
  <2>1. req.loan \in Loans
    BY <1>10 DEF Inv, Marking, setCurrentDisposition
  <2> QED
    BY <1>0, <1>10, <2>1 DEF setCurrentDisposition, TypeOK, Handler, Idle
<1>11. ASSUME NEW l \in Loans, close(l) PROVE TypeOK'
  BY <1>0, <1>11 DEF close, TypeOK
<1>12. CASE Crash
  BY <1>0, <1>12 DEF Crash, tables, TypeOK, Idle, Handler
<1>13. CASE UNCHANGED vars
  BY <1>0, <1>13 DEF vars, tables, TypeOK
<1> QED
  BY <1>1, <1>2, <1>3, <1>4, <1>5, <1>6, <1>7, <1>8, <1>9, <1>10, <1>11, <1>12, <1>13
     DEF Next, PhaseB, OneLoan

(***************************************************************************)
(* The rest of the invariant.                                              *)
(***************************************************************************)
LEMMA NextControl ==
    ASSUME Inv, [Next]_vars
    PROVE  WorkingFollowsCurrent' /\ Freezing' /\ Departing' /\ Marking'
<1> DEFINE Goal == WorkingFollowsCurrent' /\ Freezing' /\ Departing' /\ Marking'
<1>0. /\ TypeOK /\ req \in Handler /\ tapes \in Seq(FrozenTape) /\ current \in 0 .. Len(tapes)
      /\ WorkingFollowsCurrent /\ Freezing /\ Departing /\ Marking
  BY DEF Inv, TypeOK
<1>1. ASSUME NEW v \in Versions, NEW prior \in 0 .. MaxVersion, NEW rows \in Tapes,
             advanceTapePhaseA(v, prior, rows)
      PROVE  Goal
  <2>1. /\ req.at = "idle" /\ prior = current /\ working'.prior = prior
        /\ UNCHANGED <<closed, disposed, current, req>>
    BY <1>1 DEF advanceTapePhaseA
  <2> QED
    BY <1>0, <2>1 DEF WorkingFollowsCurrent, Freezing, Departing, Marking, ClosedXorDisposed
<1>2. ASSUME NEW choice \in [Unmatched -> {0} \cup loans], advanceTapePhaseB(choice)
      PROVE  Goal
  <2>1. /\ working # NoTape /\ working'.prior = working.prior
        /\ req'.at = "mint"
        /\ UNCHANGED <<closed, disposed, current>>
    BY <1>0, <1>2 DEF advanceTapePhaseB, TypeOK, Idle
  <2> QED
    BY <1>0, <2>1 DEF WorkingFollowsCurrent, Freezing, Departing, Marking, ClosedXorDisposed
<1>3. CASE insertLoanInPool
  <2>1. /\ req.at = "mint" /\ req'.at = "mint"
        /\ UNCHANGED <<closed, disposed, current, working>>
    BY <1>0, <1>3 DEF insertLoanInPool, Handler
  <2> QED
    BY <1>0, <2>1 DEF WorkingFollowsCurrent, Freezing, Departing, Marking, ClosedXorDisposed
<1>4. CASE freezeTape /\ Freezable
  <2>1. /\ req.at = "mint" /\ working' = NoTape
        /\ req' = [req EXCEPT !.at = "rekey", !.todo = Members(working.prior) \ Bound]
        /\ UNCHANGED <<closed, disposed, current>>
    BY <1>4 DEF freezeTape
  <2>2. req'.at = "rekey" /\ req'.todo = Members(current) \ Bound
    BY <1>0, <2>1 DEF Handler, Freezing
  <2>3. /\ Len(tapes) \in Nat /\ Len(tapes') = Len(tapes) + 1
        /\ \A t \in 1 .. Len(tapes) : tapes'[t] = tapes[t]
        /\ tapes'[Len(tapes) + 1] = [version |-> working.version, prior |-> working.prior,
                                     members |-> Bound]
    BY <1>0, <1>4, FreezeAppends
  <2>4. frozen' = Len(tapes) + 1 /\ tapes'[frozen'].prior = current /\ tapes'[frozen'].members = Bound
    BY <1>0, <2>1, <2>3 DEF frozen, Freezing
  <2>5. Members(current)' = Members(current)
    BY <1>0, <2>1, <2>3 DEF Members
  <2>6. Departing'
    BY <2>1, <2>2, <2>3, <2>4, <2>5 DEF Departing
  <2> QED
    BY <1>0, <2>1, <2>2, <2>6 DEF WorkingFollowsCurrent, Freezing, Marking, ClosedXorDisposed
<1>5. CASE freezeTape /\ ~Freezable
  <2>1. req' = Idle /\ UNCHANGED <<closed, disposed, current, working>>
    BY <1>5 DEF freezeTape, Throw
  <2> QED
    BY <1>0, <2>1 DEF WorkingFollowsCurrent, Freezing, Departing, Marking, ClosedXorDisposed, Idle
<1>6. CASE updateOriginatorLoanRef
  <2>1. /\ req.at = "rekey" /\ req'.at = "rekey" /\ req'.todo = req.todo
        /\ UNCHANGED <<closed, disposed, current, working, tapes>>
    BY <1>0, <1>6 DEF updateOriginatorLoanRef, Handler
  <2> QED
    BY <1>0, <2>1 DEF WorkingFollowsCurrent, Freezing, Departing, Marking, ClosedXorDisposed,
       frozen, Members
<1>7. ASSUME req' = Idle, UNCHANGED tables
      PROVE  Goal
  BY <1>0, <1>7 DEF WorkingFollowsCurrent, Freezing, Departing, Marking, ClosedXorDisposed, Idle,
     tables
<1>8. ASSUME NEW labelled \in BOOLEAN, StartDepartures(labelled) PROVE Goal
  <2>1. CASE req' = [req EXCEPT !.at = "depart"]
    <3>1. /\ req.at = "rekey" /\ req'.at = "depart" /\ req'.todo = req.todo
          /\ UNCHANGED <<closed, disposed, current, working, tapes>>
      BY <1>0, <1>8, <2>1 DEF StartDepartures, Handler, tables
    <3> QED
      BY <1>0, <3>1 DEF WorkingFollowsCurrent, Freezing, Departing, Marking, ClosedXorDisposed,
         frozen, Members
  <2> QED
    BY <1>7, <1>8, <2>1 DEF StartDepartures, Throw
<1>9. ASSUME NEW labelled \in BOOLEAN, NEW l \in Loans, depart(l, labelled) PROVE Goal
  <2>1. CASE PassOver(l) /\ l \in disposed
    <3>1. /\ req.at = "depart" /\ req'.at = "depart" /\ req'.todo = req.todo \ {l}
          /\ UNCHANGED <<closed, disposed, current, working, tapes>>
      BY <1>0, <1>9, <2>1 DEF depart, PassOver, Handler, tables
    <3> QED
      BY <1>0, <2>1, <3>1 DEF WorkingFollowsCurrent, Freezing, Departing, Marking,
         ClosedXorDisposed, frozen, Members
  <2>2. CASE l \notin closed /\ \E outcome \in Outcomes :
               recordDisposition(l, tapes[frozen].prior, frozen, outcome)
    <3>1. /\ req.at = "depart"
          /\ req' = [req EXCEPT !.at = IF @ = "idle" THEN "dispose" ELSE "mark",
                                !.todo = @ \ {l}, !.loan = l]
          /\ UNCHANGED <<closed, disposed, current, working, tapes>>
      BY <1>9, <2>2 DEF depart, recordDisposition
    <3>2. req'.at = "mark" /\ req'.todo = req.todo \ {l} /\ req'.loan = l
      BY <1>0, <3>1 DEF Handler
    <3> QED
      BY <1>0, <2>2, <3>1, <3>2 DEF WorkingFollowsCurrent, Freezing, Departing, Marking,
         ClosedXorDisposed, frozen, Members
  <2> QED
    BY <1>7, <1>9, <2>1, <2>2 DEF depart, RecordDeparture, Throw, tables
<1>10. CASE setCurrentTape
  <2>1. /\ req.at = "depart" /\ req' = Idle /\ UNCHANGED <<closed, disposed, working>>
    BY <1>10 DEF setCurrentTape
  <2>2. working' = NoTape
    BY <1>0, <2>1 DEF Departing
  <2> QED
    BY <1>0, <2>1, <2>2 DEF WorkingFollowsCurrent, Freezing, Departing, Marking,
       ClosedXorDisposed, Idle
<1>11. ASSUME NEW l \in Loans, NEW outcome \in Outcomes, recordStandaloneDisposition(l, outcome)
       PROVE  Goal
  <2>1. /\ req.at = "idle" /\ l \notin closed
        /\ req' = [req EXCEPT !.at = IF @ = "idle" THEN "dispose" ELSE "mark",
                              !.todo = @ \ {l}, !.loan = l]
        /\ UNCHANGED <<closed, disposed, current, working>>
    BY <1>11 DEF recordStandaloneDisposition, recordDisposition
  <2>2. req'.at = "dispose" /\ req'.loan = l
    BY <1>0, <2>1 DEF Handler
  <2> QED
    BY <1>0, <2>1, <2>2 DEF WorkingFollowsCurrent, Freezing, Departing, Marking, ClosedXorDisposed
<1>12. CASE setCurrentDisposition
  <2>1. /\ req.at \in {"mark", "dispose"} /\ disposed' = disposed \cup {req.loan}
        /\ UNCHANGED <<closed, current, working, tapes>>
        /\ \/ req.at = "dispose" /\ req'.at = "idle"
           \/ req.at = "mark" /\ req'.at = "depart" /\ req'.todo = req.todo
    BY <1>0, <1>12 DEF setCurrentDisposition, Handler, Idle
  <2>2. Marking'
    BY <1>0, <2>1 DEF Marking, ClosedXorDisposed
  <2>3. Departing'
    BY <1>0, <2>1 DEF Departing, frozen, Members
  <2> QED
    BY <1>0, <2>1, <2>2, <2>3 DEF WorkingFollowsCurrent, Freezing
<1>13. ASSUME NEW l \in Loans, close(l) PROVE Goal
  <2>1. /\ req.at = "idle" /\ l \notin disposed /\ closed' = closed \cup {l}
        /\ UNCHANGED <<disposed, current, working, req>>
    BY <1>13 DEF close
  <2> QED
    BY <1>0, <2>1 DEF WorkingFollowsCurrent, Freezing, Departing, Marking, ClosedXorDisposed
<1>14. CASE Crash
  BY <1>7, <1>14 DEF Crash
<1>15. CASE UNCHANGED vars
  BY <1>0, <1>15 DEF vars, tables, WorkingFollowsCurrent, Freezing, Departing, Marking,
     ClosedXorDisposed, frozen, Members
<1> QED
  BY <1>1, <1>2, <1>3, <1>4, <1>5, <1>6, <1>8, <1>9, <1>10, <1>11, <1>12, <1>13, <1>14, <1>15
     DEF Next, PhaseA, PhaseB, OneLoan

THEOREM PoolInvariant == Spec => []Inv
<1>1. Inv /\ [Next]_vars => Inv'
  BY NextTyped, NextControl DEF Inv
<1> QED
  BY InitInv, <1>1, PTL DEF Spec

(***************************************************************************)
(* The tables and the handler keep their types, whatever the references,   *)
(* the bounds, the throws and the deaths.                                  *)
(***************************************************************************)
THEOREM TypeCorrect == Spec => []TypeOK
  BY PoolInvariant, PTL DEF Inv

(***************************************************************************)
(* No loan is both closed and disposed (the guards of /close and of        *)
(* writeDisposition), whatever Phase B did before it threw.                *)
(***************************************************************************)
THEOREM ClosedAndDisposedExclude == Spec => []ClosedXorDisposed
  BY PoolInvariant, PTL DEF Inv, Marking

(***************************************************************************)
(* The open working tape continues the current tape: no history is forked. *)
(***************************************************************************)
THEOREM WorkingTapeFollows == Spec => []WorkingFollowsCurrent
  BY PoolInvariant, PTL DEF Inv

-----------------------------------------------------------------------------
(***************************************************************************)
(* The records of a loan.  A loan whose pointer is not set, and of which   *)
(* no handler is between the record and the pointer, has a record for a    *)
(* death at most: one more is then allowed before the pointer is set.      *)
(***************************************************************************)
RecordsOf(l) == {r \in records : r.loan = l}

Settled(l) == l \in disposed \/ (req.at \in {"mark", "dispose"} /\ req.loan = l)

RecordsAreBounded ==
    /\ IsFiniteSet(records)
    /\ \A l \in Loans :
         Cardinality(RecordsOf(l)) <= crashes + (IF Settled(l) THEN 1 ELSE 0)

LEMMA FewRecords ==
    ASSUME TypeOK, TypeOK', RecordsAreBounded,
           records' = records, crashes' >= crashes,
           \A l \in Loans : \/ Settled(l) => Settled(l)'
                            \/ crashes' = crashes + 1
    PROVE  RecordsAreBounded'
<1> SUFFICES ASSUME NEW l \in Loans
             PROVE  Cardinality(RecordsOf(l))' <= crashes' + (IF Settled(l)' THEN 1 ELSE 0)
  BY DEF RecordsAreBounded
<1>1. RecordsOf(l) \in SUBSET records /\ RecordsOf(l)' = RecordsOf(l)
  BY DEF RecordsOf
<1>2. IsFiniteSet(RecordsOf(l))
  BY <1>1, FS_Subset DEF RecordsAreBounded
<1>3. Cardinality(RecordsOf(l)) \in Nat
  BY <1>2, FS_CardinalityType
<1>4. crashes \in Nat /\ crashes' \in Nat
  BY DEF TypeOK
<1>5. Cardinality(RecordsOf(l)) <= crashes + (IF Settled(l) THEN 1 ELSE 0)
  BY DEF RecordsAreBounded
<1>6. Settled(l) => Settled(l)' \/ crashes' = crashes + 1
  OBVIOUS
<1>7. Cardinality(RecordsOf(l)) <= crashes' + (IF Settled(l)' THEN 1 ELSE 0)
  BY <1>3, <1>4, <1>5, <1>6
<1> QED
  BY <1>1, <1>7

LEMMA OneMoreRecord ==
    ASSUME TypeOK, RecordsAreBounded, NEW m \in Loans, NEW from, NEW to, NEW outcome,
           recordDisposition(m, from, to, outcome),
           ~Settled(m), \A l \in Loans : Settled(l) => Settled(l)', Settled(m)'
    PROVE  RecordsAreBounded'
<1> DEFINE x == [loan |-> m, lastSeenOnTape |-> from, leftOnTape |-> to, outcome |-> outcome]
<1>1. records' = records \cup {x} /\ x.loan = m /\ crashes' = crashes /\ crashes \in Nat
  BY DEF recordDisposition, TypeOK
<1> HIDE DEF x
<1>2. IsFiniteSet(records')
  BY <1>1, FS_AddElement DEF RecordsAreBounded
<1>3. ASSUME NEW l \in Loans
      PROVE  Cardinality(RecordsOf(l))' <= crashes' + (IF Settled(l)' THEN 1 ELSE 0)
  <2>1. IsFiniteSet(RecordsOf(l))
    <3>1. RecordsOf(l) \in SUBSET records
      BY DEF RecordsOf
    <3> QED
      BY <3>1, FS_Subset DEF RecordsAreBounded
  <2>2. Cardinality(RecordsOf(l)) \in Nat
    BY <2>1, FS_CardinalityType
  <2>3. Cardinality(RecordsOf(l)) <= crashes + (IF Settled(l) THEN 1 ELSE 0)
    BY DEF RecordsAreBounded
  <2>4. CASE l = m
    <3>1. RecordsOf(l)' = RecordsOf(l) \cup {x}
      BY <1>1, <2>4 DEF RecordsOf
    <3>2. Cardinality(RecordsOf(l)') <= Cardinality(RecordsOf(l)) + 1
      <4>1. \/ Cardinality(RecordsOf(l) \cup {x}) = Cardinality(RecordsOf(l))
            \/ Cardinality(RecordsOf(l) \cup {x}) = Cardinality(RecordsOf(l)) + 1
        BY <2>1, FS_AddElement
      <4> QED
        BY <2>2, <3>1, <4>1
    <3>3. Cardinality(RecordsOf(l)') \in Nat
      BY <2>1, <3>1, FS_AddElement, FS_CardinalityType
    <3> QED
      BY <1>1, <2>2, <2>3, <2>4, <3>2, <3>3
  <2>5. CASE l # m
    <3>1. RecordsOf(l)' = RecordsOf(l)
      BY <1>1, <2>5 DEF RecordsOf
    <3> QED
      BY <1>1, <2>2, <2>3, <3>1
  <2> QED
    BY <2>4, <2>5
<1> QED
  BY <1>2, <1>3 DEF RecordsAreBounded

LEMMA NextRecords ==
    ASSUME Inv, RecordsAreBounded, [Next]_vars
    PROVE  RecordsAreBounded'
<1>0. TypeOK /\ TypeOK' /\ req \in Handler /\ Departing /\ crashes \in Nat
  BY NextTyped DEF Inv, TypeOK
<1>1. ASSUME UNCHANGED <<records, crashes, disposed>>,
             req.at \notin {"mark", "dispose"} \/ req' = req
      PROVE  RecordsAreBounded'
  <2>1. \A l \in Loans : Settled(l) => Settled(l)'
    BY <1>1 DEF Settled
  <2> QED
    BY <1>0, <1>1, <2>1, FewRecords
<1>2. CASE PhaseA
  BY <1>1, <1>2 DEF PhaseA, advanceTapePhaseA
<1>3. ASSUME NEW choice, advanceTapePhaseB(choice) PROVE RecordsAreBounded'
  BY <1>1, <1>3 DEF advanceTapePhaseB
<1>4. CASE insertLoanInPool \/ freezeTape \/ updateOriginatorLoanRef \/ setCurrentTape
  BY <1>1, <1>4 DEF insertLoanInPool, freezeTape, updateOriginatorLoanRef, setCurrentTape
<1>5. ASSUME NEW labelled, StartDepartures(labelled) PROVE RecordsAreBounded'
  BY <1>1, <1>5 DEF StartDepartures, tables
<1>6. ASSUME NEW l \in Loans, NEW from, NEW to, NEW outcome, req.at \in {"idle", "depart"},
             l \notin disposed, recordDisposition(l, from, to, outcome)
      PROVE  RecordsAreBounded'
  <2>1. /\ req' = [req EXCEPT !.at = IF @ = "idle" THEN "dispose" ELSE "mark",
                              !.todo = @ \ {l}, !.loan = l]
        /\ disposed' = disposed
    BY <1>6 DEF recordDisposition
  <2>2. req'.at \in {"mark", "dispose"} /\ req'.loan = l
    BY <1>0, <1>6, <2>1 DEF Handler
  <2>3. ~Settled(l) /\ Settled(l)' /\ \A k \in Loans : Settled(k) => Settled(k)'
    BY <1>6, <2>1, <2>2 DEF Settled
  <2> QED
    BY <1>0, <1>6, <2>3, OneMoreRecord
<1>7. ASSUME NEW labelled, NEW l \in Loans, depart(l, labelled) PROVE RecordsAreBounded'
  <2>1. req.at = "depart"
    BY <1>7 DEF depart
  <2>2. CASE l \notin disposed /\ \E outcome \in Outcomes :
               recordDisposition(l, tapes[frozen].prior, frozen, outcome)
    BY <1>6, <2>1, <2>2
  <2>3. CASE UNCHANGED <<tables, crashes>>
    BY <1>1, <2>1, <2>3 DEF tables
  <2> QED
    BY <1>7, <2>2, <2>3 DEF depart, PassOver, RecordDeparture
<1>8. ASSUME NEW l \in Loans, NEW outcome, recordStandaloneDisposition(l, outcome)
      PROVE  RecordsAreBounded'
  BY <1>6, <1>8 DEF recordStandaloneDisposition
<1>9. CASE setCurrentDisposition
  <2>1. UNCHANGED <<records, crashes>> /\ disposed' = disposed \cup {req.loan}
    BY <1>9 DEF setCurrentDisposition
  <2>2. \A l \in Loans : Settled(l) => Settled(l)'
    BY <2>1 DEF Settled
  <2> QED
    BY <1>0, <2>1, <2>2, FewRecords
<1>10. ASSUME NEW l \in Loans, close(l) PROVE RecordsAreBounded'
  BY <1>1, <1>10 DEF close
<1>11. CASE Crash
  <2>1. records' = records /\ crashes' = crashes + 1
    BY <1>11 DEF Crash, tables
  <2> QED
    BY <1>0, <2>1, FewRecords
<1>12. CASE UNCHANGED vars
  BY <1>1, <1>12 DEF vars, tables
<1> QED
  BY <1>2, <1>3, <1>4, <1>5, <1>7, <1>8, <1>9, <1>10, <1>11, <1>12
     DEF Next, PhaseB, OneLoan

THEOREM RecordsInvariant == Spec => []RecordsAreBounded
<1>1. Init => RecordsAreBounded
  <2> SUFFICES ASSUME Init PROVE RecordsAreBounded
    OBVIOUS
  <2>1. records = {} /\ crashes = 0 /\ \A l \in Loans : RecordsOf(l) = {}
    BY DEF Init, RecordsOf
  <2>2. \A l \in Loans : Cardinality(RecordsOf(l)) = 0 /\ ~Settled(l)
    BY <2>1, FS_EmptySet DEF Init, Settled, Idle
  <2> QED
    BY <2>1, <2>2, FS_EmptySet DEF RecordsAreBounded
<1>2. Inv /\ RecordsAreBounded /\ [Next]_vars => RecordsAreBounded'
  BY NextRecords
<1> QED
  BY PoolInvariant, <1>1, <1>2, PTL DEF Spec

(***************************************************************************)
(* A loan has one disposition record, whether it left with a tape, out of  *)
(* band or both ways at once, and one more for each death at most.         *)
(***************************************************************************)
THEOREM LoanHasOneRecord == Spec => []OneRecordPerLoan
<1>1. Inv /\ RecordsAreBounded => OneRecordPerLoan
  <2> SUFFICES ASSUME Inv, RecordsAreBounded, NEW l \in Loans
               PROVE  Cardinality({r \in records : r.loan = l}) <= 1 + crashes
    BY DEF OneRecordPerLoan
  <2>1. RecordsOf(l) \in SUBSET records
    BY DEF RecordsOf
  <2>2. IsFiniteSet(RecordsOf(l))
    BY <2>1, FS_Subset DEF RecordsAreBounded
  <2>3. Cardinality(RecordsOf(l)) \in Nat /\ crashes \in Nat
    BY <2>2, FS_CardinalityType DEF Inv, TypeOK
  <2>4. Cardinality(RecordsOf(l)) <= crashes + (IF Settled(l) THEN 1 ELSE 0)
    BY DEF RecordsAreBounded
  <2>5. Cardinality(RecordsOf(l)) <= 1 + crashes
    BY <2>3, <2>4
  <2> QED
    BY <2>5 DEF RecordsOf
<1> QED
  BY PoolInvariant, RecordsInvariant, <1>1, PTL

-----------------------------------------------------------------------------
(***************************************************************************)
(* Refinement: the pointer's membership, the disposed and the closed loans *)
(* move as LoanFates lets them.                                            *)
(***************************************************************************)
LEMMA InitFates == Init => Fates!Init
  BY DEF Init, Fates!Init, Members

LEMMA NextFates ==
    ASSUME Inv, [Next]_vars
    PROVE  [Fates!Next]_(Fates!vars)
<1> DEFINE Stutter == UNCHANGED <<Members(current), disposed, closed>>
<1>0. /\ TypeOK /\ req \in Handler /\ tapes \in Seq(FrozenTape) /\ current \in 0 .. Len(tapes)
      /\ Departing /\ Marking
  BY DEF Inv, TypeOK
<1>1. ASSUME Stutter PROVE [Fates!Next]_(Fates!vars)
  BY <1>1 DEF Fates!vars
<1>2. ASSUME UNCHANGED <<tapes, current, disposed, closed>> PROVE Stutter
  BY <1>2 DEF Members
<1>3. CASE freezeTape
  <2>1. CASE Freezable
    <3>1. \A t \in 1 .. Len(tapes) : tapes'[t] = tapes[t]
      BY <1>0, <1>3, <2>1, FreezeAppends
    <3>2. Members(current)' = Members(current)
      BY <1>0, <1>3, <3>1, LenProperties DEF freezeTape, Members
    <3> QED
      BY <1>1, <1>3, <3>2 DEF freezeTape
  <2>2. CASE ~Freezable
    BY <1>1, <1>2, <1>3, <2>2 DEF freezeTape
  <2> QED
    BY <2>1, <2>2
<1>4. CASE setCurrentTape
  <2>1. /\ req.at = "depart" /\ req.todo = {} /\ current' = frozen
        /\ UNCHANGED <<tapes, disposed, closed>>
    BY <1>4 DEF setCurrentTape
  <2>2. Members(current)' = tapes[frozen].members
    BY <1>0, <2>1 DEF Members, Departing, frozen
  <2>3. Members(current) \ tapes[frozen].members \subseteq disposed
    BY <1>0, <2>1 DEF Departing
  <2>4. tapes[frozen].members \in SUBSET Loans
    <3>1. frozen \in 1 .. Len(tapes)
      BY <1>0, <2>1, LenProperties DEF Departing, frozen
    <3>2. tapes[frozen] \in FrozenTape
      BY <1>0, <3>1, ElementOfSeq
    <3> QED
      BY <3>2 DEF FrozenTape
  <2>5. Fates!Advance(tapes[frozen].members)
    BY <2>1, <2>2, <2>3 DEF Fates!Advance
  <2> QED
    BY <2>4, <2>5 DEF Fates!Next
<1>5. CASE setCurrentDisposition
  <2>1. /\ req.at \in {"mark", "dispose"} /\ disposed' = disposed \cup {req.loan}
        /\ UNCHANGED <<tapes, current, closed>>
    BY <1>5 DEF setCurrentDisposition
  <2>2. req.loan \in Loans /\ req.loan \notin closed
    BY <1>0, <2>1 DEF Marking
  <2>3. Members(current)' = Members(current)
    BY <2>1 DEF Members
  <2>4. CASE req.loan \in disposed
    BY <1>1, <2>1, <2>3, <2>4
  <2>5. CASE req.loan \notin disposed
    BY <2>1, <2>2, <2>3, <2>5 DEF Fates!Next, Fates!Dispose
  <2> QED
    BY <2>4, <2>5
<1>6. ASSUME NEW l \in Loans, close(l) PROVE [Fates!Next]_(Fates!vars)
  <2>1. Members(current)' = Members(current)
    BY <1>6 DEF close, Members
  <2>2. Fates!Close(l)
    BY <1>6, <2>1 DEF close, Fates!Close
  <2> QED
    BY <2>2 DEF Fates!Next
<1>7. CASE PhaseA \/ insertLoanInPool \/ updateOriginatorLoanRef
  BY <1>1, <1>2, <1>7 DEF PhaseA, advanceTapePhaseA, insertLoanInPool, updateOriginatorLoanRef
<1>8. ASSUME NEW choice, advanceTapePhaseB(choice) PROVE [Fates!Next]_(Fates!vars)
  BY <1>1, <1>2, <1>8 DEF advanceTapePhaseB
<1>9. ASSUME NEW labelled, StartDepartures(labelled) PROVE [Fates!Next]_(Fates!vars)
  BY <1>1, <1>2, <1>9 DEF StartDepartures, tables
<1>10. ASSUME NEW labelled, NEW l, depart(l, labelled) PROVE [Fates!Next]_(Fates!vars)
  <2>1. UNCHANGED <<tapes, current, disposed, closed>>
    BY <1>10 DEF depart, PassOver, RecordDeparture, recordDisposition, tables
  <2> QED
    BY <1>1, <1>2, <2>1
<1>11. ASSUME NEW l, NEW outcome, recordStandaloneDisposition(l, outcome)
       PROVE  [Fates!Next]_(Fates!vars)
  BY <1>1, <1>2, <1>11 DEF recordStandaloneDisposition, recordDisposition
<1>12. CASE Crash \/ UNCHANGED vars
  BY <1>1, <1>2, <1>12 DEF Crash, tables, vars
<1> QED
  BY <1>3, <1>4, <1>5, <1>6, <1>7, <1>8, <1>9, <1>10, <1>11, <1>12
     DEF Next, PhaseB, OneLoan

(***************************************************************************)
(* The pool implements the fates of its loans: what the pointer shows      *)
(* drops a loan only when the loan is disposed, and a closed loan never,   *)
(* however often Phase B threw or died between two statements.             *)
(***************************************************************************)
THEOREM PoolImplementsFates == Spec => ImplementsLoanFates
<1>1. Inv /\ [Next]_vars => [Fates!Next]_(Fates!vars)
  BY NextFates
<1> QED
  BY PoolInvariant, InitFates, <1>1, PTL DEF Spec, ImplementsLoanFates, Fates!Spec

=============================================================================
