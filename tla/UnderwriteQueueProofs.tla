------------------------ MODULE UnderwriteQueueProofs ------------------------
(***************************************************************************)
(* Proofs about the underwrite queue, for any loans, documents and bounds: *)
(* the order of its jobs, what refusals strand, what the runs commit, and  *)
(* that it does the abstract work of LoanWork when nothing is refused.     *)
(***************************************************************************)
EXTENDS UnderwriteQueue, SequenceTheorems, FiniteSetTheorems, TLAPS

-----------------------------------------------------------------------------
(* The job table under the three ways a step touches it.                   *)

(***************************************************************************)
(* A row is added at the end.                                              *)
(***************************************************************************)
LEMMA AddRow ==
    ASSUME jobs \in Seq(Job), NEW r \in Job, jobs' = Append(jobs, r)
    PROVE  /\ jobs' \in Seq(Job)
           /\ Len(jobs) \in Nat
           /\ JobIds' = JobIds \cup {Len(jobs) + 1}
           /\ \A i \in JobIds : i <= Len(jobs) /\ jobs'[i] = jobs[i]
           /\ jobs'[Len(jobs) + 1] = r
  BY LenProperties DEF JobIds

(***************************************************************************)
(* One row is replaced.                                                    *)
(***************************************************************************)
LEMMA UpdateRow ==
    ASSUME jobs \in Seq(Job), NEW j \in JobIds, NEW r \in Job,
           jobs' = [jobs EXCEPT ![j] = r]
    PROVE  /\ jobs' \in Seq(Job)
           /\ JobIds' = JobIds
           /\ \A i \in JobIds : jobs'[i] = IF i = j THEN r ELSE jobs[i]
  BY ExceptSeq DEF JobIds

(***************************************************************************)
(* Every row is rewritten in place, as the boot re-claim does.             *)
(***************************************************************************)
Reclaimed(i) == IF jobs[i].state = "running"
                THEN [jobs[i] EXCEPT !.state = "interrupted"] ELSE jobs[i]

LEMMA ReclaimRows ==
    ASSUME jobs \in Seq(Job), jobs' = Relabel({"running"}, "interrupted")
    PROVE  /\ jobs' \in Seq(Job)
           /\ JobIds' = JobIds
           /\ \A i \in JobIds : jobs'[i] = Reclaimed(i)
<1>1. Len(jobs) \in Nat /\ JobIds = 1 .. Len(jobs)
  BY LenProperties DEF JobIds
<1>2. \A i \in JobIds : jobs[i] \in Job
  BY ElementOfSeq DEF JobIds
<1>3. jobs' = [i \in 1 .. Len(jobs) |-> Reclaimed(i)]
  BY <1>1 DEF Relabel, Reclaimed
<1>4. \A i \in JobIds : Reclaimed(i) \in Job
  BY <1>2 DEF Reclaimed, Job, States
<1>5. jobs' \in [1 .. Len(jobs) -> Job]
  BY <1>1, <1>3, <1>4
<1>6. jobs' \in Seq(Job)
  BY <1>1, <1>5, SeqDef
<1>7. Len(jobs') = Len(jobs)
  BY <1>1, <1>5, <1>6, LenProperties
<1> QED
  BY <1>1, <1>3, <1>6, <1>7 DEF JobIds

(***************************************************************************)
(* A row's fields.                                                         *)
(***************************************************************************)
LEMMA RowFields ==
    ASSUME jobs \in Seq(Job), NEW i \in JobIds
    PROVE  /\ i \in Nat
           /\ jobs[i] \in Job
           /\ jobs[i].loan \in Loans
           /\ jobs[i].state \in States
           /\ jobs[i].created \in Nat
<1>1. jobs[i] \in Job /\ i \in Nat
  BY ElementOfSeq, LenProperties DEF JobIds
<1> QED
  BY <1>1 DEF Job

-----------------------------------------------------------------------------
(***************************************************************************)
(* Type correctness is proved together with a fact about the drain: while  *)
(* it is busy the process lives and the row it holds is a running row of   *)
(* the table.  Both are needed to know what a mark writes.  Only a living  *)
(* process is in a synchronous section, and in one of them at most.        *)
(***************************************************************************)
DrainHoldsRow ==
    drain.at \in BusyPoints =>
        /\ up
        /\ drain.job \in JobIds
        /\ jobs[drain.job].state = "running"

SectionsAlive ==
    /\ fan.open \/ drain.at # "idle" => up
    /\ fan.open => drain.at \notin SyncPoints

Shape == TypeOK /\ DrainHoldsRow /\ SectionsAlive

LEMMA InitShape == Init => Shape
<1> SUFFICES ASSUME Init PROVE Shape
  OBVIOUS
<1>1. jobs \in Seq(Job)
  BY EmptySeq DEF Init
<1>2. TypeOK
  BY <1>1 DEF Init, TypeOK, Idle, NoFan
<1> QED
  BY <1>2 DEF Init, Shape, DrainHoldsRow, SectionsAlive, Idle, NoFan, BusyPoints, AwaitPoints,
     SyncPoints

(***************************************************************************)
(* What each step does to the rows.  Grows is the enqueue, Claims the      *)
(* claim, Moves an update of the drain's own row, Reclaims the boot.       *)
(***************************************************************************)
Grows ==
    \E l \in Loans, now \in Nat :
        /\ getActiveForLoan(l) = {}
        /\ jobs = <<>> \/ jobs[Len(jobs)].created <= now
        /\ jobs' = Append(jobs, [loan |-> l, state |-> "pending", created |-> now])

Claims ==
    /\ up /\ drain.at = "claim"
    /\ \E j \in Oldest : jobs' = [jobs EXCEPT ![j].state = "running"]

Moves ==
    /\ drain.at \in BusyPoints
    /\ drain'.at = "claim"
    /\ \E state \in {"done", "partial", "failed"} :
         /\ state # "failed" => drain.at = "promoted"
         /\ jobs' = [jobs EXCEPT ![drain.job].state = state]

Reclaims == ~up /\ up' /\ jobs' = Relabel({"running"}, "interrupted")

LEMMA EnqueueStep ==
    ASSUME Shape, NEW l \in Loans, enqueue(l)
    PROVE  jobs' = jobs \/ Grows
<1>1. CASE getActiveForLoan(l) # {}
  BY <1>1 DEF enqueue
<1>2. CASE getActiveForLoan(l) = {}
  <2> DEFINE last == IF jobs = <<>> THEN 0 ELSE jobs[Len(jobs)].created
  <2>1. PICK now \in {last, last + 1} :
           jobs' = Append(jobs, [loan |-> l, state |-> "pending", created |-> now])
    BY <1>2 DEF enqueue
  <2>2. last \in Nat
    <3>1. CASE jobs # <<>>
      <4>1. Len(jobs) \in JobIds
        BY <3>1, EmptySeq DEF Shape, TypeOK, JobIds
      <4> QED
        BY <3>1, <4>1, RowFields DEF Shape, TypeOK
    <3> QED
      BY <3>1
  <2>3. now \in Nat /\ last <= now
    BY <2>1, <2>2
  <2> QED
    BY <1>2, <2>1, <2>3 DEF Grows
<1> QED
  BY <1>1, <1>2

LEMMA GatherStep ==
    ASSUME Shape, gatherTierADocs
    PROVE  \/ Moves /\ drain' = Claiming
           \/ /\ jobs' = jobs /\ drain.at = "start"
              /\ drain'.at = "working" /\ drain'.job = drain.job
<1>1. CASE mark("failed")
  BY <1>1 DEF gatherTierADocs, mark, Moves, Claiming, BusyPoints
<1>2. CASE jobs' = jobs /\ drain' = [drain EXCEPT !.at = "working"]
  BY <1>2 DEF gatherTierADocs, Shape, TypeOK
<1> QED
  BY <1>1, <1>2 DEF gatherTierADocs

LEMMA SettleStep ==
    ASSUME Shape, settleJob
    PROVE  Moves
  BY DEF settleJob, markDone, markPartial, markFailed, mark, Moves, Claiming,
     BusyPoints, AwaitPoints

LEMMA RowSteps ==
    ASSUME Shape, [Next]_vars
    PROVE  jobs' = jobs \/ Grows \/ Claims \/ Moves \/ Reclaims
<1>1. CASE FanOut
  BY <1>1, EnqueueStep DEF FanOut, kick
<1>2. CASE claimNext
  BY <1>2 DEF claimNext, Claims
<1>3. CASE gatherTierADocs \/ settleJob
  BY <1>3, GatherStep, SettleStep
<1>4. CASE Boot
  BY <1>4 DEF Boot, Reboot, Reclaims
<1>5. CASE Trigger
  BY <1>5 DEF Trigger, File, Reclassify, Underwrite
<1>6. CASE foundEmpty \/ Drained \/ ingest \/ promote
  BY <1>6 DEF foundEmpty, Drained, ingest, promote
<1>7. CASE Posting \/ DrainRejects \/ Crash
  BY <1>7 DEF Posting, appendSourceDocToDeal, updateAnalysis, appendEnds, DrainRejects, Crash
<1>8. CASE UNCHANGED vars
  BY <1>8 DEF vars
<1> QED
  BY <1>1, <1>2, <1>3, <1>4, <1>5, <1>6, <1>7, <1>8 DEF Next, DrainStep

(***************************************************************************)
(* The same steps, said row by row.                                        *)
(***************************************************************************)
NewRow(n, l) ==
    /\ n \notin JobIds
    /\ JobIds' = JobIds \cup {n}
    /\ \A i \in JobIds : i <= n /\ jobs'[i] = jobs[i]
    /\ jobs'[n].loan = l
    /\ jobs'[n].state = "pending"
    /\ getActiveForLoan(l) = {}
    /\ \A i \in JobIds : (\A k \in JobIds : k <= i) => jobs[i].created <= jobs'[n].created

LEMMA GrowsRows ==
    ASSUME jobs \in Seq(Job), Grows
    PROVE  jobs' \in Seq(Job) /\ \E n \in Nat : \E l \in Loans : NewRow(n, l)
<1>1. PICK l \in Loans, now \in Nat :
         /\ getActiveForLoan(l) = {}
         /\ jobs = <<>> \/ jobs[Len(jobs)].created <= now
         /\ jobs' = Append(jobs, [loan |-> l, state |-> "pending", created |-> now])
  BY DEF Grows
<1> DEFINE r == [loan |-> l, state |-> "pending", created |-> now]
           n == Len(jobs) + 1
<1>2. r \in Job
  BY DEF Job, States
<1>3. /\ jobs' \in Seq(Job)
      /\ Len(jobs) \in Nat
      /\ JobIds' = JobIds \cup {n}
      /\ \A i \in JobIds : i <= Len(jobs) /\ jobs'[i] = jobs[i]
      /\ jobs'[n] = r
  BY <1>1, <1>2, AddRow
<1>4. \A i \in JobIds : i \in Nat
  BY RowFields
<1>5. n \notin JobIds /\ \A i \in JobIds : i <= n
  BY <1>3, <1>4
<1>6. jobs'[n].loan = l /\ jobs'[n].state = "pending" /\ jobs'[n].created = now
  BY <1>3
<1>7. ASSUME NEW i \in JobIds, \A k \in JobIds : k <= i
      PROVE  jobs[i].created <= now
  <2>1. JobIds = 1 .. Len(jobs) /\ jobs # <<>>
    BY <1>3, EmptySeq DEF JobIds
  <2>2. i = Len(jobs)
    BY <1>3, <1>4, <1>7, <2>1
  <2> QED
    BY <1>1, <2>1, <2>2
<1>8. NewRow(n, l)
  BY <1>1, <1>3, <1>5, <1>6, <1>7 DEF NewRow
<1>9. n \in Nat
  BY <1>3
<1> HIDE DEF n
<1> QED
  BY <1>3, <1>8, <1>9

(***************************************************************************)
(* A row is updated in place: its loan and its created_at stay.            *)
(***************************************************************************)
RowsStay ==
    /\ JobIds' = JobIds
    /\ \A i \in JobIds : /\ jobs'[i].loan = jobs[i].loan
                         /\ jobs'[i].created = jobs[i].created

ClaimsRow(j) ==
    /\ RowsStay
    /\ j \in Oldest
    /\ jobs'[j].state = "running"
    /\ \A i \in JobIds : i # j => jobs'[i] = jobs[i]

LEMMA ClaimsRows ==
    ASSUME jobs \in Seq(Job), NEW j \in Oldest,
           jobs' = [jobs EXCEPT ![j].state = "running"]
    PROVE  jobs' \in Seq(Job) /\ j \in JobIds /\ ClaimsRow(j)
<1>1. j \in JobIds
  BY DEF Oldest, Pending
<1> DEFINE r == [jobs[j] EXCEPT !.state = "running"]
<1>2. /\ r \in Job /\ r.loan = jobs[j].loan /\ r.created = jobs[j].created
      /\ r.state = "running"
  BY <1>1, RowFields DEF Job, States
<1>3. jobs' = [jobs EXCEPT ![j] = r]
  OBVIOUS
<1>4. /\ jobs' \in Seq(Job)
      /\ JobIds' = JobIds
      /\ \A i \in JobIds : jobs'[i] = IF i = j THEN r ELSE jobs[i]
  <2> HIDE DEF r
  <2> QED
    BY <1>1, <1>2, <1>3, UpdateRow
<1> QED
  BY <1>1, <1>2, <1>4 DEF ClaimsRow, RowsStay

MovesRow(j) ==
    /\ RowsStay
    /\ jobs[j].state = "running"
    /\ jobs'[j].state \in {"done", "partial", "failed"}
    /\ jobs'[j].state # "failed" => drain.at = "promoted"
    /\ drain'.at = "claim"
    /\ \A i \in JobIds : i # j => jobs'[i] = jobs[i]

LEMMA MovesRows ==
    ASSUME Shape, Moves
    PROVE  jobs' \in Seq(Job) /\ drain.job \in JobIds /\ MovesRow(drain.job)
<1> DEFINE j == drain.job
<1>1. jobs \in Seq(Job) /\ j \in JobIds /\ jobs[j].state = "running"
  BY DEF Shape, TypeOK, DrainHoldsRow, Moves
<1>2. PICK state \in {"done", "partial", "failed"} :
         /\ state # "failed" => drain.at = "promoted"
         /\ drain'.at = "claim"
         /\ jobs' = [jobs EXCEPT ![j].state = state]
  BY DEF Moves
<1> DEFINE r == [jobs[j] EXCEPT !.state = state]
<1>3. /\ r \in Job /\ r.loan = jobs[j].loan /\ r.created = jobs[j].created
      /\ r.state = state
  BY <1>1, RowFields DEF Job, States
<1>4. /\ jobs' \in Seq(Job)
      /\ JobIds' = JobIds
      /\ \A i \in JobIds : jobs'[i] = IF i = j THEN r ELSE jobs[i]
  <2>1. jobs' = [jobs EXCEPT ![j] = r]
    BY <1>2
  <2> HIDE DEF r
  <2> QED
    BY <1>1, <1>3, <2>1, UpdateRow
<1> QED
  BY <1>1, <1>2, <1>3, <1>4 DEF MovesRow, RowsStay

ReclaimsRows ==
    /\ RowsStay
    /\ \A i \in JobIds : /\ jobs[i].state # "running" => jobs'[i] = jobs[i]
                         /\ jobs[i].state = "running" => jobs'[i].state = "interrupted"

LEMMA ReclaimsEveryRow ==
    ASSUME jobs \in Seq(Job), Reclaims
    PROVE  jobs' \in Seq(Job) /\ ReclaimsRows
<1>1. /\ jobs' \in Seq(Job)
      /\ JobIds' = JobIds
      /\ \A i \in JobIds : jobs'[i] = Reclaimed(i)
  BY ReclaimRows DEF Reclaims
<1>2. \A i \in JobIds : /\ Reclaimed(i).loan = jobs[i].loan
                        /\ Reclaimed(i).created = jobs[i].created
                        /\ jobs[i].state = "running" => Reclaimed(i).state = "interrupted"
                        /\ jobs[i].state # "running" => Reclaimed(i) = jobs[i]
  BY RowFields DEF Reclaimed, Job
<1> QED
  BY <1>1, <1>2 DEF ReclaimsRows, RowsStay

-----------------------------------------------------------------------------
(***************************************************************************)
(* Type correctness, continued.                                            *)
(***************************************************************************)
LEMMA TableType ==
    ASSUME Shape, [Next]_vars
    PROVE  jobs' \in Seq(Job)
<1>1. jobs \in Seq(Job)
  BY DEF Shape, TypeOK
<1> QED
  BY <1>1, RowSteps, GrowsRows, ClaimsRows, MovesRows, ReclaimsEveryRow DEF Claims

DrainType == [at : {"idle"} \cup SyncPoints \cup AwaitPoints, job : Nat]

LEMMA NextType ==
    ASSUME Shape, [Next]_vars
    PROVE  TypeOK'
<1>0. jobs' \in Seq(Job)
  BY TableType
<1>1. ASSUME NEW ls \in (SUBSET Loans) \ {{}}, NEW new \in [ls -> Docs],
             NEW settled \in BOOLEAN, File(new, settled)
      PROVE  TypeOK'
  BY <1>0, <1>1 DEF Shape, TypeOK, deal, File, StartFan
<1>2. ASSUME NEW from \in Loans, NEW to \in Loans, NEW d \in Docs, NEW e \in Docs,
             Reclassify(from, d, to, e)
      PROVE  TypeOK'
  BY <1>0, <1>2 DEF Shape, TypeOK, deal, Reclassify, StartFan
<1>3. ASSUME NEW l \in Loans, NEW force \in BOOLEAN, Underwrite(l, force)
      PROVE  TypeOK'
  BY <1>0, <1>3 DEF Shape, TypeOK, deal, Underwrite, StartFan
<1>4. ASSUME NEW l \in Loans, enqueue(l)
      PROVE  TypeOK'
  <2>1. \/ fan' = [fan EXCEPT !.todo = @ \ {l}]
        \/ fan' = [fan EXCEPT !.todo = @ \ {l}, !.kick = TRUE]
    BY <1>4 DEF enqueue
  <2>2. fan \in [open : BOOLEAN, todo : SUBSET Loans, kick : BOOLEAN]
    BY DEF Shape, TypeOK
  <2>3. PICK rest : rest = fan.todo \ {l}
    OBVIOUS
  <2>4. rest \in SUBSET Loans
    BY <2>2, <2>3
  <2>5. fan' \in [open : BOOLEAN, todo : SUBSET Loans, kick : BOOLEAN]
    <3>1. CASE fan' = [fan EXCEPT !.todo = rest]
      BY <2>2, <2>4, <3>1
    <3>2. CASE fan' = [fan EXCEPT !.todo = rest, !.kick = TRUE]
      BY <2>2, <2>4, <3>2
    <3> QED
      BY <2>1, <2>3, <3>1, <3>2
  <2> QED
    BY <1>0, <1>4, <2>5 DEF Shape, TypeOK, deal, enqueue
<1>5. CASE kick
  BY <1>0, <1>5 DEF Shape, TypeOK, deal, kick, NoFan, Claiming, SyncPoints
<1>6. CASE claimNext
  <2>1. drain' \in DrainType
    <3>1. \A j \in Oldest : j \in Nat
      BY RowFields DEF Shape, TypeOK, Oldest, Pending
    <3> QED
      BY <1>6, <3>1 DEF claimNext, DrainType, SyncPoints
  <2> QED
    BY <1>0, <1>6, <2>1 DEF Shape, TypeOK, deal, claimNext, DrainType
<1>7. CASE foundEmpty \/ Drained
  BY <1>0, <1>7 DEF Shape, TypeOK, deal, foundEmpty, Drained, Idle, Leaving, SyncPoints
<1>8. CASE gatherTierADocs
  <2>1. drain' \in DrainType
    <3>1. drain' = Claiming \/ drain' = [drain EXCEPT !.at = "working"]
      BY <1>8 DEF gatherTierADocs, mark
    <3>2. drain \in DrainType
      BY DEF Shape, TypeOK, DrainType
    <3>3. Claiming \in DrainType
      BY DEF Claiming, DrainType, SyncPoints
    <3>4. [drain EXCEPT !.at = "working"] \in DrainType
      BY <3>2 DEF DrainType, AwaitPoints
    <3> QED
      BY <3>1, <3>3, <3>4
  <2> QED
    BY <1>0, <1>8, <2>1 DEF Shape, TypeOK, deal, gatherTierADocs, DrainType
<1>9. CASE ingest
  <2>1. drain' \in DrainType
    BY <1>9 DEF Shape, TypeOK, ingest, DrainType, AwaitPoints
  <2>2. jobs[drain.job].loan \in Loans
    BY <1>9, RowFields DEF Shape, TypeOK, DrainHoldsRow, ingest, BusyPoints, AwaitPoints
  <2>3. minted' \in [Loans -> Nat]
    BY <1>9, <2>2 DEF Shape, TypeOK, ingest
  <2> QED
    BY <1>0, <1>9, <2>1, <2>3 DEF Shape, TypeOK, ingest, deal, DrainType
<1>10. CASE promote
  <2>1. drain' \in DrainType
    BY <1>10 DEF Shape, TypeOK, promote, DrainType, AwaitPoints
  <2>2. drain.job \in Nat
    BY DEF Shape, TypeOK
  <2>3. head' \in [Loans -> Nat] /\ setBack' \subseteq Loans
    BY <1>10, <2>2 DEF Shape, TypeOK, promote
  <2> QED
    BY <1>0, <1>10, <2>1, <2>3 DEF Shape, TypeOK, promote, DrainType
<1>11. CASE settleJob
  BY <1>0, <1>11 DEF Shape, TypeOK, settleJob, markDone, markPartial, markFailed, mark, deal,
     Claiming, SyncPoints
<1>12. CASE DrainRejects
  BY <1>0, <1>12 DEF Shape, TypeOK, DrainRejects, deal, Leaving, SyncPoints
<1>13. CASE Crash
  <2>1. Idle \in DrainType
    BY DEF Idle, DrainType
  <2>2. NoFan \in [open : BOOLEAN, todo : SUBSET Loans, kick : BOOLEAN]
    BY DEF NoFan
  <2>3. drain' = Idle /\ fan' = NoFan /\ up' = FALSE
    BY <1>13 DEF Crash
  <2>4. /\ docs' \in [Loans -> SUBSET Docs]
        /\ head' \in [Loans -> Nat] /\ setBack' \subseteq Loans
        /\ posts' \in [Loans -> SUBSET Nat]
        /\ minted' \in [Loans -> Nat]
        /\ crashes' \in Nat /\ faults' \in Nat
    BY <1>13 DEF Shape, TypeOK, Crash
  <2> QED
    BY <1>0, <2>1, <2>2, <2>3, <2>4 DEF TypeOK, DrainType
<1>14. CASE Boot
  BY <1>0, <1>14 DEF Shape, TypeOK, Boot, Reboot, deal, Claiming, SyncPoints
<1>15. CASE Posting
  <2>1. /\ head' \in [Loans -> Nat] /\ setBack' \subseteq Loans
        /\ posts' \in [Loans -> SUBSET Nat]
    <3>1. ASSUME NEW l \in Loans, appendSourceDocToDeal(l) \/ updateAnalysis(l) \/ appendEnds(l)
          PROVE  /\ head' \in [Loans -> Nat] /\ setBack' \subseteq Loans
                 /\ posts' \in [Loans -> SUBSET Nat]
      <4>0. /\ head \in [Loans -> Nat] /\ setBack \subseteq Loans
            /\ posts \in [Loans -> SUBSET Nat] /\ head[l] \in Nat
        BY DEF Shape, TypeOK
      <4>1. CASE appendSourceDocToDeal(l)
        BY <4>0, <4>1 DEF appendSourceDocToDeal
      <4>2. CASE updateAnalysis(l)
        BY <4>0, <4>2 DEF updateAnalysis
      <4>3. CASE appendEnds(l)
        BY <4>0, <4>3 DEF appendEnds
      <4> QED
        BY <3>1, <4>1, <4>2, <4>3
    <3> QED
      BY <1>15, <3>1 DEF Posting
  <2> QED
    BY <1>0, <1>15, <2>1 DEF Shape, TypeOK, Posting, appendSourceDocToDeal, updateAnalysis,
       appendEnds
<1>16. CASE UNCHANGED vars
  BY <1>0, <1>16 DEF Shape, TypeOK, vars, deal
<1> QED
  BY <1>1, <1>2, <1>3, <1>4, <1>5, <1>6, <1>7, <1>8, <1>9, <1>10, <1>11,
     <1>12, <1>13, <1>14, <1>15, <1>16 DEF Next, Trigger, FanOut, DrainStep

(***************************************************************************)
(* The drain keeps hold of a running row: only the drain's own steps       *)
(* rewrite a running row while the process lives.                          *)
(***************************************************************************)
LEMMA NextDrain ==
    ASSUME Shape, [Next]_vars
    PROVE  DrainHoldsRow' /\ SectionsAlive'
<1> DEFINE Goal == DrainHoldsRow' /\ SectionsAlive'
<1>0. jobs \in Seq(Job) /\ DrainHoldsRow /\ SectionsAlive
  BY DEF Shape, TypeOK
<1>1. CASE Trigger
  BY <1>0, <1>1 DEF Trigger, File, Reclassify, Underwrite, StartFan, Quiet,
     DrainHoldsRow, SectionsAlive, JobIds
<1>2. ASSUME NEW l \in Loans, enqueue(l) PROVE Goal
  <2>1. UNCHANGED <<drain, up>> /\ up /\ drain.at \notin SyncPoints
    BY <1>0, <1>2 DEF enqueue, SectionsAlive
  <2>2. CASE jobs' = jobs
    BY <1>0, <2>1, <2>2 DEF DrainHoldsRow, SectionsAlive, JobIds
  <2>3. CASE Grows
    BY <1>0, <2>1, <2>3, GrowsRows DEF DrainHoldsRow, SectionsAlive, NewRow
  <2> QED
    BY <1>2, <2>2, <2>3, EnqueueStep
<1>3. CASE kick
  BY <1>0, <1>3 DEF kick, Claiming, NoFan, BusyPoints, AwaitPoints, SyncPoints,
     DrainHoldsRow, SectionsAlive, JobIds
<1>4. CASE claimNext
  <2>1. PICK j \in Oldest : /\ jobs' = [jobs EXCEPT ![j].state = "running"]
                            /\ drain' = [at |-> "start", job |-> j]
    BY <1>4 DEF claimNext
  <2>2. j \in JobIds /\ ClaimsRow(j)
    BY <1>0, <2>1, ClaimsRows
  <2> QED
    BY <1>4, <2>1, <2>2 DEF claimNext, DrainHoldsRow, SectionsAlive, ClaimsRow, RowsStay
<1>5. CASE gatherTierADocs
  <2>1. up /\ UNCHANGED <<up, fan>> /\ ~fan.open
    BY <1>0, <1>5 DEF gatherTierADocs, SectionsAlive, SyncPoints
  <2>2. CASE drain' = Claiming
    BY <2>1, <2>2 DEF Claiming, BusyPoints, AwaitPoints, DrainHoldsRow, SectionsAlive
  <2>3. CASE /\ jobs' = jobs /\ drain.at = "start"
             /\ drain'.at = "working" /\ drain'.job = drain.job
    BY <1>0, <2>1, <2>3 DEF DrainHoldsRow, BusyPoints, SectionsAlive, JobIds
  <2> QED
    BY <1>5, <2>2, <2>3, GatherStep
<1>6. CASE ingest \/ promote
  <2>1. /\ up /\ UNCHANGED <<jobs, up>>
        /\ drain'.job = drain.job
        /\ drain.at \in BusyPoints /\ ~fan'.open
    BY <1>6 DEF Shape, TypeOK, ingest, promote, Quiet, BusyPoints, AwaitPoints
  <2> QED
    BY <1>0, <2>1 DEF DrainHoldsRow, SectionsAlive, JobIds
<1>7. CASE settleJob
  BY <1>7 DEF settleJob, markDone, markPartial, markFailed, mark, Quiet, Claiming,
     BusyPoints, AwaitPoints, DrainHoldsRow, SectionsAlive
<1>8. CASE foundEmpty \/ Drained \/ DrainRejects
  BY <1>0, <1>8 DEF foundEmpty, Drained, DrainRejects, Idle, Leaving, BusyPoints, AwaitPoints,
     SyncPoints, DrainHoldsRow, SectionsAlive
<1>9. CASE Posting
  BY <1>0, <1>9 DEF Posting, appendSourceDocToDeal, updateAnalysis, appendEnds,
     DrainHoldsRow, SectionsAlive, JobIds
<1>10. CASE Crash
  BY <1>10 DEF Crash, Idle, NoFan, BusyPoints, AwaitPoints, DrainHoldsRow, SectionsAlive
<1>11. CASE Boot
  BY <1>0, <1>11 DEF Boot, Reboot, Claiming, BusyPoints, AwaitPoints, DrainHoldsRow, SectionsAlive
<1>12. CASE UNCHANGED vars
  BY <1>0, <1>12 DEF vars, DrainHoldsRow, SectionsAlive, JobIds
<1> QED
  BY <1>1, <1>2, <1>3, <1>4, <1>5, <1>6, <1>7, <1>8, <1>9, <1>10, <1>11, <1>12
     DEF Next, FanOut, DrainStep

THEOREM ShapeInvariant == Spec => []Shape
<1>1. Shape /\ [Next]_vars => Shape'
  BY NextType, NextDrain DEF Shape
<1> QED
  BY InitShape, <1>1, PTL DEF Spec

(***************************************************************************)
(* The variables of the queue keep their types, whatever the loans, the    *)
(* documents, the crashes and the faults.                                  *)
(***************************************************************************)
THEOREM TypeCorrect == Spec => []TypeOK
  BY ShapeInvariant, PTL DEF Shape

-----------------------------------------------------------------------------
(***************************************************************************)
(* One active job per loan.  The invariant as stated is not inductive in a *)
(* useful way; what enqueue keeps is that an active row is the last row of *)
(* its loan: a row is added only when the loan has no active row, and no   *)
(* step makes a terminal row active.                                       *)
(***************************************************************************)
ActiveIsLast ==
    \A i, j \in JobIds :
        jobs[i].state \in ACTIVE_STATES /\ jobs[j].loan = jobs[i].loan => j <= i

(***************************************************************************)
(* A row update in place that activates nothing keeps the fact.            *)
(***************************************************************************)
NoneActivated ==
    \A i \in JobIds : jobs'[i].state \in ACTIVE_STATES => jobs[i].state \in ACTIVE_STATES

LEMMA StaysLast ==
    ASSUME ActiveIsLast, RowsStay, NoneActivated
    PROVE  ActiveIsLast'
  BY DEF ActiveIsLast, RowsStay, NoneActivated, ACTIVE_STATES

LEMMA NextLast ==
    ASSUME Shape, ActiveIsLast, [Next]_vars
    PROVE  ActiveIsLast'
<1>0. jobs \in Seq(Job)
  BY DEF Shape, TypeOK
<1>1. CASE jobs' = jobs
  BY <1>1 DEF ActiveIsLast, JobIds
<1>2. CASE Grows
  <2>1. PICK n \in Nat, l \in Loans : NewRow(n, l)
    BY <1>0, <1>2, GrowsRows
  <2>2. SUFFICES ASSUME NEW i \in JobIds', NEW j \in JobIds',
                        jobs'[i].state \in ACTIVE_STATES, jobs'[j].loan = jobs'[i].loan
                 PROVE  j <= i
    BY DEF ActiveIsLast, ACTIVE_STATES
  <2>3. CASE i = n
    BY <2>1, <2>2, <2>3 DEF NewRow
  <2>4. CASE i # n /\ j # n
    BY <2>1, <2>2, <2>4 DEF NewRow, ActiveIsLast
  <2>5. CASE i # n /\ j = n
    <3>1. i \in JobIds /\ jobs[i].loan = l /\ jobs[i].state \in ACTIVE_STATES
      BY <2>1, <2>2, <2>5 DEF NewRow
    <3> QED
      BY <2>1, <3>1 DEF NewRow, getActiveForLoan, JobsOf
  <2> QED
    BY <2>3, <2>4, <2>5
<1>3. CASE Claims
  <2>1. PICK j \in Oldest : j \in JobIds /\ ClaimsRow(j)
    BY <1>0, <1>3, ClaimsRows DEF Claims
  <2>2. NoneActivated
    BY <2>1 DEF ClaimsRow, NoneActivated, Oldest, Pending, ACTIVE_STATES
  <2> QED
    BY <2>1, <2>2, StaysLast DEF ClaimsRow
<1>4. CASE Moves
  <2>1. drain.job \in JobIds /\ MovesRow(drain.job)
    BY <1>4, MovesRows
  <2>2. NoneActivated
    BY <2>1 DEF MovesRow, NoneActivated, ACTIVE_STATES
  <2> QED
    BY <2>1, <2>2, StaysLast DEF MovesRow
<1>5. CASE Reclaims
  <2>1. ReclaimsRows
    BY <1>0, <1>5, ReclaimsEveryRow
  <2>2. NoneActivated
    BY <2>1 DEF ReclaimsRows, NoneActivated, ACTIVE_STATES
  <2> QED
    BY <2>1, <2>2, StaysLast DEF ReclaimsRows
<1> QED
  BY <1>1, <1>2, <1>3, <1>4, <1>5, RowSteps

LEMMA LastIsUnique ==
    ASSUME jobs \in Seq(Job), ActiveIsLast
    PROVE  OneActivePerLoan
<1>1. \A i \in JobIds : i \in Nat
  BY RowFields
<1> QED
  BY <1>1 DEF ActiveIsLast, OneActivePerLoan

(***************************************************************************)
(* A loan never has two active jobs, for any number of loans, triggers,    *)
(* restarts and refused statements (the guard of enqueue).                 *)
(***************************************************************************)
THEOREM OneActiveJob == Spec => []OneActivePerLoan
<1>1. Init => ActiveIsLast
  BY EmptySeq DEF Init, ActiveIsLast, JobIds
<1>2. Shape /\ ActiveIsLast /\ [Next]_vars => ActiveIsLast'
  BY NextLast
<1>3. Shape /\ ActiveIsLast => OneActivePerLoan
  BY LastIsUnique DEF Shape, TypeOK
<1> QED
  BY ShapeInvariant, <1>1, <1>2, <1>3, PTL DEF Spec

-----------------------------------------------------------------------------
(***************************************************************************)
(* A terminal row is never written again, by any step: every statement     *)
(* that writes a row writes an active one (claim, mark, re-claim) or a new *)
(* one.                                                                    *)
(***************************************************************************)
THEOREM TerminalRowsAreFinal == Spec => TerminalIsFinal
<1> DEFINE Kept == \A j \in JobIds : jobs[j].state \notin ACTIVE_STATES => jobs'[j] = jobs[j]
<1>1. ASSUME Shape, [Next]_vars PROVE Kept
  <2>0. jobs \in Seq(Job)
    BY <1>1 DEF Shape, TypeOK
  <2>1. CASE jobs' = jobs
    BY <2>1
  <2>2. CASE Grows
    BY <2>0, <2>2, GrowsRows DEF NewRow
  <2>3. CASE Claims
    BY <2>0, <2>3, ClaimsRows DEF Claims, ClaimsRow, Oldest, Pending, ACTIVE_STATES
  <2>4. CASE Moves
    BY <1>1, <2>4, MovesRows DEF MovesRow, ACTIVE_STATES
  <2>5. CASE Reclaims
    BY <2>0, <2>5, ReclaimsEveryRow DEF ReclaimsRows, ACTIVE_STATES
  <2> QED
    BY <1>1, <2>1, <2>2, <2>3, <2>4, <2>5, RowSteps
<1>2. Shape /\ [Next]_vars => [Kept]_vars
  BY <1>1
<1> QED
  BY ShapeInvariant, <1>2, PTL DEF Spec, TerminalIsFinal

-----------------------------------------------------------------------------
(***************************************************************************)
(* No overtaking.  The clock does not run backwards between insertions, so *)
(* the rows are sorted by created_at; a claim takes a row that no pending  *)
(* row precedes, and no step makes a row pending again.                    *)
(***************************************************************************)
Sorted == \A i, j \in JobIds : i <= j => jobs[i].created <= jobs[j].created

InOrder == Sorted /\ NoOvertaking

NoneWaitsAgain ==
    \A i \in JobIds : jobs'[i].state = "pending" => jobs[i].state = "pending"

LEMMA StaysInOrder ==
    ASSUME InOrder, RowsStay, NoneWaitsAgain,
           \A i \in JobIds : jobs[i].state = "pending" /\ jobs'[i].state # "pending"
               => i \in Oldest
    PROVE  InOrder'
<1>1. Sorted'
  BY DEF InOrder, Sorted, RowsStay
<1>2. NoOvertaking'
  <2> SUFFICES ASSUME NEW i \in JobIds, NEW j \in JobIds,
                      jobs'[i].state # "pending", jobs'[j].state = "pending"
               PROVE  jobs'[i].created <= jobs'[j].created
    BY DEF NoOvertaking, RowsStay
  <2>1. j \in Pending
    BY DEF NoneWaitsAgain, Pending
  <2>2. jobs[i].created <= jobs[j].created
    BY <2>1 DEF InOrder, NoOvertaking, Pending, Oldest
  <2> QED
    BY <2>2 DEF RowsStay
<1> QED
  BY <1>1, <1>2 DEF InOrder

LEMMA NextInOrder ==
    ASSUME Shape, InOrder, [Next]_vars
    PROVE  InOrder'
<1>0. jobs \in Seq(Job)
  BY DEF Shape, TypeOK
<1>1. CASE jobs' = jobs
  BY <1>1 DEF InOrder, Sorted, NoOvertaking, JobIds
<1>2. CASE Grows
  <2>1. PICK n \in Nat, l \in Loans : NewRow(n, l)
    BY <1>0, <1>2, GrowsRows
  <2>2. \A i \in JobIds : i \in Nat /\ jobs[i].created \in Nat
    BY <1>0, RowFields
  <2>3. JobIds = 1 .. Len(jobs) /\ Len(jobs) \in Nat
    BY <1>0, LenProperties DEF JobIds
  <2>4. jobs'[n].created \in Nat
    <3>1. jobs' \in Seq(Job) /\ n \in JobIds'
      BY <1>0, <1>2, <2>1, GrowsRows DEF NewRow
    <3>2. jobs'[n] \in Job
      BY <3>1, ElementOfSeq DEF JobIds
    <3> QED
      BY <3>2 DEF Job
  <2>5. \A i \in JobIds : jobs[i].created <= jobs'[n].created
    <3> SUFFICES ASSUME NEW i \in JobIds PROVE jobs[i].created <= jobs'[n].created
      OBVIOUS
    <3>1. Len(jobs) \in JobIds /\ i <= Len(jobs) /\ \A k \in JobIds : k <= Len(jobs)
      BY <2>3
    <3>2. jobs[Len(jobs)].created <= jobs'[n].created
      BY <2>1, <3>1 DEF NewRow
    <3>3. jobs[i].created <= jobs[Len(jobs)].created
      BY <3>1 DEF InOrder, Sorted
    <3> QED
      BY <2>2, <2>4, <3>1, <3>2, <3>3
  <2>6. Sorted'
    <3> SUFFICES ASSUME NEW i \in JobIds', NEW j \in JobIds', i <= j
                 PROVE  jobs'[i].created <= jobs'[j].created
      BY DEF Sorted
    <3>1. CASE j = n
      <4>1. CASE i = n
        BY <2>4, <3>1, <4>1
      <4>2. CASE i # n
        <5>1. i \in JobIds /\ jobs'[i] = jobs[i]
          BY <2>1, <4>2 DEF NewRow
        <5> QED
          BY <2>5, <3>1, <5>1
      <4> QED
        BY <4>1, <4>2
    <3>2. CASE j # n
      <4>1. j \in JobIds /\ j <= n
        BY <2>1, <3>2 DEF NewRow
      <4>2. i # n
        BY <2>1, <2>2, <3>2, <4>1
      <4>3. i \in JobIds
        BY <2>1, <4>2 DEF NewRow
      <4> QED
        BY <2>1, <4>1, <4>3 DEF NewRow, InOrder, Sorted
    <3> QED
      BY <3>1, <3>2
  <2>7. NoOvertaking'
    <3> SUFFICES ASSUME NEW i \in JobIds', NEW j \in JobIds',
                        jobs'[i].state # "pending", jobs'[j].state = "pending"
                 PROVE  jobs'[i].created <= jobs'[j].created
      BY DEF NoOvertaking
    <3>1. i \in JobIds
      BY <2>1 DEF NewRow
    <3>2. CASE j = n
      BY <2>1, <2>5, <3>1, <3>2 DEF NewRow
    <3>3. CASE j # n
      BY <2>1, <3>1, <3>3 DEF NewRow, InOrder, NoOvertaking
    <3> QED
      BY <3>2, <3>3
  <2> QED
    BY <2>6, <2>7 DEF InOrder
<1>3. CASE Claims
  <2>1. PICK j \in Oldest : j \in JobIds /\ ClaimsRow(j)
    BY <1>0, <1>3, ClaimsRows DEF Claims
  <2>2. /\ NoneWaitsAgain
        /\ \A i \in JobIds : jobs[i].state = "pending" /\ jobs'[i].state # "pending"
               => i \in Oldest
    BY <2>1 DEF ClaimsRow, NoneWaitsAgain
  <2> QED
    BY <2>1, <2>2, StaysInOrder DEF ClaimsRow
<1>4. CASE Moves
  <2>1. drain.job \in JobIds /\ MovesRow(drain.job)
    BY <1>4, MovesRows
  <2>2. \A i \in JobIds : (jobs'[i].state = "pending") <=> (jobs[i].state = "pending")
    BY <2>1 DEF MovesRow
  <2> QED
    BY <2>1, <2>2, StaysInOrder DEF MovesRow, NoneWaitsAgain
<1>5. CASE Reclaims
  <2>1. ReclaimsRows
    BY <1>0, <1>5, ReclaimsEveryRow
  <2>2. \A i \in JobIds : (jobs'[i].state = "pending") <=> (jobs[i].state = "pending")
    BY <2>1 DEF ReclaimsRows
  <2> QED
    BY <2>1, <2>2, StaysInOrder DEF ReclaimsRows, NoneWaitsAgain
<1> QED
  BY <1>1, <1>2, <1>3, <1>4, <1>5, RowSteps

(***************************************************************************)
(* No job leaves the queue before an older one, whatever the order in      *)
(* which rows of one millisecond are claimed (the ORDER BY of claimNext).  *)
(***************************************************************************)
THEOREM OldestFirst == Spec => []NoOvertaking
<1>1. Init => InOrder
  BY EmptySeq DEF Init, InOrder, Sorted, NoOvertaking, JobIds
<1>2. Shape /\ InOrder /\ [Next]_vars => InOrder'
  BY NextInOrder
<1> QED
  BY ShapeInvariant, <1>1, <1>2, PTL DEF Spec, InOrder

-----------------------------------------------------------------------------
(***************************************************************************)
(* The drain and the rows.  A running row that the drain does not hold is  *)
(* stranded: nothing but a restart will touch it again.                    *)
(***************************************************************************)
Held == IF drain.at \in BusyPoints THEN {drain.job} ELSE {}

Stranded == Running \ Held

(***************************************************************************)
(* No step but a refused statement strands a row, and that strands at most *)
(* the one the drain held.                                                 *)
(***************************************************************************)
LEMMA StrandedRows ==
    ASSUME Shape, [Next]_vars
    PROVE  \/ ~up'
           \/ Stranded' = {}
           \/ up /\ faults' = faults /\ Stranded' \subseteq Stranded
           \/ /\ up /\ faults' = faults + 1
              /\ Stranded' \subseteq Stranded \cup {drain.job}
<1> DEFINE Kept == up /\ faults' = faults /\ Stranded' \subseteq Stranded
<1>0. jobs \in Seq(Job) /\ DrainHoldsRow /\ SectionsAlive
  BY DEF Shape, TypeOK
<1>1. ASSUME up, UNCHANGED <<jobs, faults>>,
             drain' = drain \/ (drain.at \notin BusyPoints /\ drain'.at \notin BusyPoints)
      PROVE  Kept
  BY <1>1 DEF Stranded, Held, Running, JobIds
<1>2. CASE Trigger
  BY <1>1, <1>2 DEF Trigger, File, Reclassify, Underwrite, Quiet
<1>3. ASSUME NEW l \in Loans, enqueue(l) PROVE Kept
  <2>1. UNCHANGED <<drain, faults>> /\ up
    BY <1>3 DEF enqueue
  <2>2. CASE jobs' = jobs
    BY <1>1, <2>1, <2>2
  <2>3. CASE Grows
    <3>1. PICK n \in Nat, k \in Loans : NewRow(n, k)
      BY <1>0, <2>3, GrowsRows
    <3>2. Running' = Running
      BY <3>1 DEF Running, NewRow
    <3> QED
      BY <2>1, <3>2 DEF Stranded, Held
  <2> QED
    BY <1>3, <2>2, <2>3, EnqueueStep
<1>4. CASE kick \/ foundEmpty \/ Drained
  BY <1>1, <1>4 DEF kick, foundEmpty, Drained, Claiming, Leaving, Idle, BusyPoints, AwaitPoints
<1>5. CASE claimNext
  <2>1. PICK j \in Oldest : /\ jobs' = [jobs EXCEPT ![j].state = "running"]
                            /\ drain' = [at |-> "start", job |-> j]
    BY <1>5 DEF claimNext
  <2>2. ClaimsRow(j)
    BY <1>0, <2>1, ClaimsRows
  <2>3. Held = {} /\ Held' = {j} /\ up /\ faults' = faults
    BY <1>5, <2>1 DEF claimNext, Held, BusyPoints, AwaitPoints
  <2>4. Running' \subseteq Running \cup {j}
    BY <2>2 DEF ClaimsRow, RowsStay, Running
  <2> QED
    BY <2>3, <2>4 DEF Stranded
<1>6. ASSUME Moves, up, faults' = faults PROVE Kept
  <2>1. drain.job \in JobIds /\ MovesRow(drain.job) /\ drain.at \in BusyPoints
    BY <1>6, MovesRows DEF Moves
  <2>2. \A i \in Running' : i \in Running /\ i # drain.job
    BY <2>1 DEF MovesRow, RowsStay, Running
  <2> QED
    BY <1>6, <2>1, <2>2 DEF Stranded, Held
<1>7. CASE gatherTierADocs
  <2>1. up /\ faults' = faults
    BY <1>7 DEF gatherTierADocs
  <2>2. CASE Moves
    BY <1>6, <2>1, <2>2
  <2>3. CASE /\ jobs' = jobs /\ drain.at = "start"
             /\ drain'.at = "working" /\ drain'.job = drain.job
    BY <2>1, <2>3 DEF Stranded, Held, Running, JobIds, BusyPoints, AwaitPoints
  <2> QED
    BY <1>7, <2>2, <2>3, GatherStep
<1>8. CASE settleJob
  BY <1>6, <1>8, SettleStep DEF settleJob, markDone, markPartial, markFailed, Quiet
<1>9. CASE ingest \/ promote
  <2>1. /\ up /\ UNCHANGED <<jobs, faults>>
        /\ drain.at \in BusyPoints /\ drain'.at \in BusyPoints /\ drain'.job = drain.job
    BY <1>9 DEF Shape, TypeOK, ingest, promote, Quiet, BusyPoints, AwaitPoints
  <2> QED
    BY <2>1 DEF Stranded, Held, Running, JobIds
<1>10. CASE DrainRejects
  <2>1. up /\ faults' = faults + 1 /\ Running' = Running
    BY <1>10 DEF DrainRejects, Running, JobIds
  <2> QED
    BY <2>1 DEF Stranded, Held
<1>11. CASE Posting
  BY <1>1, <1>11 DEF Posting, appendSourceDocToDeal, updateAnalysis, appendEnds, Quiet
<1>12. CASE Crash
  BY <1>12 DEF Crash
<1>13. CASE Boot
  <2>1. ReclaimsRows
    BY <1>0, <1>13, ReclaimsEveryRow DEF Boot, Reboot, Reclaims
  <2> QED
    BY <2>1 DEF ReclaimsRows, RowsStay, Running, Stranded
<1>14. CASE UNCHANGED vars
  BY <1>1, <1>14 DEF vars, Stranded, Held, Running, JobIds
<1> QED
  BY <1>2, <1>3, <1>4, <1>5, <1>7, <1>8, <1>9, <1>10, <1>11, <1>12, <1>13, <1>14
     DEF Next, FanOut, DrainStep

(***************************************************************************)
(* The count.                                                              *)
(***************************************************************************)
StrandedIsFaults == up => Cardinality(Stranded) <= faults

LEMMA FiniteIds ==
    ASSUME NEW s \in Seq(Job), NEW T \in SUBSET (1 .. Len(s))
    PROVE  IsFiniteSet(T) /\ Cardinality(T) \in Nat
<1>1. IsFiniteSet(1 .. Len(s))
  BY LenProperties, FS_Interval
<1> QED
  BY <1>1, FS_Subset, FS_CardinalityType

LEMMA FiniteStranded ==
    ASSUME jobs \in Seq(Job)
    PROVE  IsFiniteSet(Stranded) /\ Cardinality(Stranded) \in Nat
<1>1. Stranded \in SUBSET (1 .. Len(jobs))
  BY DEF Stranded, Running, JobIds
<1> QED
  BY <1>1, FiniteIds

LEMMA NextStranded ==
    ASSUME Shape, StrandedIsFaults, [Next]_vars
    PROVE  StrandedIsFaults'
<1>0. jobs \in Seq(Job) /\ faults \in Nat /\ faults' \in Nat
  BY NextType DEF Shape, TypeOK
<1>1. IsFiniteSet(Stranded) /\ Cardinality(Stranded) \in Nat
  BY <1>0, FiniteStranded
<1>2. CASE Stranded' = {}
  BY <1>0, <1>2, FS_EmptySet DEF StrandedIsFaults
<1>3. CASE up /\ faults' = faults /\ Stranded' \subseteq Stranded
  <2>1. Cardinality(Stranded') <= Cardinality(Stranded) /\ IsFiniteSet(Stranded')
    BY <1>1, <1>3, FS_Subset
  <2>2. Cardinality(Stranded') \in Nat
    BY <2>1, FS_CardinalityType
  <2> QED
    BY <1>0, <1>1, <1>3, <2>1, <2>2 DEF StrandedIsFaults
<1>4. CASE /\ up /\ faults' = faults + 1
           /\ Stranded' \subseteq Stranded \cup {drain.job}
  <2>1. /\ IsFiniteSet(Stranded \cup {drain.job})
        /\ Cardinality(Stranded \cup {drain.job}) <= Cardinality(Stranded) + 1
    <3>1. \A x : /\ IsFiniteSet(Stranded \cup {x})
                 /\ \/ Cardinality(Stranded \cup {x}) = Cardinality(Stranded)
                    \/ Cardinality(Stranded \cup {x}) = Cardinality(Stranded) + 1
      BY <1>1, FS_AddElement
    <3>2. \A n \in Nat : n <= n + 1 /\ n + 1 <= n + 1
      OBVIOUS
    <3> QED
      BY <1>1, <3>1, <3>2
  <2>2. /\ Cardinality(Stranded') <= Cardinality(Stranded \cup {drain.job})
        /\ IsFiniteSet(Stranded')
    BY <1>4, <2>1, FS_Subset
  <2>3. Cardinality(Stranded') \in Nat /\ Cardinality(Stranded \cup {drain.job}) \in Nat
    BY <2>1, <2>2, FS_CardinalityType
  <2> QED
    BY <1>0, <1>1, <1>4, <2>1, <2>2, <2>3 DEF StrandedIsFaults
<1> QED
  BY <1>2, <1>3, <1>4, StrandedRows DEF StrandedIsFaults

THEOREM StrandedInvariant == Spec => []StrandedIsFaults
<1>1. Init => StrandedIsFaults
  <2> SUFFICES ASSUME Init PROVE StrandedIsFaults
    OBVIOUS
  <2>1. Stranded = {} /\ faults = 0
    BY EmptySeq DEF Init, Stranded, Running, JobIds
  <2> QED
    BY <2>1, FS_EmptySet DEF StrandedIsFaults
<1>2. Shape /\ StrandedIsFaults /\ [Next]_vars => StrandedIsFaults'
  BY NextStranded
<1> QED
  BY ShapeInvariant, <1>1, <1>2, PTL DEF Spec

(***************************************************************************)
(* When the database does refuse statements of the drain, each refusal     *)
(* leaves at most one row at running that nobody works on.                 *)
(***************************************************************************)
THEOREM RefusalsStrandOneRowEach == Spec => []StuckRowsAreFaults
<1>1. Shape /\ StrandedIsFaults => StuckRowsAreFaults
  <2> SUFFICES ASSUME Shape, StrandedIsFaults, up
               PROVE  Cardinality(Running \ {drain.job}) <= faults
    BY DEF StuckRowsAreFaults
  <2>1. IsFiniteSet(Stranded) /\ Cardinality(Stranded) \in Nat /\ faults \in Nat
    BY FiniteStranded DEF Shape, TypeOK
  <2>2. Running \ {drain.job} \in SUBSET Stranded
    BY DEF Stranded, Held
  <2>3. /\ Cardinality(Running \ {drain.job}) <= Cardinality(Stranded)
        /\ IsFiniteSet(Running \ {drain.job})
    BY <2>1, <2>2, FS_Subset
  <2>4. Cardinality(Running \ {drain.job}) \in Nat
    BY <2>3, FS_CardinalityType
  <2> QED
    BY <2>1, <2>3, <2>4 DEF StrandedIsFaults
<1> QED
  BY ShapeInvariant, StrandedInvariant, <1>1, PTL

LEMMA NoneStranded ==
    ASSUME Shape, StrandedIsFaults
    PROVE  RunningIsDrained
<1> SUFFICES ASSUME up, faults = 0
             PROVE  Running = Held
  BY DEF RunningIsDrained, Held
<1>1. IsFiniteSet(Stranded) /\ Cardinality(Stranded) \in Nat /\ Cardinality(Stranded) <= 0
  BY FiniteStranded DEF Shape, TypeOK, StrandedIsFaults
<1>2. Stranded = {}
  BY <1>1, FS_EmptySet
<1>3. Held \subseteq Running
  BY DEF Shape, DrainHoldsRow, Held, Running
<1> QED
  BY <1>2, <1>3 DEF Stranded

(***************************************************************************)
(* While the process lives and the database obeys, a row is running only   *)
(* if it is the one row the drain works on: runs never overlap and no      *)
(* restart leaves a row stuck at running.                                  *)
(***************************************************************************)
THEOREM RunningRowsAreDrained == Spec => []RunningIsDrained
  BY ShapeInvariant, StrandedInvariant, NoneStranded, PTL

(***************************************************************************)
(* A pending row has a drain in flight or a fan-out that will kick one.    *)
(***************************************************************************)
KickOwed ==
    up /\ faults = 0 /\ Pending # {} =>
        drain.at \notin {"idle", "leaving"} \/ (fan.open /\ fan.kick)

LEMMA NextKickOwed ==
    ASSUME Shape, KickOwed, [Next]_vars
    PROVE  KickOwed'
<1>0. faults \in Nat /\ SectionsAlive
  BY DEF Shape, TypeOK
<1>1. CASE Trigger
  <2>1. up /\ ~fan.open /\ UNCHANGED <<jobs, drain, up, faults>>
    BY <1>1 DEF Trigger, File, Reclassify, Underwrite, Quiet
  <2> QED
    BY <2>1 DEF KickOwed, Pending, JobIds
<1>2. ASSUME NEW l \in Loans, enqueue(l) PROVE KickOwed'
  <2>1. /\ fan.open /\ UNCHANGED <<drain, up, faults>>
        /\ fan'.open /\ (fan'.kick \/ (jobs' = jobs /\ fan'.kick = fan.kick))
    BY <1>2 DEF enqueue, Shape, TypeOK
  <2> QED
    BY <2>1 DEF KickOwed, Pending, JobIds
<1>3. CASE kick
  BY <1>0, <1>3 DEF kick, Claiming, KickOwed, Pending, JobIds, SectionsAlive, SyncPoints
<1>4. CASE claimNext
  BY <1>4 DEF claimNext, KickOwed
<1>5. CASE foundEmpty \/ Drained
  BY <1>5 DEF foundEmpty, Drained, KickOwed, Pending, JobIds
<1>6. CASE gatherTierADocs
  <2>1. drain'.at \notin {"idle", "leaving"}
    BY <1>6, GatherStep DEF Claiming
  <2> QED
    BY <2>1 DEF KickOwed
<1>7. CASE ingest \/ promote
  <2>1. drain'.at \notin {"idle", "leaving"}
    BY <1>7 DEF ingest, promote, Shape, TypeOK
  <2> QED
    BY <2>1 DEF KickOwed
<1>8. CASE settleJob
  BY <1>8 DEF settleJob, markDone, markPartial, markFailed, mark, Claiming, KickOwed
<1>9. CASE DrainRejects
  BY <1>0, <1>9 DEF DrainRejects, KickOwed
<1>10. CASE Posting
  BY <1>10 DEF Posting, appendSourceDocToDeal, updateAnalysis, appendEnds, KickOwed, Pending, JobIds
<1>11. CASE Crash
  BY <1>11 DEF Crash, KickOwed
<1>12. CASE Boot
  BY <1>12 DEF Boot, Reboot, Claiming, KickOwed
<1>13. CASE UNCHANGED vars
  BY <1>13 DEF vars, KickOwed, Pending, JobIds
<1> QED
  BY <1>1, <1>2, <1>3, <1>4, <1>5, <1>6, <1>7, <1>8, <1>9, <1>10, <1>11, <1>12, <1>13
     DEF Next, FanOut, DrainStep

(***************************************************************************)
(* Between requests no pending row is left without a drain: a kick that    *)
(* found a drain in flight was absorbed by it, and the boot kick covers    *)
(* what a restart found pending.                                           *)
(***************************************************************************)
THEOREM PendingRowsHaveDrain == Spec => []PendingHasDrain
<1>1. Init => KickOwed
  BY EmptySeq DEF Init, KickOwed, Pending, JobIds
<1>2. Shape /\ KickOwed /\ [Next]_vars => KickOwed'
  BY NextKickOwed
<1>3. KickOwed => PendingHasDrain
  BY DEF KickOwed, PendingHasDrain
<1> QED
  BY ShapeInvariant, <1>1, <1>2, <1>3, PTL DEF Spec

-----------------------------------------------------------------------------
(***************************************************************************)
(* The rows that were claimed and whose run has reached its commit or has  *)
(* ended without one.                                                      *)
(***************************************************************************)
Uncommitted == {"start", "working"}

Past ==
    {k \in JobIds : jobs[k].state # "pending"
                    /\ ~(drain.at \in Uncommitted /\ drain.job = k)}

LEMMA PastStays ==
    ASSUME Shape, [Next]_vars, NEW k \in Past
    PROVE  /\ k \in Past'
           /\ jobs'[k].loan = jobs[k].loan
<1> DEFINE Stays == /\ k \in Past'
                    /\ jobs'[k].loan = jobs[k].loan
<1>0. /\ jobs \in Seq(Job)
      /\ k \in JobIds /\ jobs[k].state # "pending"
      /\ drain.at \in Uncommitted => drain.job # k
  BY DEF Shape, TypeOK, Past
<1>1. ASSUME UNCHANGED jobs,
             drain' = drain \/ drain'.at \notin Uncommitted
      PROVE  Stays
  BY <1>0, <1>1 DEF Past, JobIds
<1>2. CASE Trigger
  BY <1>1, <1>2 DEF Trigger, File, Reclassify, Underwrite
<1>3. ASSUME NEW l \in Loans, enqueue(l) PROVE Stays
  <2>1. drain' = drain
    BY <1>3 DEF enqueue
  <2>2. CASE jobs' = jobs
    BY <1>1, <2>1, <2>2
  <2>3. CASE Grows
    BY <1>0, <2>1, <2>3, GrowsRows DEF NewRow, Past
  <2> QED
    BY <1>3, <2>2, <2>3, EnqueueStep
<1>4. CASE kick \/ foundEmpty \/ Drained \/ DrainRejects \/ Posting \/ Crash
  BY <1>1, <1>4 DEF kick, foundEmpty, Drained, DrainRejects, Posting, appendSourceDocToDeal,
     updateAnalysis, appendEnds, Crash, Claiming, Leaving, Idle, Uncommitted
<1>5. CASE claimNext
  <2>1. PICK j \in Oldest : /\ jobs' = [jobs EXCEPT ![j].state = "running"]
                            /\ drain' = [at |-> "start", job |-> j]
    BY <1>5 DEF claimNext
  <2>2. ClaimsRow(j) /\ jobs[j].state = "pending"
    BY <1>0, <2>1, ClaimsRows DEF Oldest, Pending
  <2> QED
    BY <1>0, <2>1, <2>2 DEF ClaimsRow, RowsStay, Past, Uncommitted
<1>6. CASE gatherTierADocs \/ settleJob
  <2>1. CASE Moves
    BY <1>0, <2>1, MovesRows DEF MovesRow, RowsStay, Past, Uncommitted
  <2>2. CASE /\ jobs' = jobs /\ drain.at = "start"
             /\ drain'.at = "working" /\ drain'.job = drain.job
    BY <1>0, <2>2 DEF Past, JobIds, Uncommitted
  <2> QED
    BY <1>6, <2>1, <2>2, GatherStep, SettleStep
<1>7. CASE ingest \/ promote
  BY <1>1, <1>7 DEF Shape, TypeOK, ingest, promote, Uncommitted
<1>8. CASE Boot
  <2>1. ReclaimsRows /\ drain'.at = "claim"
    BY <1>0, <1>8, ReclaimsEveryRow DEF Boot, Reboot, Reclaims, Claiming
  <2> QED
    BY <1>0, <2>1 DEF ReclaimsRows, RowsStay, Past, Uncommitted
<1>9. CASE UNCHANGED vars
  BY <1>1, <1>9 DEF vars
<1> QED
  BY <1>2, <1>3, <1>4, <1>5, <1>6, <1>7, <1>8, <1>9 DEF Next, FanOut, DrainStep

(***************************************************************************)
(* A row that reports success did so before, or its run has just come to   *)
(* its end: success is marked only when the head has moved.                *)
(***************************************************************************)
Succeeded == {j \in JobIds : jobs[j].state \in {"done", "partial"}}

LEMMA SuccessIsEarned ==
    ASSUME Shape, [Next]_vars, NEW j \in Succeeded'
    PROVE  /\ j \in JobIds /\ jobs'[j].loan = jobs[j].loan
           /\ \/ j \in Succeeded
              \/ drain.at = "promoted" /\ drain.job = j
<1>0. jobs \in Seq(Job)
  BY DEF Shape, TypeOK
<1>1. CASE jobs' = jobs
  BY <1>1 DEF Succeeded, JobIds
<1>2. CASE Grows
  BY <1>0, <1>2, GrowsRows DEF NewRow, Succeeded
<1>3. CASE Claims
  BY <1>0, <1>3, ClaimsRows DEF Claims, ClaimsRow, RowsStay, Succeeded
<1>4. CASE Moves
  BY <1>4, MovesRows DEF MovesRow, RowsStay, Succeeded
<1>5. CASE Reclaims
  BY <1>0, <1>5, ReclaimsEveryRow DEF ReclaimsRows, RowsStay, Succeeded
<1> QED
  BY <1>1, <1>2, <1>3, <1>4, <1>5, RowSteps

-----------------------------------------------------------------------------
(***************************************************************************)
(* The verdict a loan shows.  A run that has moved the head is at its loan *)
(* the last row, so no success is newer; an append moves the head back or  *)
(* nowhere, and what it takes back is in setBack.                          *)
(***************************************************************************)
HeadIsPromoted ==
    drain.at = "promoted" /\ jobs[drain.job].loan \notin setBack
        => drain.job <= head[jobs[drain.job].loan]

HeadFollows ==
    \A j \in Succeeded : jobs[j].loan \notin setBack => j <= head[jobs[j].loan]

HeadInv == ActiveIsLast /\ HeadIsPromoted /\ HeadFollows

LEMMA HeadStep ==
    ASSUME Shape, [Next]_vars, ~promote, NEW l \in Loans, l \notin setBack'
    PROVE  l \notin setBack /\ head[l] <= head'[l]
<1>0. head \in [Loans -> Nat] /\ posts \in [Loans -> SUBSET Nat]
  BY DEF Shape, TypeOK
<1>1. ASSUME UNCHANGED <<head, setBack>> PROVE l \notin setBack /\ head[l] <= head'[l]
  BY <1>0, <1>1
<1>2. CASE UNCHANGED vars
  BY <1>1, <1>2 DEF vars, deal
<1>3. CASE Trigger \/ FanOut
  BY <1>1, <1>3 DEF Trigger, File, Reclassify, Underwrite, FanOut, kick, enqueue, deal
<1>4. CASE DrainStep \/ DrainRejects
  BY <1>1, <1>4 DEF DrainStep, claimNext, foundEmpty, Drained, gatherTierADocs, ingest, settleJob,
     DrainRejects, deal
<1>5. CASE Crash \/ Boot
  BY <1>1, <1>5 DEF Crash, Boot, Reboot, deal
<1>6. CASE Posting
  <2>1. PICK m \in Loans : appendSourceDocToDeal(m) \/ updateAnalysis(m) \/ appendEnds(m)
    BY <1>6 DEF Posting
  <2>2. CASE appendSourceDocToDeal(m) \/ appendEnds(m)
    BY <1>1, <2>2 DEF appendSourceDocToDeal, appendEnds
  <2>3. CASE updateAnalysis(m)
    <3>1. PICK parent \in posts[m] :
             /\ head' = [head EXCEPT ![m] = parent]
             /\ setBack' = IF parent < head[m] THEN setBack \cup {m} ELSE setBack
      BY <2>3 DEF updateAnalysis
    <3>2. parent \in Nat /\ head[m] \in Nat /\ head[l] \in Nat /\ l \notin setBack
      BY <1>0, <2>1, <3>1
    <3>3. CASE l = m
      BY <1>0, <3>1, <3>2, <3>3
    <3>4. CASE l # m
      BY <1>0, <3>1, <3>2, <3>4
    <3> QED
      BY <3>3, <3>4
  <2> QED
    BY <2>1, <2>2, <2>3
<1> QED
  BY <1>2, <1>3, <1>4, <1>5, <1>6 DEF Next

LEMMA NextPromoted ==
    ASSUME Shape, HeadIsPromoted, [Next]_vars
    PROVE  HeadIsPromoted'
<1>0. /\ jobs \in Seq(Job) /\ DrainHoldsRow /\ head \in [Loans -> Nat]
      /\ head' \in [Loans -> Nat] /\ setBack \subseteq Loans
  BY NextType DEF Shape, TypeOK
<1>1. CASE promote
  <2>0. PICK m : m = drain.job
    OBVIOUS
  <2>1. /\ m \in Nat /\ jobs[m].loan \in Loans
        /\ drain'.job = m /\ jobs' = jobs /\ head' = [head EXCEPT ![jobs[m].loan] = m]
    BY <1>0, <1>1, <2>0, RowFields DEF promote, DrainHoldsRow, BusyPoints, AwaitPoints, Shape, TypeOK
  <2>2. m <= head'[jobs[m].loan]
    BY <1>0, <2>1
  <2> QED
    BY <2>1, <2>2 DEF HeadIsPromoted
<1>2. CASE ~promote /\ drain'.at = "promoted"
  <2>0. PICK m : m = drain.job
    OBVIOUS
  <2>1. drain' = drain /\ (jobs' = jobs \/ Grows)
    <3>1. CASE Trigger \/ UNCHANGED vars \/ Posting
      BY <3>1 DEF Trigger, File, Reclassify, Underwrite, vars, Posting, appendSourceDocToDeal,
         updateAnalysis, appendEnds
    <3>2. ASSUME NEW l \in Loans, enqueue(l) PROVE drain' = drain /\ (jobs' = jobs \/ Grows)
      BY <3>2, EnqueueStep DEF enqueue
    <3>3. CASE kick
      BY <1>2, <3>3 DEF kick, Claiming
    <3>4. CASE claimNext \/ foundEmpty \/ Drained \/ ingest \/ DrainRejects \/ Crash \/ Boot
      BY <1>2, <3>4 DEF claimNext, foundEmpty, Drained, ingest, DrainRejects, Crash, Boot, Reboot,
         Claiming, Idle, Leaving, Shape, TypeOK
    <3>5. CASE gatherTierADocs \/ settleJob
      BY <1>2, <3>5, GatherStep, SettleStep DEF Moves
    <3> QED
      BY <1>2, <3>1, <3>2, <3>3, <3>4, <3>5 DEF Next, FanOut, DrainStep
  <2>2. m \in JobIds /\ m \in Nat /\ jobs[m].loan \in Loans /\ jobs'[m].loan = jobs[m].loan
    <3>1. m \in JobIds
      BY <1>0, <1>2, <2>0, <2>1 DEF DrainHoldsRow, BusyPoints, AwaitPoints
    <3> QED
      BY <1>0, <2>1, <3>1, RowFields, GrowsRows DEF NewRow
  <2>3. ASSUME jobs[m].loan \notin setBack' PROVE m <= head'[jobs[m].loan]
    <3>1. jobs[m].loan \notin setBack /\ head[jobs[m].loan] <= head'[jobs[m].loan]
      BY <1>2, <2>2, <2>3, HeadStep
    <3>2. m <= head[jobs[m].loan]
      BY <1>2, <2>0, <2>1, <3>1 DEF HeadIsPromoted
    <3>3. head[jobs[m].loan] \in Nat /\ head'[jobs[m].loan] \in Nat
      BY <1>0, <2>2
    <3> QED
      BY <2>2, <3>1, <3>2, <3>3
  <2> QED
    BY <2>0, <2>1, <2>2, <2>3 DEF HeadIsPromoted
<1> QED
  BY <1>1, <1>2 DEF HeadIsPromoted

LEMMA NextFollows ==
    ASSUME Shape, HeadInv, [Next]_vars
    PROVE  HeadFollows'
<1>0. /\ jobs \in Seq(Job) /\ DrainHoldsRow /\ head \in [Loans -> Nat]
      /\ head' \in [Loans -> Nat]
  BY NextType DEF Shape, TypeOK
<1> SUFFICES ASSUME NEW j \in Succeeded', jobs'[j].loan \notin setBack'
             PROVE  j <= head'[jobs'[j].loan]
  BY DEF HeadFollows
<1>1. /\ j \in JobIds /\ jobs'[j].loan = jobs[j].loan
      /\ j \in Succeeded \/ (drain.at = "promoted" /\ drain.job = j)
  BY SuccessIsEarned
<1>2. /\ j \in Nat /\ jobs[j].loan \in Loans
      /\ head[jobs[j].loan] \in Nat /\ head'[jobs[j].loan] \in Nat
  BY <1>0, <1>1, RowFields
<1>3. CASE ~promote
  <2>1. jobs[j].loan \notin setBack /\ head[jobs[j].loan] <= head'[jobs[j].loan]
    BY <1>1, <1>2, <1>3, HeadStep
  <2>2. j <= head[jobs[j].loan]
    BY <1>1, <2>1 DEF HeadInv, HeadIsPromoted, HeadFollows
  <2> QED
    BY <1>1, <1>2, <2>1, <2>2
<1>4. CASE promote
  <2>0. PICK m : m = drain.job
    OBVIOUS
  <2>1. /\ m \in JobIds /\ jobs[m].state = "running" /\ drain.at = "minted"
        /\ jobs' = jobs /\ setBack' = setBack \ {jobs[m].loan}
        /\ head' = [head EXCEPT ![jobs[m].loan] = m]
    BY <1>0, <1>4, <2>0 DEF promote, DrainHoldsRow, BusyPoints, AwaitPoints
  <2>2. m \in Nat /\ jobs[m].loan \in Loans
    BY <1>0, <2>1, RowFields
  <2>3. CASE jobs[m].loan = jobs[j].loan
    <3>1. j <= m
      BY <1>1, <2>1, <2>3 DEF HeadInv, ActiveIsLast, ACTIVE_STATES
    <3> QED
      BY <1>0, <1>1, <2>1, <2>2, <2>3, <3>1
  <2>4. CASE jobs[m].loan # jobs[j].loan
    <3>1. j \in Succeeded /\ jobs[j].loan \notin setBack
      BY <1>1, <2>1, <2>4
    <3>2. head'[jobs[j].loan] = head[jobs[j].loan]
      BY <1>0, <1>2, <2>1, <2>4
    <3> QED
      BY <1>1, <3>1, <3>2 DEF HeadInv, HeadFollows
  <2> QED
    BY <2>3, <2>4
<1> QED
  BY <1>3, <1>4

(***************************************************************************)
(* The verdict a loan shows rests on its last success or on a later run,   *)
(* unless an append has taken it back: one active row per loan is what     *)
(* makes the row that promotes the loan's latest, and a row succeeds only  *)
(* after it promoted.                                                      *)
(***************************************************************************)
THEOREM HeadIsCurrent == Spec => []HeadIsNotOlderThanSuccess
<1>1. Init => HeadInv
  BY EmptySeq DEF Init, HeadInv, ActiveIsLast, HeadIsPromoted, HeadFollows, Succeeded,
     JobIds, Idle
<1>2. Shape /\ HeadInv /\ [Next]_vars => HeadInv'
  BY NextLast, NextPromoted, NextFollows DEF HeadInv
<1>3. HeadInv => HeadIsNotOlderThanSuccess
  BY DEF HeadInv, HeadFollows, Succeeded, HeadIsNotOlderThanSuccess, JobsOf
<1> QED
  BY ShapeInvariant, <1>1, <1>2, <1>3, PTL DEF Spec

-----------------------------------------------------------------------------
(***************************************************************************)
(* Revisions are counted against runs.  Spent are the loan's rows whose    *)
(* run has reached its commit or ended without one; Earned are the rows    *)
(* whose run has certainly committed.                                      *)
(***************************************************************************)
Spent(l) == {k \in Past : jobs[k].loan = l}

Earned(l) ==
    {k \in JobIds : /\ jobs[k].loan = l
                    /\ \/ k \in Succeeded
                       \/ drain.at \in {"minted", "promoted"} /\ drain.job = k}

RevisionsAreRuns ==
    \A l \in Loans : /\ Cardinality(Earned(l)) <= minted[l]
                     /\ minted[l] <= Cardinality(Spent(l))

LEMMA FiniteRuns ==
    ASSUME Shape, NEW l
    PROVE  /\ IsFiniteSet(Earned(l)) /\ Cardinality(Earned(l)) \in Nat
           /\ IsFiniteSet(Spent(l)) /\ Cardinality(Spent(l)) \in Nat
<1>1. Earned(l) \in SUBSET (1 .. Len(jobs)) /\ Spent(l) \in SUBSET (1 .. Len(jobs))
  BY DEF Earned, Spent, Past, Uncommitted, JobIds
<1> QED
  BY <1>1, FiniteIds DEF Shape, TypeOK

(***************************************************************************)
(* No step takes a run back, and only the commit itself earns one.         *)
(***************************************************************************)
LEMMA SpentStays ==
    ASSUME Shape, [Next]_vars, NEW l \in Loans
    PROVE  Spent(l) \subseteq Spent(l)'
  BY PastStays DEF Spent

LEMMA EarnedStays ==
    ASSUME Shape, [Next]_vars, ~ingest, NEW l \in Loans
    PROVE  Earned(l)' \subseteq Earned(l)
<1> SUFFICES ASSUME NEW k \in Earned(l)' PROVE k \in Earned(l)
  OBVIOUS
<1>0. jobs \in Seq(Job) /\ DrainHoldsRow
  BY DEF Shape, TypeOK
<1>1. CASE k \in Succeeded'
  BY <1>1, SuccessIsEarned DEF Earned
<1>2. CASE drain'.at \in {"minted", "promoted"} /\ drain'.job = k
  <2>1. ASSUME jobs' = jobs, drain' = drain PROVE k \in Earned(l)
    BY <1>2, <2>1 DEF Earned, JobIds
  <2>2. CASE Trigger \/ Posting \/ UNCHANGED vars
    BY <2>1, <2>2 DEF Trigger, File, Reclassify, Underwrite, Posting, appendSourceDocToDeal,
       updateAnalysis, appendEnds, vars
  <2>3. ASSUME NEW m \in Loans, enqueue(m) PROVE k \in Earned(l)
    <3>1. drain' = drain
      BY <2>3 DEF enqueue
    <3>2. CASE Grows
      BY <1>0, <1>2, <3>1, <3>2, GrowsRows DEF NewRow, Earned, DrainHoldsRow,
         BusyPoints, AwaitPoints
    <3> QED
      BY <2>1, <2>3, <3>1, <3>2, EnqueueStep
  <2>4. CASE kick
    BY <1>2, <2>1, <2>4 DEF kick, Claiming
  <2>5. CASE claimNext \/ foundEmpty \/ Drained \/ DrainRejects \/ Crash \/ Boot
    BY <1>2, <2>5 DEF claimNext, foundEmpty, Drained, DrainRejects, Crash, Boot, Reboot,
       Claiming, Leaving, Idle
  <2>6. CASE gatherTierADocs \/ settleJob
    BY <1>2, <2>6, GatherStep, SettleStep DEF Moves
  <2>7. CASE promote
    BY <1>2, <2>7 DEF promote, Earned, JobIds, Shape, TypeOK
  <2> QED
    BY <2>2, <2>3, <2>4, <2>5, <2>6, <2>7 DEF Next, FanOut, DrainStep
<1> QED
  BY <1>1, <1>2 DEF Earned

LEMMA NextRevisions ==
    ASSUME Shape, RevisionsAreRuns, [Next]_vars
    PROVE  RevisionsAreRuns'
<1> SUFFICES ASSUME NEW l \in Loans
             PROVE  /\ Cardinality(Earned(l)') <= minted'[l]
                    /\ minted'[l] <= Cardinality(Spent(l)')
  BY DEF RevisionsAreRuns
<1>0. /\ jobs \in Seq(Job) /\ minted \in [Loans -> Nat]
      /\ Shape' /\ DrainHoldsRow
  BY NextType, NextDrain DEF Shape, TypeOK
<1>1. /\ Cardinality(Earned(l)) <= minted[l] /\ minted[l] <= Cardinality(Spent(l))
      /\ minted[l] \in Nat
  BY <1>0 DEF RevisionsAreRuns
<1>2. /\ IsFiniteSet(Earned(l)) /\ Cardinality(Earned(l)) \in Nat
      /\ IsFiniteSet(Spent(l)) /\ Cardinality(Spent(l)) \in Nat
  BY FiniteRuns
<1>3. IsFiniteSet(Spent(l)') /\ Cardinality(Spent(l)') \in Nat
  <2>1. Spent(l)' \in SUBSET (1 .. Len(jobs'))
    BY DEF Spent, Past, Uncommitted, JobIds
  <2> QED
    BY <1>0, <2>1, FiniteIds DEF Shape, TypeOK
<1>4. Cardinality(Spent(l)) <= Cardinality(Spent(l)')
  BY <1>3, SpentStays, FS_Subset
<1>5. CASE ~ingest
  <2>1. minted' = minted
    BY <1>5 DEF Next, vars, Trigger, File, Reclassify, Underwrite, FanOut, kick, enqueue,
       DrainStep, claimNext, foundEmpty, Drained, gatherTierADocs, promote, settleJob, Posting,
       appendSourceDocToDeal, updateAnalysis, appendEnds, DrainRejects, Crash, Boot, Reboot
  <2>2. /\ IsFiniteSet(Earned(l)')
        /\ Cardinality(Earned(l)') <= Cardinality(Earned(l))
    BY <1>2, <1>5, EarnedStays, FS_Subset
  <2>3. Cardinality(Earned(l)') \in Nat
    BY <2>2, FS_CardinalityType
  <2> QED
    BY <1>1, <1>2, <1>3, <1>4, <2>1, <2>2, <2>3
<1>6. CASE ingest
  <2>0. PICK m : m = drain.job
    OBVIOUS
  <2>1. /\ m \in JobIds /\ jobs[m].state = "running" /\ drain.at = "working"
        /\ jobs' = jobs /\ JobIds' = JobIds
        /\ minted' = [minted EXCEPT ![jobs[m].loan] = @ + 1]
        /\ drain'.at = "minted" /\ drain'.job = m
    BY <1>0, <1>6, <2>0 DEF ingest, DrainHoldsRow, BusyPoints, AwaitPoints, JobIds,
       Shape, TypeOK
  <2>2. Succeeded' = Succeeded
    BY <2>1 DEF Succeeded
  <2>3. CASE jobs[m].loan # l
    <3>1. minted'[l] = minted[l]
      BY <1>0, <2>1, <2>3
    <3>2. Earned(l)' = Earned(l)
      BY <2>0, <2>1, <2>2, <2>3 DEF Earned
    <3> QED
      BY <1>1, <1>2, <1>3, <1>4, <3>1, <3>2
  <2>4. CASE jobs[m].loan = l
    <3>1. minted'[l] = minted[l] + 1
      BY <1>0, <2>1, <2>4
    <3>2. Earned(l)' = Earned(l) \cup {m}
      BY <2>0, <2>1, <2>2, <2>4 DEF Earned
    <3>3. m \notin Earned(l)
      BY <2>1 DEF Earned, Succeeded
    <3>4. Cardinality(Earned(l)') = Cardinality(Earned(l)) + 1
      BY <1>2, <3>2, <3>3, FS_AddElement
    <3>5. Spent(l)' = Spent(l) \cup {m}
      BY <2>0, <2>1, <2>4 DEF Spent, Past, Uncommitted
    <3>6. m \notin Spent(l)
      BY <2>0, <2>1 DEF Spent, Past, Uncommitted
    <3>7. Cardinality(Spent(l)') = Cardinality(Spent(l)) + 1
      BY <1>2, <3>5, <3>6, FS_AddElement
    <3> QED
      BY <1>1, <1>2, <3>1, <3>4, <3>7
  <2> QED
    BY <2>3, <2>4
<1> QED
  BY <1>5, <1>6

(***************************************************************************)
(* A job never commits two revisions of its loan, whatever dies between    *)
(* the commit and the mark, and a job that reports success committed one.  *)
(***************************************************************************)
THEOREM RevisionsMatchRuns == Spec => []OneRevisionPerRun
<1>1. Init => RevisionsAreRuns
  <2> SUFFICES ASSUME Init, NEW l \in Loans
               PROVE  /\ Cardinality(Earned(l)) <= minted[l]
                      /\ minted[l] <= Cardinality(Spent(l))
    BY DEF RevisionsAreRuns
  <2>1. Earned(l) = {} /\ Spent(l) = {} /\ minted[l] = 0
    BY EmptySeq DEF Init, Earned, Spent, Past, Uncommitted, JobIds
  <2> QED
    BY <2>1, FS_EmptySet
<1>2. Shape /\ RevisionsAreRuns /\ [Next]_vars => RevisionsAreRuns'
  BY NextRevisions
<1>3. Shape /\ RevisionsAreRuns => OneRevisionPerRun
  <2> SUFFICES ASSUME Shape, RevisionsAreRuns, NEW l \in Loans
               PROVE  /\ minted[l] <= Cardinality({j \in JobsOf(l) : jobs[j].state # "pending"})
                      /\ minted[l] >= Cardinality({j \in JobsOf(l) :
                                                    jobs[j].state \in {"done", "partial"}})
    BY DEF OneRevisionPerRun
  <2> DEFINE Ran == {j \in JobsOf(l) : jobs[j].state # "pending"}
             Won == {j \in JobsOf(l) : jobs[j].state \in {"done", "partial"}}
  <2>1. /\ IsFiniteSet(Earned(l)) /\ Cardinality(Earned(l)) \in Nat
        /\ Cardinality(Spent(l)) \in Nat
    BY FiniteRuns
  <2>2. Ran \in SUBSET (1 .. Len(jobs)) /\ Spent(l) \in SUBSET Ran /\ Won \in SUBSET Earned(l)
    BY DEF JobIds, JobsOf, Spent, Past, Uncommitted, Earned, Succeeded
  <2>3. IsFiniteSet(Ran) /\ IsFiniteSet(Won)
    BY <2>1, <2>2, FiniteIds, FS_Subset DEF Shape, TypeOK
  <2>4. Cardinality(Ran) \in Nat /\ Cardinality(Won) \in Nat
    BY <2>3, FS_CardinalityType
  <2>5. Cardinality(Spent(l)) <= Cardinality(Ran) /\ Cardinality(Won) <= Cardinality(Earned(l))
    BY <2>1, <2>2, <2>3, FS_Subset
  <2>6. /\ Cardinality(Earned(l)) <= minted[l] /\ minted[l] <= Cardinality(Spent(l))
        /\ minted[l] \in Nat
    BY DEF RevisionsAreRuns, Shape, TypeOK
  <2> HIDE DEF Ran, Won
  <2>7. minted[l] <= Cardinality(Ran) /\ minted[l] >= Cardinality(Won)
    BY <2>1, <2>4, <2>5, <2>6
  <2> QED
    BY <2>7 DEF Ran, Won
<1> QED
  BY ShapeInvariant, <1>1, <1>2, <1>3, PTL DEF Spec

-----------------------------------------------------------------------------
(***************************************************************************)
(* The refinement of LoanWork.  The map gives a loan the work its rows     *)
(* stand for.  A row is added only for a loan without work, so that Queue  *)
(* is enabled; a row is claimed when nothing runs, so that Start is; and   *)
(* a mark or a restart ends the one row that runs.                         *)
(***************************************************************************)
WorkMap == [l \in Loans |-> WorkOf(l)]

OneRunning == faults = 0 => \A i, j \in Running : i = j

LEMMA NextOneRunning ==
    ASSUME Shape, OneRunning, RunningIsDrained, RunningIsDrained', [Next]_vars
    PROVE  OneRunning'
<1>1. CASE up'
  BY <1>1 DEF RunningIsDrained, OneRunning
<1>2. CASE ~up'
  <2>1. ~Trigger /\ ~FanOut /\ ~DrainRejects /\ ~Posting
    <3>1. ~Trigger
      <4>1. Trigger => Quiet /\ UNCHANGED up
        BY DEF Trigger, File, Reclassify, Underwrite
      <4> QED
        BY <1>2, <4>1 DEF Quiet
    <3>2. ~FanOut
      <4>1. FanOut => up /\ UNCHANGED up
        BY DEF FanOut, kick, enqueue
      <4> QED
        BY <1>2, <4>1
    <3>3. ~DrainRejects
      BY <1>2 DEF DrainRejects
    <3>4. ~Posting
      <4>1. Posting => Quiet /\ UNCHANGED up
        BY DEF Posting, appendSourceDocToDeal, updateAnalysis, appendEnds
      <4> QED
        BY <1>2, <4>1 DEF Quiet
    <3> QED
      BY <3>1, <3>2, <3>3, <3>4
  <2>2. ~DrainStep
    BY <1>2 DEF DrainStep, claimNext, foundEmpty, Drained, gatherTierADocs, ingest, promote, settleJob,
       markDone, markPartial, markFailed, Quiet, Shape, DrainHoldsRow, BusyPoints
  <2>3. jobs' = jobs /\ faults' = faults
    BY <1>2, <2>1, <2>2 DEF Next, vars, Crash, Boot, Reboot
  <2> QED
    BY <2>3 DEF OneRunning, Running, JobIds
<1> QED
  BY <1>1, <1>2

(***************************************************************************)
(* The work of a loan from its rows.                                       *)
(***************************************************************************)
LEMMA SameWork ==
    ASSUME NEW l, JobsOf(l)' = JobsOf(l),
           \A j \in JobsOf(l) : jobs'[j].state = jobs[j].state
    PROVE  WorkOf(l)' = WorkOf(l)
  BY DEF WorkOf

LEMMA WorkIs ==
    ASSUME NEW l, NEW j \in JobsOf(l),
           \A i \in JobsOf(l) : jobs[i].state \in ACTIVE_STATES => i = j
    PROVE  WorkOf(l) = IF jobs[j].state = "running" THEN "working"
                       ELSE IF jobs[j].state = "pending" THEN "queued" ELSE "ended"
  BY DEF WorkOf, ACTIVE_STATES

LEMMA WorkIsNext ==
    ASSUME NEW l, NEW j \in JobsOf(l)',
           \A i \in JobsOf(l)' : jobs'[i].state \in ACTIVE_STATES => i = j
    PROVE  WorkOf(l)' = IF jobs'[j].state = "running" THEN "working"
                        ELSE IF jobs'[j].state = "pending" THEN "queued" ELSE "ended"
  BY DEF WorkOf, ACTIVE_STATES

(***************************************************************************)
(* A step of the queue is a step or a stutter of LoanWork.                 *)
(***************************************************************************)
QueueIs(l, was, is) ==
    /\ WorkOf(l) \in was
    /\ WorkOf(l)' = is
    /\ \A k \in Loans \ {l} : WorkOf(k)' = WorkOf(k)

LEMMA GrowsWork ==
    ASSUME Shape, Grows
    PROVE  \E l \in Loans : QueueIs(l, {"none", "ended"}, "queued")
<1>0. jobs \in Seq(Job)
  BY DEF Shape, TypeOK
<1>1. PICK n \in Nat, l \in Loans : NewRow(n, l)
  BY <1>0, GrowsRows
<1>2. \A i \in JobsOf(l) : jobs[i].state \notin ACTIVE_STATES
  BY <1>1 DEF NewRow, getActiveForLoan
<1>3. WorkOf(l) \in {"none", "ended"}
  BY <1>2 DEF WorkOf, ACTIVE_STATES
<1>4. n \in JobsOf(l)' /\ \A i \in JobsOf(l)' : jobs'[i].state \in ACTIVE_STATES => i = n
  BY <1>1, <1>2 DEF NewRow, JobsOf
<1>5. WorkOf(l)' = "queued"
  BY <1>1, <1>4, WorkIsNext DEF NewRow
<1>6. ASSUME NEW k \in Loans \ {l} PROVE WorkOf(k)' = WorkOf(k)
  <2>1. JobsOf(k)' = JobsOf(k) /\ \A i \in JobsOf(k) : jobs'[i].state = jobs[i].state
    BY <1>1 DEF NewRow, JobsOf
  <2> QED
    BY <2>1, SameWork
<1> QED
  BY <1>3, <1>5, <1>6 DEF QueueIs

(***************************************************************************)
(* One row of a loan changes its state; the loan's other rows are all      *)
(* terminal.                                                               *)
(***************************************************************************)
LEMMA RowChangesWork ==
    ASSUME Shape, ActiveIsLast, RowsStay,
           NEW j \in JobIds, jobs[j].state \in ACTIVE_STATES,
           \A i \in JobIds : i # j => jobs'[i].state = jobs[i].state
    PROVE  /\ jobs[j].loan \in Loans
           /\ WorkOf(jobs[j].loan) = IF jobs[j].state = "running" THEN "working" ELSE "queued"
           /\ WorkOf(jobs[j].loan)' = IF jobs'[j].state = "running" THEN "working"
                                      ELSE IF jobs'[j].state = "pending" THEN "queued"
                                      ELSE "ended"
           /\ \A k \in Loans \ {jobs[j].loan} : WorkOf(k)' = WorkOf(k)
<1>0. jobs \in Seq(Job) /\ OneActivePerLoan /\ jobs[j].loan \in Loans
  BY RowFields, LastIsUnique DEF Shape, TypeOK
<1>1. PICK l : l = jobs[j].loan
  OBVIOUS
<1>2. j \in JobsOf(l) /\ JobsOf(l)' = JobsOf(l)
  BY <1>1 DEF JobsOf, RowsStay
<1>3. \A i \in JobsOf(l) : jobs[i].state \in ACTIVE_STATES => i = j
  BY <1>0, <1>1 DEF OneActivePerLoan, JobsOf
<1>4. \A i \in JobsOf(l)' : jobs'[i].state \in ACTIVE_STATES => i = j
  BY <1>2, <1>3 DEF JobsOf
<1>5. WorkOf(l) = IF jobs[j].state = "running" THEN "working" ELSE "queued"
  BY <1>2, <1>3, WorkIs DEF ACTIVE_STATES
<1>6. WorkOf(l)' = IF jobs'[j].state = "running" THEN "working"
                   ELSE IF jobs'[j].state = "pending" THEN "queued" ELSE "ended"
  BY <1>2, <1>4, WorkIsNext
<1>7. ASSUME NEW k \in Loans \ {l} PROVE WorkOf(k)' = WorkOf(k)
  <2>1. JobsOf(k)' = JobsOf(k) /\ \A i \in JobsOf(k) : jobs'[i].state = jobs[i].state
    BY <1>1, <1>7 DEF RowsStay, JobsOf
  <2> QED
    BY <2>1, SameWork
<1>8. /\ WorkOf(jobs[j].loan) = WorkOf(l)
      /\ Loans \ {jobs[j].loan} = Loans \ {l}
  BY <1>1
<1>9. WorkOf(jobs[j].loan)' = IF jobs'[j].state = "running" THEN "working"
                              ELSE IF jobs'[j].state = "pending" THEN "queued" ELSE "ended"
  BY <1>1, <1>6 DEF RowsStay
<1> QED
  BY <1>0, <1>1, <1>5, <1>7, <1>8, <1>9

LEMMA WorkSteps ==
    ASSUME Shape, ActiveIsLast, OneRunning, RunningIsDrained, faults = 0, [Next]_vars
    PROVE  \/ \A k \in Loans : WorkOf(k)' = WorkOf(k)
           \/ \E l \in Loans : QueueIs(l, {"none", "ended"}, "queued")
           \/ \E l \in Loans : /\ QueueIs(l, {"queued"}, "working")
                               /\ \A k \in Loans : WorkOf(k) # "working"
           \/ \E l \in Loans : QueueIs(l, {"working"}, "ended")
<1>0. jobs \in Seq(Job)
  BY DEF Shape, TypeOK
<1>1. CASE jobs' = jobs
  BY <1>1, SameWork DEF JobsOf, JobIds
<1>2. CASE Grows
  BY <1>2, GrowsWork
<1>3. CASE Claims
  <2>1. PICK j \in Oldest : j \in JobIds /\ ClaimsRow(j)
    BY <1>0, <1>3, ClaimsRows DEF Claims
  <2>2. jobs[j].state = "pending" /\ jobs[j].state \in ACTIVE_STATES
    BY <2>1 DEF Oldest, Pending, ACTIVE_STATES
  <2>3. Running = {}
    BY <1>3 DEF Claims, RunningIsDrained, BusyPoints, AwaitPoints
  <2>4. \A k \in Loans : WorkOf(k) # "working"
    BY <2>3 DEF Running, WorkOf, JobsOf
  <2>5. jobs[j].loan \in Loans /\ QueueIs(jobs[j].loan, {"queued"}, "working")
    BY <2>1, <2>2, RowChangesWork DEF ClaimsRow, QueueIs
  <2> QED
    BY <2>4, <2>5
<1>4. CASE Moves
  <2>0. PICK j : j = drain.job
    OBVIOUS
  <2>1. j \in JobIds /\ MovesRow(j) /\ jobs[j].state = "running" /\ jobs[j].state \in ACTIVE_STATES
    BY <1>4, <2>0, MovesRows DEF MovesRow, ACTIVE_STATES
  <2>2. jobs[j].loan \in Loans /\ QueueIs(jobs[j].loan, {"working"}, "ended")
    BY <2>1, RowChangesWork DEF MovesRow, QueueIs
  <2> QED
    BY <2>2
<1>5. CASE Reclaims
  <2>1. ReclaimsRows
    BY <1>0, <1>5, ReclaimsEveryRow
  <2>2. CASE Running = {}
    <3>1. \A k \in Loans : /\ JobsOf(k)' = JobsOf(k)
                           /\ \A i \in JobsOf(k) : jobs'[i].state = jobs[i].state
      BY <2>1, <2>2 DEF ReclaimsRows, RowsStay, JobsOf, Running
    <3> QED
      BY <3>1, SameWork
  <2>3. CASE Running # {}
    <3>1. PICK j \in Running : TRUE
      BY <2>3
    <3>2. \A i \in JobIds : i # j => jobs'[i] = jobs[i]
      BY <2>1, <3>1 DEF OneRunning, Running, ReclaimsRows
    <3>3. /\ j \in JobIds /\ jobs[j].state = "running" /\ jobs[j].state \in ACTIVE_STATES
          /\ jobs'[j].state = "interrupted"
      BY <2>1, <3>1 DEF Running, ReclaimsRows, ACTIVE_STATES
    <3>4. jobs[j].loan \in Loans /\ QueueIs(jobs[j].loan, {"working"}, "ended")
      BY <2>1, <3>2, <3>3, RowChangesWork DEF ReclaimsRows, QueueIs
    <3> QED
      BY <3>4
  <2> QED
    BY <2>2, <2>3
<1> QED
  BY <1>1, <1>2, <1>3, <1>4, <1>5, RowSteps

LEMMA StepRefines ==
    ASSUME Shape, ActiveIsLast, OneRunning, RunningIsDrained, faults = 0, [Next]_vars
    PROVE  Work!Next \/ UNCHANGED WorkMap
<1>1. ASSUME NEW l \in Loans, NEW was, NEW is, QueueIs(l, was, is)
      PROVE  /\ WorkMap[l] \in was
             /\ WorkMap' = [WorkMap EXCEPT ![l] = is]
  BY <1>1 DEF QueueIs, WorkMap
<1>2. CASE \A k \in Loans : WorkOf(k)' = WorkOf(k)
  BY <1>2 DEF WorkMap
<1>3. ASSUME NEW l \in Loans, QueueIs(l, {"none", "ended"}, "queued")
      PROVE  Work!Next
  <2>1. Work!Queue(l)
    BY <1>1, <1>3 DEF Work!Queue, WorkMap
  <2> QED
    BY <2>1 DEF Work!Next
<1>4. ASSUME NEW l \in Loans, QueueIs(l, {"queued"}, "working"),
             \A k \in Loans : WorkOf(k) # "working"
      PROVE  Work!Next
  <2>1. Work!Start(l)
    BY <1>1, <1>4 DEF Work!Start, WorkMap
  <2> QED
    BY <2>1 DEF Work!Next
<1>5. ASSUME NEW l \in Loans, QueueIs(l, {"working"}, "ended")
      PROVE  Work!Next
  <2>1. Work!End(l)
    BY <1>1, <1>5 DEF Work!End, WorkMap
  <2> QED
    BY <2>1 DEF Work!Next
<1> QED
  BY <1>2, <1>3, <1>4, <1>5, WorkSteps

(***************************************************************************)
(* As long as the database refuses no statement of the drain, the queue    *)
(* with its rows, triggers, crashes and restarts is the work the rest of   *)
(* the server sees: at most one piece of it per loan, one loan at a time,  *)
(* and never back to the queue by itself.                                  *)
(***************************************************************************)
THEOREM QueueIsLoanWork == Spec /\ [](faults = 0) => ImplementsLoanWork
<1>1. Init => Work!Init
  <2> SUFFICES ASSUME Init PROVE Work!Init
    OBVIOUS
  <2>1. \A l \in Loans : WorkOf(l) = "none"
    BY EmptySeq DEF Init, WorkOf, JobsOf, JobIds
  <2> QED
    BY <2>1 DEF Work!Init
<1>2. Init => ActiveIsLast /\ OneRunning
  BY EmptySeq DEF Init, ActiveIsLast, OneRunning, Running, JobIds
<1>3. Shape /\ ActiveIsLast /\ [Next]_vars => ActiveIsLast'
  BY NextLast
<1>4. /\ Shape /\ OneRunning /\ RunningIsDrained /\ RunningIsDrained' /\ [Next]_vars
      => OneRunning'
  BY NextOneRunning
<1>5. /\ Shape /\ ActiveIsLast /\ OneRunning /\ RunningIsDrained /\ faults = 0 /\ [Next]_vars
      => [Work!Next]_WorkMap
  BY StepRefines
<1>6. [Work!Next]_WorkMap => [Work!Next]_[l \in Loans |-> WorkOf(l)]
  BY DEF WorkMap
<1> QED
  BY ShapeInvariant, RunningRowsAreDrained, <1>1, <1>2, <1>3, <1>4, <1>5, <1>6, PTL
     DEF Spec, ImplementsLoanWork, Work!Spec

=============================================================================
