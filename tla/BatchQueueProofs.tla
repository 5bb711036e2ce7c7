---------------------------- MODULE BatchQueueProofs ----------------------------
(***************************************************************************)
(* The queue of batches over the library, for every number of jobs, files, *)
(* callers and attempts: proofs about BatchQueue.                          *)
(***************************************************************************)
EXTENDS BatchQueue, UwLibraryProofs, SequenceTheorems

JobRecords ==
    [files : Batches, status : {"queued", "processing", "completed"},
     results : Seq(Results)]

WorkerStates ==
    [pc : {"idle", "asking", "backoff", "answered"},
     attempt : 1 .. MaxAttempts, result : Results]

(***************************************************************************)
(* A job has fewer results than files until it is completed, and one that  *)
(* waits has another before it that is worked on.                          *)
(***************************************************************************)
ResultsFit(js) ==
    \A n \in DOMAIN js :
      /\ js[n].status = "completed" => Len(js[n].results) = Len(js[n].files)
      /\ js[n].status = "processing" => Len(js[n].results) < Len(js[n].files)
      /\ js[n].status = "queued" => js[n].results = <<>>

Ordered(js) ==
    /\ \A n, m \in DOMAIN js :
         n < m /\ js[n].status # "completed" => js[m].status = "queued"
    /\ \A n \in DOMAIN js :
         js[n].status = "queued" => \E m \in DOMAIN js : js[m].status = "processing"

AllCompleted(js) == \A n \in DOMAIN js : js[n].status = "completed"

QueueSafe ==
    /\ jobs \in Seq(JobRecords) /\ worker \in WorkerStates
    /\ ResultsFit(jobs) /\ Ordered(jobs)
    /\ worker.pc = "idle" <=> AllCompleted(jobs)
    /\ worker.pc = "asking" <=> calls[Worker] # NoCall
    /\ worker.pc = "backoff" => worker.attempt < MaxAttempts

(***************************************************************************)
(* The inductive invariant.                                                *)
(***************************************************************************)
Safe == LibrarySafe /\ QueueSafe

-----------------------------------------------------------------------------
LEMMA ResultsTyped ==
    /\ Failed \in Results /\ Skipped \in Results
    /\ \A t \in Types : Success(t) \in Results
BY DEF Results, Failed, Skipped, Success

LEMMA WorkerTyped ==
    /\ Idle \in WorkerStates
    /\ \A n \in 1 .. MaxAttempts :
         At("asking", n) \in WorkerStates /\ At("backoff", n) \in WorkerStates
    /\ \A r \in Results : Answered(r) \in WorkerStates
BY ResultsTyped, BatchAssumption DEF WorkerStates, Idle, At, Answered

(***************************************************************************)
(* Files of a batch are files, and a batch has some.                       *)
(***************************************************************************)
LEMMA BatchFiles ==
    ASSUME NEW files \in Batches
    PROVE  /\ files \in Seq(Files) /\ Len(files) \in Nat /\ Len(files) >= 1
           /\ \A k \in 1 .. Len(files) : files[k] \in Files
<1>1. files \in Seq(Files) /\ files # <<>>
  BY BatchAssumption
<1>2. Len(files) \in Nat /\ Len(files) # 0
  BY <1>1, EmptySeq, LenProperties
<1>. QED  BY <1>1, <1>2

(***************************************************************************)
(* The job that is worked on.                                              *)
(***************************************************************************)
LEMMA CurrentJob ==
    ASSUME QueueSafe, worker.pc # "idle"
    PROVE  /\ current \in DOMAIN jobs /\ jobs[current].status = "processing"
           /\ jobs[current] \in JobRecords
           /\ \A n \in DOMAIN jobs : n < current => jobs[n].status = "completed"
           /\ \A n \in DOMAIN jobs : current < n => jobs[n].status = "queued"
<1>1. \A n \in DOMAIN jobs : n \in Nat /\ jobs[n] \in JobRecords
  BY DEF QueueSafe
<1>2. Now # {}
  <2>1. PICK n \in DOMAIN jobs : jobs[n].status # "completed"
    BY DEF QueueSafe, AllCompleted
  <2>2. jobs[n].status \in {"queued", "processing"}
    BY <1>1, <2>1 DEF JobRecords
  <2>. QED  BY <2>1, <2>2 DEF QueueSafe, Ordered, Now
<1>3. current \in Now
  BY <1>2 DEF current
<1>. QED  BY <1>1, <1>3 DEF Now, QueueSafe, Ordered

(***************************************************************************)
(* The worker starts on a file: either it waits in an ingestion or it has  *)
(* the answer.                                                             *)
(***************************************************************************)
Started ==
    /\ worker' \in WorkerStates
    /\ worker'.pc \in {"asking", "answered"}
    /\ worker'.pc = "asking" <=> calls'[Worker] # NoCall

LEMMA StartSafe ==
    ASSUME RecordsSafe, calls[Worker] = NoCall, NEW f \in Files,
           NEW attempt \in 1 .. MaxAttempts, startFile(f, attempt),
           UNCHANGED <<records, saved, unmatched, reread, pending, born,
                       besides, kept, setBack, rereads, crashes>>,
           rules' \in [Types -> SUBSET Standings],
           outdated' \subseteq outdated, untold' \subseteq untold
    PROVE  RecordsSafe' /\ Started
<1>1. CASE /\ exactDuplicates(f) = {}
           /\ Begin(Worker, "auto", f)
           /\ worker' = At("asking", attempt)
  <2>1. RecordsSafe'
    BY <1>1, BeginSafe, BatchAssumption
  <2>2. calls'[Worker] # NoCall
    <3>. DEFINE call == [how |-> "auto", file |-> f,
                         beside |-> \E d \in Callers : calls[d] # NoCall /\ calls[d].file = f]
    <3>1. call \in Ingestions
      BY DEF Ingestions
    <3>2. calls' = [calls EXCEPT ![Worker] = call] /\ Worker \in DOMAIN calls
      BY <1>1, BatchAssumption DEF Begin, RecordsSafe, Made, LibraryTypeOK
    <3>. HIDE DEF call
    <3>. QED  BY <3>1, <3>2, NoCallAssumption
  <2>. QED  BY <1>1, <2>1, <2>2, WorkerTyped DEF Started, At
<1>2. CASE worker' = Answered(Skipped) /\ UNCHANGED calls
  <2>1. RecordsSafe'
    BY <1>2 DEF RecordsSafe, Made, LibraryTypeOK, KeptStaysOnRecord, ToldIn,
       LiveIsPresent, OverlapsIn, Excused, OneIsBeside, AutoIsUnseen, Unseen, Present
  <2>. QED  BY <1>2, <2>1, WorkerTyped, ResultsTyped DEF Started, Answered
<1>. QED  BY <1>1, <1>2 DEF startFile

LEMMA RulesUntouched ==
    ASSUME StaleProposalsAreUntold, UNCHANGED <<records, pending, outdated, untold>>
    PROVE  StaleProposalsAreUntold'
BY DEF StaleProposalsAreUntold, qualifyingDeals, Present

-----------------------------------------------------------------------------
(***************************************************************************)
(* Jobs that are uploaded.                                                 *)
(***************************************************************************)
LEMMA EnqueueSafe ==
    ASSUME Safe, NEW files \in Batches, enqueue(files)
    PROVE  Safe'
<1>1. /\ jobs \in Seq(JobRecords) /\ worker \in WorkerStates
      /\ Len(jobs) \in Nat /\ DOMAIN jobs = 1 .. Len(jobs)
      /\ \A n \in DOMAIN jobs : jobs[n] \in JobRecords
  BY DEF Safe, QueueSafe
<1>2. Len(files) >= 1 /\ Len(files) \in Nat /\ files[1] \in Files
  BY BatchFiles
<1>3. \A status \in {"queued", "processing"} :
        /\ Job(files, status) \in JobRecords
        /\ Job(files, status).status = status
        /\ Job(files, status).files = files
        /\ Job(files, status).results = <<>>
  <2>1. <<>> \in Seq(Results) /\ Len(<<>>) = 0
    BY EmptySeq
  <2>. QED  BY <2>1 DEF Job, JobRecords
<1>4. /\ UNCHANGED <<records, saved, unmatched, reread, pending, rules, outdated,
                     born, besides, kept, setBack, untold, rereads, crashes>>
      /\ StaleProposalsAreUntold' /\ RecordsSafe
      /\ rules' \in [Types -> SUBSET Standings]
  BY RulesUntouched DEF enqueue, Safe, LibrarySafe, RecordsSafe, Made, LibraryTypeOK
<1>5. CASE Now = {}
  <2>1. AllCompleted(jobs)
    BY <1>1, <1>5 DEF Safe, QueueSafe, Ordered, AllCompleted, Now, JobRecords
  <2>2. calls[Worker] = NoCall
    BY <2>1 DEF Safe, QueueSafe
  <2>3. RecordsSafe' /\ Started
    BY <1>2, <1>4, <1>5, <2>2, StartSafe, BatchAssumption DEF enqueue
  <2>4. jobs' = Append(jobs, Job(files, "processing"))
    BY <1>5 DEF enqueue
  <2>5. /\ jobs' \in Seq(JobRecords) /\ DOMAIN jobs' = 1 .. Len(jobs) + 1
        /\ \A n \in DOMAIN jobs : jobs'[n] = jobs[n]
        /\ jobs'[Len(jobs) + 1] = Job(files, "processing")
    BY <1>1, <1>3, <2>4
  <2>6. ResultsFit(jobs')
    BY <1>1, <1>2, <1>3, <2>5 DEF Safe, QueueSafe, ResultsFit
  <2>7. Ordered(jobs') /\ ~AllCompleted(jobs')
    BY <1>1, <1>3, <2>1, <2>5 DEF Ordered, AllCompleted
  <2>8. QueueSafe'
    BY <2>3, <2>5, <2>6, <2>7 DEF QueueSafe, Started, ResultsFit, Ordered, AllCompleted
  <2>. QED  BY <1>4, <2>3, <2>8 DEF Safe, LibrarySafe
<1>6. CASE Now # {}
  <2>1. jobs' = Append(jobs, Job(files, "queued")) /\ UNCHANGED <<worker, calls>>
    BY <1>6 DEF enqueue
  <2>2. LibrarySafe'
    BY <1>4, <2>1, StutterSafe DEF Safe, libraryVars
  <2>3. /\ jobs' \in Seq(JobRecords) /\ DOMAIN jobs' = 1 .. Len(jobs) + 1
        /\ \A n \in DOMAIN jobs : jobs'[n] = jobs[n]
        /\ jobs'[Len(jobs) + 1] = Job(files, "queued")
    BY <1>1, <1>3, <2>1
  <2>4. PICK m \in DOMAIN jobs : jobs[m].status = "processing"
    BY <1>6 DEF Now
  <2>5. ResultsFit(jobs')
    BY <1>1, <1>3, <2>3 DEF Safe, QueueSafe, ResultsFit
  <2>6. Ordered(jobs')
    BY <1>1, <1>3, <2>3, <2>4 DEF Safe, QueueSafe, Ordered
  <2>7. ~AllCompleted(jobs) /\ ~AllCompleted(jobs')
    BY <1>1, <2>3, <2>4 DEF AllCompleted
  <2>8. QueueSafe'
    BY <2>1, <2>3, <2>5, <2>6, <2>7
       DEF Safe, QueueSafe, ResultsFit, Ordered, AllCompleted
  <2>. QED  BY <2>2, <2>8 DEF Safe
<1>. QED  BY <1>5, <1>6

(***************************************************************************)
(* The end of an ingestion.                                                *)
(***************************************************************************)
LEMMA EndedSafe ==
    ASSUME Safe, LibrarySafe', UNCHANGED jobs, calls[Worker] # NoCall,
           calls' = [calls EXCEPT ![Worker] = NoCall],
           worker' \in WorkerStates,
           \/ worker'.pc = "answered"
           \/ worker'.pc = "backoff" /\ worker'.attempt < MaxAttempts
    PROVE  Safe'
<1>1. calls'[Worker] = NoCall
  BY BatchAssumption DEF Safe, LibrarySafe, RecordsSafe, Made, LibraryTypeOK
<1>2. ~AllCompleted(jobs)
  BY DEF Safe, QueueSafe
<1>3. QueueSafe'
  BY <1>1, <1>2 DEF Safe, QueueSafe, ResultsFit, Ordered, AllCompleted
<1>. QED  BY <1>3 DEF Safe

LEMMA SucceedSafe ==
    ASSUME Safe, NEW t \in Types, NEW label \in Labels, succeed(t, label)
    PROVE  Safe'
<1>1. LibrarySafe'
  BY InsertSafe, BatchAssumption DEF Safe, succeed
<1>2. worker' \in WorkerStates /\ worker'.pc = "answered"
  BY WorkerTyped, ResultsTyped DEF succeed, Answered
<1>. QED  BY <1>1, <1>2, EndedSafe DEF succeed, insert, add, Leave

LEMMA SkipSafe ==
    ASSUME Safe, skipProbable
    PROVE  Safe'
<1>1. LibrarySafe'
  BY LeaveSafe, BatchAssumption DEF Safe, skipProbable
<1>2. worker' \in WorkerStates /\ worker'.pc = "answered"
  BY WorkerTyped, ResultsTyped DEF skipProbable, Answered
<1>. QED  BY <1>1, <1>2, EndedSafe DEF skipProbable, skip, Leave

LEMMA FailSafe ==
    ASSUME Safe, fail
    PROVE  Safe'
<1>1. LibrarySafe'
  BY LeaveSafe, BatchAssumption DEF Safe, fail
<1>2. worker.attempt \in 1 .. MaxAttempts
  BY DEF Safe, QueueSafe, WorkerStates
<1>3. /\ worker' \in WorkerStates
      /\ \/ worker'.pc = "answered"
         \/ worker'.pc = "backoff" /\ worker'.attempt < MaxAttempts
  <2>1. CASE worker' = Answered(Failed)
    BY <2>1, WorkerTyped, ResultsTyped DEF Answered
  <2>2. CASE /\ worker.attempt < MaxAttempts
             /\ worker' = At("backoff", worker.attempt)
    <3>1. worker' \in WorkerStates
      BY <1>2, <2>2, WorkerTyped
    <3>2. worker'.pc = "backoff" /\ worker'.attempt = worker.attempt
      BY <2>2 DEF At
    <3>. QED  BY <2>2, <3>1, <3>2
  <2>. QED  BY <2>1, <2>2 DEF fail
<1>. QED  BY <1>1, <1>3, EndedSafe DEF fail, throw, Leave

(***************************************************************************)
(* Another attempt at a file.                                              *)
(***************************************************************************)
LEMMA RetrySafe ==
    ASSUME Safe, retry
    PROVE  Safe'
<1>1. /\ worker.pc = "backoff" /\ calls[Worker] = NoCall
      /\ worker.attempt + 1 \in 1 .. MaxAttempts
      /\ ~AllCompleted(jobs)
  BY BatchAssumption DEF Safe, QueueSafe, retry, WorkerStates
<1>2. jobs[current] \in JobRecords /\ Len(jobs[current].results) < Len(jobs[current].files)
  BY <1>1, CurrentJob DEF Safe, QueueSafe, ResultsFit
<1>3. NextFile(current) \in Files
  <2>1. jobs[current].files \in Batches /\ Len(jobs[current].results) \in Nat
    BY <1>2 DEF JobRecords
  <2>. QED  BY <1>2, <2>1, BatchFiles DEF NextFile
<1>4. /\ UNCHANGED <<records, saved, unmatched, reread, pending, rules, outdated,
                     born, besides, kept, setBack, untold, rereads, crashes, jobs>>
      /\ StaleProposalsAreUntold' /\ RecordsSafe
      /\ rules' \in [Types -> SUBSET Standings]
  BY RulesUntouched DEF retry, Safe, LibrarySafe, RecordsSafe, Made, LibraryTypeOK
<1>5. RecordsSafe' /\ Started
  BY <1>1, <1>3, <1>4, StartSafe DEF retry
<1>6. QueueSafe'
  BY <1>1, <1>4, <1>5 DEF Safe, QueueSafe, Started, ResultsFit, Ordered, AllCompleted
<1>. QED  BY <1>4, <1>5, <1>6 DEF Safe, LibrarySafe

(***************************************************************************)
(* The result is noted: the job goes on, the next one starts, or none is   *)
(* left.                                                                   *)
(***************************************************************************)
LEMMA NextSafe ==
    ASSUME Safe, processNext
    PROVE  Safe'
<1>1. /\ worker.pc = "answered" /\ worker.result \in Results
      /\ calls[Worker] = NoCall /\ ~AllCompleted(jobs) /\ RecordsSafe
      /\ jobs \in Seq(JobRecords) /\ Len(jobs) \in Nat /\ DOMAIN jobs = 1 .. Len(jobs)
      /\ ResultsFit(jobs) /\ Ordered(jobs)
  BY DEF Safe, LibrarySafe, QueueSafe, processNext, WorkerStates
<1>2. PICK n \in DOMAIN jobs : n = current
  BY <1>1, CurrentJob DEF Safe
<1>3. /\ jobs[n].status = "processing" /\ jobs[n] \in JobRecords
      /\ \A m \in DOMAIN jobs : m < n => jobs[m].status = "completed"
      /\ \A m \in DOMAIN jobs : n < m => jobs[m].status = "queued"
  BY <1>1, <1>2, CurrentJob DEF Safe
<1>. DEFINE results == Append(jobs[n].results, worker.result)
            done == Len(results) = Len(jobs[n].files)
            status == IF done THEN "completed" ELSE "processing"
            noted == [jobs EXCEPT ![n].results = results, ![n].status = status]
            x == [jobs[n] EXCEPT !.results = results, !.status = status]
            waiting == {m \in DOMAIN jobs : jobs[m].status = "queued"}
            next == CHOOSE m \in waiting : \A k \in waiting : m <= k
<1>4. /\ jobs[n].files \in Batches /\ Len(jobs[n].results) \in Nat
      /\ results \in Seq(Results) /\ Len(results) = Len(jobs[n].results) + 1
      /\ Len(results) <= Len(jobs[n].files) /\ Len(jobs[n].files) \in Nat
  <2>1. /\ jobs[n].files \in Batches /\ jobs[n].results \in Seq(Results)
        /\ Len(jobs[n].results) < Len(jobs[n].files)
    BY <1>1, <1>3 DEF JobRecords, ResultsFit
  <2>2. Len(jobs[n].files) \in Nat /\ Len(jobs[n].results) \in Nat
    BY <2>1, BatchFiles
  <2>. QED  BY <1>1, <2>1, <2>2, AppendProperties
<1>5. /\ x \in JobRecords
      /\ x.status = status /\ x.results = results /\ x.files = jobs[n].files
  <2>. HIDE DEF results
  <2>1. status \in {"queued", "processing", "completed"}
    OBVIOUS
  <2>. HIDE DEF status
  <2>. QED  BY <1>3, <1>4, <2>1 DEF JobRecords
<1>6. noted = [jobs EXCEPT ![n] = x]
  <2>. HIDE DEF results, status
  <2>. QED  BY <1>1
<1>7. /\ noted \in Seq(JobRecords) /\ DOMAIN noted = 1 .. Len(jobs)
      /\ noted[n] = x /\ \A m \in DOMAIN jobs : m # n => noted[m] = jobs[m]
  <2>. HIDE DEF noted, x
  <2>. QED  BY <1>1, <1>5, <1>6
<1>8. /\ x.status = status /\ x.results = results /\ x.files = jobs[n].files
  BY <1>5
<1>9. /\ IF ~done
         THEN jobs' = noted /\ startFile(jobs[n].files[Len(results) + 1], 1)
         ELSE IF waiting # {}
         THEN /\ jobs' = [noted EXCEPT ![next].status = "processing"]
              /\ startFile(jobs[next].files[1], 1)
         ELSE jobs' = noted /\ worker' = Idle /\ UNCHANGED calls
      /\ Regenerate(IF done THEN affectedAssetTypes(results) ELSE {}, Enough)
      /\ UNCHANGED <<records, saved, unmatched, reread, pending, born,
                     besides, kept, setBack, rereads, crashes>>
  BY <1>2 DEF processNext, postIngestionIntelligenceUpdate
<1>. HIDE DEF results, noted, x, waiting, next
<1>10. /\ outdated' \subseteq outdated /\ untold' \subseteq untold
       /\ rules' \in [Types -> SUBSET Standings]
  BY <1>9 DEF Regenerate, Safe, LibrarySafe, RecordsSafe, Made, LibraryTypeOK,
     Standings
<1>11. StaleProposalsAreUntold'
  <2>. DEFINE types == IF done THEN affectedAssetTypes(results) ELSE {}
  <2>1. /\ \A t \in Types : Cardinality(qualifyingDeals(records, t)) \in Nat
        /\ outdated \subseteq Types /\ Enough \in Nat /\ Enough <= Enough
        /\ StaleProposalsAreUntold
    BY DealsAreCounted, LibraryAssumption
       DEF Safe, LibrarySafe, RecordsSafe, Made, LibraryTypeOK
  <2>2. Regenerate(types, Enough) /\ UNCHANGED records /\ pending \ types \subseteq pending'
    BY <1>9
  <2>. HIDE DEF types
  <2>. QED  BY <2>1, <2>2, RegenerateStep
<1>12. 1 \in 1 .. MaxAttempts
  BY BatchAssumption
<1>13. CASE ~done
  <2>1. jobs[n].files[Len(results) + 1] \in Files
    BY <1>4, <1>13, BatchFiles
  <2>2. RecordsSafe' /\ Started
    BY <1>1, <1>9, <1>10, <1>12, <1>13, <2>1, StartSafe
  <2>3. jobs' = noted
    BY <1>9, <1>13
  <2>6. x.status = "processing" /\ Len(x.results) < Len(x.files)
    BY <1>4, <1>8, <1>13
  <2>7. ResultsFit(noted)
    BY <1>1, <1>7, <2>6 DEF ResultsFit
  <2>8. Ordered(noted) /\ ~AllCompleted(noted)
    <3>1. noted[n].status = "processing" /\ n \in DOMAIN noted /\ DOMAIN noted = DOMAIN jobs
      BY <1>1, <1>7, <2>6
    <3>2. \A m \in DOMAIN jobs : noted[m].status = jobs[m].status
      BY <1>3, <1>7, <2>6
    <3>. QED  BY <1>1, <3>1, <3>2 DEF Ordered, AllCompleted
  <2>4. ResultsFit(noted) /\ Ordered(noted) /\ ~AllCompleted(noted)
    BY <2>7, <2>8
  <2>5. QueueSafe'
    BY <1>7, <2>2, <2>3, <2>4 DEF QueueSafe, Started, ResultsFit, Ordered, AllCompleted
  <2>. QED  BY <1>11, <2>2, <2>5 DEF Safe, LibrarySafe
<1>14. CASE done /\ waiting # {}
  <2>1. PICK m \in DOMAIN jobs : m = n + 1
    BY <1>1, <1>3, <1>14 DEF waiting
  <2>2. m \in waiting /\ \A k \in waiting : m <= k
    BY <1>1, <1>3, <2>1 DEF waiting
  <2>3. next = m
    BY <1>1, <2>2 DEF next, waiting
  <2>4. jobs[m].status = "queued" /\ jobs[m].results = <<>> /\ jobs[m] \in JobRecords
        /\ jobs[m].files \in Batches /\ m # n
    <3>1. jobs[m].status = "queued" /\ m # n
      BY <1>1, <2>1, <2>2 DEF waiting
    <3>2. jobs[m] \in JobRecords
      BY <1>1
    <3>. QED  BY <1>1, <3>1, <3>2 DEF ResultsFit, JobRecords
  <2>5. RecordsSafe' /\ Started
    <3>1. jobs[m].files[1] \in Files
      BY <2>4, BatchFiles
    <3>. QED  BY <1>1, <1>9, <1>10, <1>12, <1>14, <2>3, <3>1, StartSafe
  <2>. DEFINE y == [jobs[m] EXCEPT !.status = "processing"]
  <2>6. /\ y \in JobRecords /\ y.status = "processing" /\ y.results = <<>>
        /\ y.files = jobs[m].files
    BY <2>4 DEF JobRecords
  <2>7. jobs' = [noted EXCEPT ![m] = y]
    BY <1>7, <1>9, <1>14, <2>3, <2>4
  <2>. HIDE DEF y
  <2>8. /\ jobs' \in Seq(JobRecords) /\ DOMAIN jobs' = 1 .. Len(jobs)
        /\ jobs'[n] = x /\ jobs'[m] = y
        /\ \A k \in DOMAIN jobs : k # n /\ k # m => jobs'[k] = jobs[k]
    BY <1>1, <1>7, <2>4, <2>6, <2>7
  <2>9. ResultsFit(jobs')
    <3>1. Len(<<>>) = 0 /\ Len(y.files) >= 1 /\ Len(y.files) \in Nat
      BY <2>4, <2>6, BatchFiles
    <3>2. x.status = "completed" /\ Len(x.results) = Len(x.files)
      BY <1>8, <1>14
    <3>3. Len(y.results) < Len(y.files)
      BY <2>6, <3>1
    <3>. QED  BY <1>1, <2>6, <2>8, <3>2, <3>3 DEF ResultsFit
  <2>10. Ordered(jobs') /\ ~AllCompleted(jobs')
    <3>1. jobs'[n].status = "completed" /\ jobs'[m].status = "processing"
      BY <1>8, <1>14, <2>6, <2>8
    <3>2. \A k \in DOMAIN jobs : k < m => jobs'[k].status = "completed"
      BY <1>1, <1>3, <2>1, <2>8, <3>1
    <3>3. \A k \in DOMAIN jobs : m < k => jobs'[k].status = "queued"
      BY <1>1, <1>3, <2>1, <2>8
    <3>4. DOMAIN jobs' = DOMAIN jobs /\ \A k \in DOMAIN jobs : k \in Nat
      BY <1>1, <2>8
    <3>. QED  BY <3>1, <3>2, <3>3, <3>4 DEF Ordered, AllCompleted
  <2>11. QueueSafe'
    BY <2>5, <2>8, <2>9, <2>10 DEF QueueSafe, Started, ResultsFit, Ordered, AllCompleted
  <2>. QED  BY <1>11, <2>5, <2>11 DEF Safe, LibrarySafe
<1>15. CASE done /\ waiting = {}
  <2>1. jobs' = noted /\ worker' = Idle /\ UNCHANGED calls
    BY <1>9, <1>15
  <2>2. RecordsSafe'
    BY <1>1, <1>9, <1>10, <2>1 DEF RecordsSafe, Made, LibraryTypeOK, KeptStaysOnRecord,
       ToldIn, LiveIsPresent, OverlapsIn, Excused, OneIsBeside, AutoIsUnseen,
       Unseen, Present
  <2>3. AllCompleted(noted)
    BY <1>1, <1>3, <1>7, <1>8, <1>15 DEF AllCompleted, waiting
  <2>4. ResultsFit(noted) /\ Ordered(noted)
    BY <1>1, <1>3, <1>4, <1>7, <1>8, <1>15, <2>3 DEF ResultsFit, Ordered, AllCompleted
  <2>5. worker' \in WorkerStates /\ worker'.pc = "idle"
    BY <2>1, WorkerTyped DEF Idle
  <2>6. QueueSafe'
    BY <1>1, <1>7, <2>1, <2>3, <2>4, <2>5
       DEF QueueSafe, ResultsFit, Ordered, AllCompleted
  <2>. QED  BY <1>11, <2>2, <2>6 DEF Safe, LibrarySafe
<1>. QED  BY <1>13, <1>14, <1>15

(***************************************************************************)
(* What requests do, and deaths.                                           *)
(***************************************************************************)
LEMMA OthersSafe ==
    ASSUME Safe, LibrarySafe', UNCHANGED queueVars, calls'[Worker] = calls[Worker]
    PROVE  Safe'
BY DEF Safe, QueueSafe, ResultsFit, Ordered, AllCompleted, queueVars

LEMMA RequestSafe ==
    ASSUME Safe, Request, UNCHANGED queueVars
    PROVE  Safe'
<1>1. CASE \E c \in Callers \ {Worker} : Ingest(c)
  <2>1. PICK c \in Callers \ {Worker} : Ingest(c)
    BY <1>1
  <2>2. LibrarySafe'
    BY <2>1, IngestSafe DEF Safe
  <2>3. calls'[Worker] = calls[Worker]
    BY <2>1, BatchAssumption DEF Ingest, ingestUnderwriting, ingestAutoClassified,
       Wait, Begin, insert, add, skip, throw, Leave, Safe, LibrarySafe, RecordsSafe,
       Made, LibraryTypeOK
  <2>. QED  BY <2>2, <2>3, OthersSafe
<1>2. CASE Curate
  <2>1. LibrarySafe'
    BY <1>2, CurateSafe DEF Safe
  <2>2. UNCHANGED calls
    BY <1>2 DEF Curate, updateHistoricalUW, applyOutcomeMatch, linkUnmatchedOutcome,
       setNarratives, deleteHistoricalUW, ingestDealOutcomes, deleteUnmatchedOutcome,
       generateRulesFromPatterns, updateLearnedRule, deleteLearnedRule, Rule,
       reExtractAllNarratives, backgroundRuleUpdate
  <2>. QED  BY <2>1, <2>2, OthersSafe
<1>. QED  BY <1>1, <1>2 DEF Request

LEMMA ForgetSafe ==
    ASSUME Safe, Die, ForgetJobs
    PROVE  Safe'
<1>1. LibrarySafe'
  BY DieSafe DEF Safe
<1>2. calls'[Worker] = NoCall
  BY BatchAssumption DEF Die, Restart, RestartTorn, RestartLinking, Reload
<1>3. /\ jobs' = <<>> /\ worker' = Idle /\ Idle.pc = "idle" /\ worker' \in WorkerStates
      /\ jobs' \in Seq(JobRecords) /\ DOMAIN jobs' = {}
  BY WorkerTyped DEF ForgetJobs, Idle
<1>4. QueueSafe'
  BY <1>2, <1>3 DEF QueueSafe, ResultsFit, Ordered, AllCompleted
<1>. QED  BY <1>1, <1>4 DEF Safe

-----------------------------------------------------------------------------
(***************************************************************************)
(* The invariant holds at all times.                                       *)
(***************************************************************************)
THEOREM BatchInvariant == Spec => []Safe
<1>1. Init => Safe
  <2>. SUFFICES ASSUME Init PROVE Safe
    OBVIOUS
  <2>1. LibrarySafe
    BY InitSafe DEF Init
  <2>2. /\ jobs = <<>> /\ worker = Idle /\ Idle.pc = "idle" /\ worker \in WorkerStates
        /\ jobs \in Seq(JobRecords) /\ DOMAIN jobs = {} /\ calls[Worker] = NoCall
    BY WorkerTyped, BatchAssumption DEF Init, LibraryInit, Idle
  <2>3. QueueSafe
    BY <2>2 DEF QueueSafe, ResultsFit, Ordered, AllCompleted
  <2>. QED  BY <2>1, <2>3 DEF Safe
<1>2. Safe /\ [Next]_vars => Safe'
  <2>. SUFFICES ASSUME Safe, [Next]_vars PROVE Safe'
    OBVIOUS
  <2>1. CASE \E files \in Batches : enqueue(files)
    BY <2>1, EnqueueSafe
  <2>2. CASE Work
    BY <2>2, SucceedSafe, SkipSafe, FailSafe, RetrySafe, NextSafe DEF Work
  <2>3. CASE Request /\ UNCHANGED queueVars
    BY <2>3, RequestSafe
  <2>4. CASE Die /\ ForgetJobs
    BY <2>4, ForgetSafe
  <2>5. CASE UNCHANGED vars
    <3>1. LibrarySafe' /\ UNCHANGED queueVars /\ UNCHANGED calls
      BY <2>5, StutterSafe DEF vars, libraryVars, Safe
    <3>. QED  BY <3>1, OthersSafe
  <2>. QED  BY <2>1, <2>2, <2>3, <2>4, <2>5 DEF Next
<1>. QED  BY <1>1, <1>2, PTL DEF Spec

(***************************************************************************)
(* The state is well formed and jobs are worked on in the order of their   *)
(* uploads, one at a time, each to its last file.                          *)
(***************************************************************************)
THEOREM JobsOrdered == Spec => []JobsInOrder
<1>1. Safe => JobsInOrder
  <2>. SUFFICES ASSUME Safe PROVE JobsInOrder
    OBVIOUS
  <2>1. \A n \in DOMAIN jobs : jobs[n] \in JobRecords
    BY DEF Safe, QueueSafe
  <2>2. TypeOK
    BY <2>1 DEF TypeOK, Safe, LibrarySafe, RecordsSafe, Made, QueueSafe,
       WorkerStates, JobRecords
  <2>3. \A n \in DOMAIN jobs :
          /\ jobs[n].status = "completed" <=>
               Len(jobs[n].results) = Len(jobs[n].files)
          /\ jobs[n].status = "queued" => jobs[n].results = <<>>
    <3>. SUFFICES ASSUME NEW n \in DOMAIN jobs
                  PROVE  /\ jobs[n].status = "completed" <=>
                              Len(jobs[n].results) = Len(jobs[n].files)
                         /\ jobs[n].status = "queued" => jobs[n].results = <<>>
      OBVIOUS
    <3>1. /\ jobs[n].files \in Batches /\ Len(jobs[n].results) \in Nat
          /\ jobs[n].status \in {"queued", "processing", "completed"}
      BY <2>1 DEF JobRecords
    <3>2. Len(jobs[n].files) \in Nat /\ Len(jobs[n].files) >= 1 /\ Len(<<>>) = 0
      BY <3>1, BatchFiles
    <3>. QED  BY <3>1, <3>2 DEF Safe, QueueSafe, ResultsFit
  <2>. QED  BY <2>2, <2>3 DEF JobsInOrder, Safe, QueueSafe, Ordered, AllCompleted
<1>. QED  BY <1>1, BatchInvariant, PTL

(***************************************************************************)
(* Beside the queue, too, a file is in the library twice only by           *)
(* overlapping ingestions of it, or by a re-extraction.                    *)
(***************************************************************************)
THEOREM BatchDuplicatesOverlap == Spec => []DuplicatesAreOverlaps
BY BatchInvariant, SafeImplies, PTL DEF Safe

=============================================================================
