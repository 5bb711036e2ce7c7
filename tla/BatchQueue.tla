------------------------------ MODULE BatchQueue ------------------------------
(***************************************************************************)
(* The queue of batches of historical underwritings                        *)
(* (services/batch-queue.service.ts) over the library they go into: one    *)
(* worker takes the jobs in order and the files of a job in order, tries a *)
(* file again when the model's service is overloaded, and recomputes the   *)
(* rules when a job is done.  Jobs are kept in memory only.                *)
(***************************************************************************)
EXTENDS UwLibrary, Sequences

CONSTANTS
    Worker,       \* the caller that the queue is
    Batches,      \* uploads: sequences of files
    MaxAttempts,  \* maxRetries
    NoType,
    MaxJobs       \* bound

ASSUME BatchAssumption ==
    /\ Worker \in Callers /\ NoType \notin Types
    /\ Batches \subseteq Seq(Files) \ {<<>>}
    /\ MaxAttempts \in Nat \ {0} /\ MaxJobs \in Nat

VARIABLES
    jobs,     \* batchJobs, in the order of their uploads
    worker    \* where processNext and processFileWithRetry are

queueVars == <<jobs, worker>>

vars == <<libraryVars, queueVars>>

-----------------------------------------------------------------------------
Results ==
    [status : {"success", "skipped", "error"}, type : Types \cup {NoType}]

Success(t) == [status |-> "success", type |-> t]

Skipped == [status |-> "skipped", type |-> NoType]

Failed == [status |-> "error", type |-> NoType]

(***************************************************************************)
(* The worker has no job, waits in an ingestion, waits before it tries     *)
(* again, or has the answer for the file it is at.                         *)
(***************************************************************************)
Idle == [pc |-> "idle", attempt |-> 1, result |-> Failed]

At(pc, attempt) == [pc |-> pc, attempt |-> attempt, result |-> Failed]

Answered(result) == [pc |-> "answered", attempt |-> 1, result |-> result]

Now == {n \in DOMAIN jobs : jobs[n].status = "processing"}

current == CHOOSE n \in Now : TRUE

NextFile(n) == jobs[n].files[Len(jobs[n].results) + 1]

Job(files, status) ==
    [files |-> files, status |-> status, results |-> <<>>]

affectedAssetTypes(results) ==
    {results[k].type : k \in DOMAIN results} \ {NoType}

-----------------------------------------------------------------------------
Init == LibraryInit /\ jobs = <<>> /\ worker = Idle

(***************************************************************************)
(* The hash is looked for at once; a file that is there needs no model.    *)
(***************************************************************************)
startFile(f, attempt) ==
    \/ /\ exactDuplicates(f) = {}
       /\ Begin(Worker, "auto", f)
       /\ worker' = At("asking", attempt)
    \/ /\ exactDuplicates(f) # {}
       /\ worker' = Answered(Skipped)
       /\ UNCHANGED calls

\* A faulty variant: the job starts beside the one that is processed.
enqueueUnguarded(files) ==
    /\ Len(jobs) < MaxJobs /\ calls[Worker] = NoCall
    /\ jobs' = Append(jobs, Job(files, "processing"))
    /\ startFile(files[1], 1)
    /\ UNCHANGED <<records, saved, unmatched, reread, pending, rules, outdated,
                   born, besides, kept, setBack, untold, rereads, crashes>>

enqueue(files) ==
    /\ Len(jobs) < MaxJobs
    /\ IF Now = {}
       THEN /\ jobs' = Append(jobs, Job(files, "processing"))
            /\ startFile(files[1], 1)
       ELSE /\ jobs' = Append(jobs, Job(files, "queued"))
            /\ UNCHANGED <<worker, calls>>
    /\ UNCHANGED <<records, saved, unmatched, reread, pending, rules, outdated,
                   born, besides, kept, setBack, untold, rereads, crashes>>

(***************************************************************************)
(* The ingestion that the worker waits in ends.  Overload is tried again,  *)
(* MaxAttempts times in all; every other error fails the file.             *)
(***************************************************************************)
succeed(t, label) ==
    /\ insert(Worker, t, label)
    /\ worker' = Answered(Success(t))
    /\ UNCHANGED jobs

skipProbable ==
    /\ skip(Worker)
    /\ worker' = Answered(Skipped)
    /\ UNCHANGED jobs

fail ==
    /\ throw(Worker)
    /\ \/ worker' = Answered(Failed)
       \/ /\ worker.attempt < MaxAttempts
          /\ worker' = At("backoff", worker.attempt)
    /\ UNCHANGED jobs

retry ==
    /\ worker.pc = "backoff"
    /\ startFile(NextFile(current), worker.attempt + 1)
    /\ UNCHANGED <<records, saved, unmatched, reread, pending, rules, outdated,
                   born, besides, kept, setBack, untold, rereads, crashes, jobs>>

(***************************************************************************)
(* The result is noted.  Then comes the next file; after the last one the  *)
(* rules of the types that got records, and the next job.                  *)
(***************************************************************************)
\* A faulty variant: the queue is not looked at when a job is done.
processOne ==
    LET results == Append(jobs[current].results, worker.result)
        done == Len(results) = Len(jobs[current].files)
    IN  /\ worker.pc = "answered"
        /\ jobs' = [jobs EXCEPT
             ![current].results = results,
             ![current].status = IF done THEN "completed" ELSE "processing"]
        /\ IF done THEN worker' = Idle /\ UNCHANGED calls
                   ELSE startFile(jobs[current].files[Len(results) + 1], 1)
        /\ postIngestionIntelligenceUpdate(
             IF done THEN affectedAssetTypes(results) ELSE {})
        /\ UNCHANGED <<records, saved, unmatched, reread, pending, born,
                       besides, kept, setBack, rereads, crashes>>

processNext ==
    LET results == Append(jobs[current].results, worker.result)
        done == Len(results) = Len(jobs[current].files)
        waiting == {n \in DOMAIN jobs : jobs[n].status = "queued"}
        next == CHOOSE n \in waiting : \A m \in waiting : n <= m
        noted == [jobs EXCEPT
          ![current].results = results,
          ![current].status = IF done THEN "completed" ELSE "processing"]
    IN  /\ worker.pc = "answered"
        /\ IF ~done
           THEN /\ jobs' = noted
                /\ startFile(jobs[current].files[Len(results) + 1], 1)
           ELSE IF waiting # {}
           THEN /\ jobs' = [noted EXCEPT ![next].status = "processing"]
                /\ startFile(jobs[next].files[1], 1)
           ELSE /\ jobs' = noted
                /\ worker' = Idle /\ UNCHANGED calls
        /\ postIngestionIntelligenceUpdate(
             IF done THEN affectedAssetTypes(results) ELSE {})
        /\ UNCHANGED <<records, saved, unmatched, reread, pending, born,
                       besides, kept, setBack, rereads, crashes>>

(***************************************************************************)
(* A restart has no jobs.                                                  *)
(***************************************************************************)
ForgetJobs == jobs' = <<>> /\ worker' = Idle

Work ==
    \/ \E t \in Types, label \in Labels : succeed(t, label)
    \/ skipProbable
    \/ fail
    \/ retry
    \/ processNext

Request ==
    \/ \E c \in Callers \ {Worker} : Ingest(c)
    \/ Curate

Next ==
    \/ \E files \in Batches : enqueue(files)
    \/ Work
    \/ Request /\ UNCHANGED queueVars
    \/ Die /\ ForgetJobs

Spec == Init /\ [][Next]_vars

(***************************************************************************)
(* The service answers or refuses in the end: the client gives up after a  *)
(* timeout of its own.                                                     *)
(***************************************************************************)
FairSpec == Spec /\ WF_vars(Work)

-----------------------------------------------------------------------------
(***************************************************************************)
(* The type of the state.                                                  *)
(***************************************************************************)
TypeOK ==
    /\ LibraryTypeOK
    /\ worker \in [pc : {"idle", "asking", "backoff", "answered"},
                   attempt : 1 .. MaxAttempts, result : Results]
    /\ \A n \in DOMAIN jobs :
         /\ jobs[n].files \in Batches
         /\ jobs[n].status \in {"queued", "processing", "completed"}
         /\ jobs[n].results \in Seq(Results)

(***************************************************************************)
(* The state is well formed, and jobs are worked on in the order of their  *)
(* uploads, one at a time and from the first file to the last: a job has   *)
(* all its results exactly when it is completed, none before its turn, and *)
(* the worker is in an ingestion exactly when the job it is at needs one.  *)
(***************************************************************************)
JobsInOrder ==
    /\ TypeOK
    /\ \A n, m \in DOMAIN jobs : n < m /\ jobs[n].status # "completed" =>
         jobs[m].status = "queued"
    /\ \A n \in DOMAIN jobs :
         /\ jobs[n].status = "completed" <=>
              Len(jobs[n].results) = Len(jobs[n].files)
         /\ jobs[n].status = "queued" => jobs[n].results = <<>>
    /\ worker.pc = "idle" <=>
         \A n \in DOMAIN jobs : jobs[n].status = "completed"
    /\ worker.pc = "asking" <=> calls[Worker] # NoCall

(***************************************************************************)
(* A batch that was accepted is completed, however many of its files fail, *)
(* unless the process is restarted first.                                  *)
(***************************************************************************)
EveryBatchCompletes ==
    \A n \in 1 .. MaxJobs :
      n \in DOMAIN jobs ~>
        n \notin DOMAIN jobs \/ jobs[n].status = "completed"

=============================================================================
