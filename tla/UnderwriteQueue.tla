--------------------------- MODULE UnderwriteQueue ---------------------------
(***************************************************************************)
(* The durable underwrite queue of the API server: the underwrite_job      *)
(* table, the enqueue triggers that write to it, and the single in-process *)
(* drain that works it off.                                                *)
(*                                                                         *)
(* The server is one JavaScript thread.  Code between two awaits runs to   *)
(* its end before any other handler runs, so such a section is interrupted *)
(* only by the death of the process.  There are two of them here: a        *)
(* request's fan-out (one INSERT per loan, then the kick) and the drain's  *)
(* stretch from one marked job to the first await of the next.  Each SQL   *)
(* statement in them is a step, so that a crash may fall between any two,  *)
(* and Quiet keeps every other handler out.                                *)
(***************************************************************************)
EXTENDS Naturals, Sequences, FiniteSets

CONSTANTS
    Loans,       \* loans of the pool
    Docs,        \* documents, one per doc type (the choice among the versions
                 \* of a type, by pin and date, is left out)
    AsrDocs,     \* those filed as 'asr'
    IncomeDocs,  \* those filed as 'cf' or 't12'
    IngestDocs,  \* those of an ingesting tier, which a run reads ('t12' is not)
    MaxJobs,     \* bound: rows of the job table
    MaxPosts,    \* bound: parents that a loan's open appends have read
    MaxCrashes,  \* bound: process deaths
    MaxFaults    \* bound: statements of the drain that the database refuses

ASSUME DocsAssumption ==
    /\ AsrDocs \subseteq IngestDocs
    /\ IngestDocs \subseteq Docs
    /\ IncomeDocs \subseteq Docs

ASSUME BoundsAssumption ==
    MaxJobs \in Nat /\ MaxPosts \in Nat /\ MaxCrashes \in Nat /\ MaxFaults \in Nat

VARIABLES
    docs,     \* docs[l]: what the data room has filed under loan l
    jobs,     \* the underwrite_job rows, in order of insertion
    head,     \* head[l]: the run that loan l's verdict rests on, 0 before any
    posts,    \* posts[l]: the heads that open appends to l's deal have read
    setBack,  \* loans whose verdict an append took back behind a run
    minted,   \* minted[l]: revisions the runs of loan l have committed
    drain,    \* the in-process drain: where it is, on which row
    fan,      \* the request handler in its synchronous fan-out
    up,       \* the process is alive
    crashes, faults

deal == <<head, posts, setBack>>
vars == <<docs, jobs, deal, minted, drain, fan, up, crashes, faults>>

(***************************************************************************)
(* Rows.  created is the row's created_at, to the millisecond: rows of one *)
(* request, or of two close requests, may tie.                             *)
(***************************************************************************)
States == {"pending", "running", "done", "partial", "failed", "interrupted"}
ACTIVE_STATES == {"pending", "running"}

Job == [loan : Loans, state : States, created : Nat]

JobIds == 1 .. Len(jobs)

JobsOf(l) == {j \in JobIds : jobs[j].loan = l}
Pending == {j \in JobIds : jobs[j].state = "pending"}
Running == {j \in JobIds : jobs[j].state = "running"}

\* A faulty variant: a running job does not count as active.
getActiveForLoanPendingOnly(l) == {j \in JobsOf(l) : jobs[j].state = "pending"}

getActiveForLoan(l) == {j \in JobsOf(l) : jobs[j].state \in ACTIVE_STATES}

(***************************************************************************)
(* The drain is "idle" (no promise in the in-flight guard), or in its      *)
(* synchronous stretch ("claim", "start", and "leaving": its promise has   *)
(* settled and the guard is still set), or awaiting underwriteLoan: the    *)
(* extraction ("working"), then the revision is committed ("minted"), then *)
(* the deal's head points at it ("promoted").                              *)
(***************************************************************************)
Idle == [at |-> "idle", job |-> 0]
Claiming == [at |-> "claim", job |-> 0]
Leaving == [at |-> "leaving", job |-> 0]
SyncPoints == {"claim", "start", "leaving"}
AwaitPoints == {"working", "minted", "promoted"}
BusyPoints == {"start"} \cup AwaitPoints

NoFan == [open |-> FALSE, todo |-> {}, kick |-> FALSE]

\* A faulty variant: requests are served between the drain's last look at
\* the queue and the clearing of its guard.
QuietOrLeaving == up /\ ~fan.open /\ drain.at \notin {"claim", "start"}

Quiet == up /\ ~fan.open /\ drain.at \notin SyncPoints

(***************************************************************************)
(* evaluateUnderwriteReadiness: an ASR and one income document, by         *)
(* presence alone.  gatherTierADocs: what a run will read.                 *)
(***************************************************************************)
Ready(S) == S \cap AsrDocs # {} /\ S \cap IncomeDocs # {}
Ingestable(S) == S \cap IngestDocs

-----------------------------------------------------------------------------

Init ==
    /\ docs = [l \in Loans |-> {}]
    /\ jobs = <<>>
    /\ head = [l \in Loans |-> 0]
    /\ posts = [l \in Loans |-> {}]
    /\ setBack = {}
    /\ minted = [l \in Loans |-> 0]
    /\ drain = Idle
    /\ fan = NoFan
    /\ up = TRUE
    /\ crashes = 0
    /\ faults = 0

(***************************************************************************)
(* The triggers.  Each starts a fan-out over the loans to enqueue; the     *)
(* bound keeps the fan-out inside the job table.                           *)
(***************************************************************************)
StartFan(todo, kick) ==
    /\ Len(jobs) + Cardinality(todo) <= MaxJobs
    /\ fan' = [open |-> TRUE, todo |-> todo, kick |-> kick]

(***************************************************************************)
(* File one more document under each of some loans: files of a batch are   *)
(* assigned, or a held file is identified (one loan).  When that settles   *)
(* the batch (always so for a held file), the loans that are ready now are *)
(* enqueued; files of a batch still waiting for others enqueue nothing.    *)
(* Filing the same content again at its address changes nothing in docs.   *)
(***************************************************************************)
File(new, settled) ==
    /\ Quiet
    /\ docs' = [l \in Loans |-> IF l \in DOMAIN new THEN docs[l] \cup {new[l]}
                                                    ELSE docs[l]]
    /\ StartFan({l \in DOMAIN new : settled /\ Ready(docs'[l])}, FALSE)
    /\ UNCHANGED <<jobs, deal, minted, drain, up, crashes, faults>>

(***************************************************************************)
(* Move a filed document to another address, or leave it where it is.      *)
(* Only the target loan is evaluated again; the loan that lost the         *)
(* document is left alone.                                                 *)
(***************************************************************************)
Reclassify(from, d, to, e) ==
    /\ Quiet
    /\ d \in docs[from]
    /\ docs' = [l \in Loans |-> (IF l = from THEN docs[l] \ {d} ELSE docs[l])
                                \cup (IF l = to THEN {e} ELSE {})]
    /\ StartFan({l \in {to} : Ready(docs'[l])}, FALSE)
    /\ UNCHANGED <<jobs, deal, minted, drain, up, crashes, faults>>

(***************************************************************************)
(* POST underwrite: gated by readiness unless forced, and it kicks the     *)
(* drain even when the loan's job already exists.                          *)
(***************************************************************************)
Underwrite(l, force) ==
    /\ Quiet
    /\ force \/ Ready(docs[l])
    /\ StartFan({l}, TRUE)
    /\ UNCHANGED <<docs, jobs, deal, minted, drain, up, crashes, faults>>

(***************************************************************************)
(* enqueue: one active job per loan.  created_at is the clock's reading,   *)
(* which may not have advanced since the last row.                         *)
(***************************************************************************)
enqueue(l) ==
    /\ up /\ fan.open /\ l \in fan.todo
    /\ IF getActiveForLoan(l) # {}
       THEN /\ UNCHANGED jobs
            /\ fan' = [fan EXCEPT !.todo = @ \ {l}]
       ELSE LET last == IF jobs = <<>> THEN 0 ELSE jobs[Len(jobs)].created
            IN /\ \E now \in {last, last + 1} :
                    jobs' = Append(jobs, [loan |-> l, state |-> "pending", created |-> now])
               /\ fan' = [fan EXCEPT !.todo = @ \ {l}, !.kick = TRUE]
    /\ UNCHANGED <<docs, deal, minted, drain, up, crashes, faults>>

(***************************************************************************)
(* kickUnderwriteDrain, and the handler returns.  A kick while a drain is  *)
(* in flight is absorbed by it.                                            *)
(***************************************************************************)
kick ==
    /\ up /\ fan.open /\ fan.todo = {}
    /\ drain' = IF fan.kick /\ drain.at = "idle" THEN Claiming ELSE drain
    /\ fan' = NoFan
    /\ UNCHANGED <<docs, jobs, deal, minted, up, crashes, faults>>

-----------------------------------------------------------------------------

\* A faulty variant: no order among the pending rows.
AnyPending == Pending

(***************************************************************************)
(* claimNext: the oldest pending row, ties broken by the random id.        *)
(***************************************************************************)
Oldest == {j \in Pending : \A k \in Pending : jobs[j].created <= jobs[k].created}

claimNext ==
    /\ up /\ ~fan.open /\ drain.at = "claim"
    /\ \E j \in Oldest :
         /\ jobs' = [jobs EXCEPT ![j].state = "running"]
         /\ drain' = [at |-> "start", job |-> j]
    /\ UNCHANGED <<docs, deal, minted, fan, up, crashes, faults>>

(***************************************************************************)
(* claimNext finds no row: the loop ends and the drain's promise resolves. *)
(***************************************************************************)
foundEmpty ==
    /\ up /\ ~fan.open /\ drain.at = "claim"
    /\ Pending = {}
    /\ drain' = Leaving
    /\ UNCHANGED <<docs, jobs, deal, minted, fan, up, crashes, faults>>

(***************************************************************************)
(* The guard clears once the promise has settled, in a microtask, before   *)
(* any other handler runs.                                                 *)
(***************************************************************************)
Drained ==
    /\ up /\ drain.at = "leaving"
    /\ drain' = Idle
    /\ UNCHANGED <<docs, jobs, deal, minted, fan, up, crashes, faults>>

\* A faulty variant: a row ends in a state that the table does not list.
markUnlistedState(state) ==
    /\ jobs' = [jobs EXCEPT ![drain.job].state = "complete"]
    /\ drain' = Claiming

(***************************************************************************)
(* The claimed row becomes terminal and the drain goes on to the next.     *)
(***************************************************************************)
mark(state) ==
    /\ jobs' = [jobs EXCEPT ![drain.job].state = state]
    /\ drain' = Claiming

(***************************************************************************)
(* underwriteLoan, up to its first await: it gathers the loan's documents  *)
(* of the ingesting tier.  With none, the job fails.                       *)
(***************************************************************************)
gatherTierADocs ==
    /\ up /\ drain.at = "start"
    /\ LET found == Ingestable(docs[jobs[drain.job].loan])
       IN IF found = {}
          THEN mark("failed")
          ELSE drain' = [drain EXCEPT !.at = "working"] /\ UNCHANGED jobs
    /\ UNCHANGED <<docs, deal, minted, fan, up, crashes, faults>>

(***************************************************************************)
(* The ingest commits a root or child revision; then, in a statement of    *)
(* its own, the deal's head moves to it.                                   *)
(***************************************************************************)
ingest ==
    /\ Quiet /\ drain.at = "working"
    /\ minted' = [minted EXCEPT ![jobs[drain.job].loan] = @ + 1]
    /\ drain' = [drain EXCEPT !.at = "minted"]
    /\ UNCHANGED <<docs, jobs, deal, fan, up, crashes, faults>>

promote ==
    /\ Quiet /\ drain.at = "minted"
    /\ head' = [head EXCEPT ![jobs[drain.job].loan] = drain.job]
    /\ setBack' = setBack \ {jobs[drain.job].loan}
    /\ drain' = [drain EXCEPT !.at = "promoted"]
    /\ UNCHANGED <<docs, jobs, posts, minted, fan, up, crashes, faults>>

\* A faulty variant: success is reported before the head moves.
markDoneEarly == Quiet /\ drain.at \in {"minted", "promoted"} /\ mark("done")

(***************************************************************************)
(* The job ends: with its memo (done), with the memo deferred (partial),   *)
(* or by an exception (failed), also one thrown after the head moved, by   *)
(* the write-back of the loan's asset type or by the mark itself.          *)
(***************************************************************************)
markDone == Quiet /\ drain.at = "promoted" /\ mark("done")
markPartial == Quiet /\ drain.at = "promoted" /\ mark("partial")
markFailed == Quiet /\ drain.at \in AwaitPoints /\ mark("failed")

settleJob ==
    /\ markDone \/ markPartial \/ markFailed
    /\ UNCHANGED <<docs, deal, minted, fan, up, crashes, faults>>

(***************************************************************************)
(* The database refuses a statement of the drain's own (claimNext, or the  *)
(* mark made in the catch block): the drain's promise rejects and kick     *)
(* swallows the rejection.                                                 *)
(***************************************************************************)
DrainRejects ==
    /\ up /\ ~fan.open
    /\ drain.at \in {"claim"} \cup BusyPoints
    /\ faults < MaxFaults
    /\ faults' = faults + 1
    /\ drain' = Leaving
    /\ UNCHANGED <<docs, jobs, deal, minted, fan, up, crashes>>

-----------------------------------------------------------------------------
(***************************************************************************)
(* POST append-document, beside the queue: it reads the head of the loan's *)
(* deal as its parent, composes and evaluates in awaits, and then moves    *)
(* the head to its child, whatever the head is by then.  The child rests   *)
(* on the run its parent rests on.  Appends with one parent count once.    *)
(***************************************************************************)
appendSourceDocToDeal(l) ==
    /\ Quiet
    /\ head[l] # 0
    /\ posts' = [posts EXCEPT ![l] = @ \cup {head[l]}]
    /\ Cardinality(posts'[l]) <= MaxPosts
    /\ UNCHANGED <<docs, jobs, head, setBack, minted, drain, fan, up, crashes, faults>>

updateAnalysis(l) ==
    /\ Quiet
    /\ \E parent \in posts[l] :
         /\ head' = [head EXCEPT ![l] = parent]
         /\ setBack' = IF parent < head[l] THEN setBack \cup {l} ELSE setBack
    /\ UNCHANGED <<docs, jobs, posts, minted, drain, fan, up, crashes, faults>>

(***************************************************************************)
(* The last append with a parent returns, or throws without a child.       *)
(***************************************************************************)
appendEnds(l) ==
    /\ Quiet
    /\ \E parent \in posts[l] : posts' = [posts EXCEPT ![l] = @ \ {parent}]
    /\ UNCHANGED <<docs, jobs, head, setBack, minted, drain, fan, up, crashes, faults>>

-----------------------------------------------------------------------------

(***************************************************************************)
(* The process dies between any two statements: tables stay, the drain and *)
(* the handlers are gone.                                                  *)
(***************************************************************************)
Crash ==
    /\ up
    /\ crashes < MaxCrashes
    /\ crashes' = crashes + 1
    /\ up' = FALSE
    /\ drain' = Idle
    /\ fan' = NoFan
    /\ posts' = [l \in Loans |-> {}]
    /\ UNCHANGED <<docs, jobs, head, setBack, minted, faults>>

(***************************************************************************)
(* reclaimInterruptedOnBoot, then the boot kick resumes the pending rows.  *)
(***************************************************************************)
Relabel(from, to) ==
    [j \in JobIds |-> IF jobs[j].state \in from THEN [jobs[j] EXCEPT !.state = to]
                                             ELSE jobs[j]]

Reboot(rows, afterwards) ==
    /\ ~up
    /\ up' = TRUE
    /\ jobs' = rows
    /\ drain' = afterwards
    /\ UNCHANGED <<docs, deal, minted, fan, crashes, faults>>

\* A faulty variant: the rows found running are left so.
BootWithoutReclaim == Reboot(jobs, Claiming)
\* A faulty variant: the sweep takes terminal rows too.
BootReclaimsAll == Reboot(Relabel(States \ {"pending"}, "interrupted"), Claiming)
\* A faulty variant: the rows found running are run again.
BootRunsAgain == Reboot(Relabel({"running"}, "pending"), Claiming)
\* A faulty variant: nothing starts the drain at boot.
BootWithoutKick == Reboot(Relabel({"running"}, "interrupted"), Idle)

Boot == Reboot(Relabel({"running"}, "interrupted"), Claiming)

-----------------------------------------------------------------------------

Trigger ==
    \/ \E ls \in (SUBSET Loans) \ {{}} : \E new \in [ls -> Docs] :
         \E settled \in BOOLEAN : File(new, settled)
    \/ \E from, to \in Loans : \E d, e \in Docs : Reclassify(from, d, to, e)
    \/ \E l \in Loans : \E force \in BOOLEAN : Underwrite(l, force)

FanOut == kick \/ \E l \in Loans : enqueue(l)

DrainStep ==
    \/ claimNext \/ foundEmpty \/ Drained \/ gatherTierADocs
    \/ ingest \/ promote \/ settleJob

Posting == \E l \in Loans : appendSourceDocToDeal(l) \/ updateAnalysis(l) \/ appendEnds(l)

Next == Trigger \/ FanOut \/ DrainStep \/ Posting \/ DrainRejects \/ Crash \/ Boot

Spec == Init /\ [][Next]_vars

(***************************************************************************)
(* The event loop runs a started section to its end, the process is        *)
(* restarted when it dies, and an awaited ingest settles (it resolves or   *)
(* it throws).  Requests may keep arriving: their handlers disable the     *)
(* drain again and again, but the loop's queue is first-come first-served, *)
(* so the drain's own callback gets its turn: fairness is strong for it.   *)
(* Nothing obliges a user to file or request anything.                     *)
(***************************************************************************)
Fairness == WF_vars(FanOut) /\ SF_vars(DrainStep) /\ WF_vars(Boot)

FairSpec == Spec /\ Fairness

-----------------------------------------------------------------------------
(* Properties                                                              *)

TypeOK ==
    /\ docs \in [Loans -> SUBSET Docs]
    /\ jobs \in Seq(Job)
    /\ head \in [Loans -> Nat]
    /\ posts \in [Loans -> SUBSET Nat]
    /\ setBack \subseteq Loans
    /\ minted \in [Loans -> Nat]
    /\ drain \in [at : {"idle"} \cup SyncPoints \cup AwaitPoints, job : Nat]
    /\ fan \in [open : BOOLEAN, todo : SUBSET Loans, kick : BOOLEAN]
    /\ up \in BOOLEAN
    /\ crashes \in Nat
    /\ faults \in Nat

(***************************************************************************)
(* A loan has at most one active job, whatever settles, moves, clicks and  *)
(* restarts come together: the queue cannot stack two ingests of a loan.   *)
(***************************************************************************)
OneActivePerLoan ==
    \A i, j \in JobIds :
        /\ jobs[i].state \in ACTIVE_STATES
        /\ jobs[j].state \in ACTIVE_STATES
        /\ jobs[i].loan = jobs[j].loan
        => i = j

(***************************************************************************)
(* While the process lives and the database obeys, the running rows are    *)
(* exactly the row the drain is working on: no row is stuck at running and *)
(* no two runs overlap.                                                    *)
(***************************************************************************)
RunningIsDrained ==
    up /\ faults = 0 =>
        Running = IF drain.at \in BusyPoints THEN {drain.job} ELSE {}

(***************************************************************************)
(* When the database does refuse statements, each refusal strands at most  *)
(* one row at running; everything else still belongs to the drain.         *)
(***************************************************************************)
StuckRowsAreFaults ==
    up => Cardinality(Running \ {drain.job}) <= faults

(***************************************************************************)
(* Between requests, a pending row always has a drain that will come to    *)
(* it; a kick that was skipped because a drain was in flight lost nothing. *)
(***************************************************************************)
PendingHasDrain ==
    up /\ ~fan.open /\ faults = 0 /\ Pending # {} => drain.at # "idle"

(***************************************************************************)
(* No job starts before an older one that still waits, restarts included.  *)
(***************************************************************************)
NoOvertaking ==
    \A i, j \in JobIds :
        jobs[i].state # "pending" /\ jobs[j].state = "pending"
            => jobs[i].created <= jobs[j].created

(***************************************************************************)
(* A job never commits two revisions of its loan, even when the process    *)
(* dies between the commit and the mark; and a job that reports success    *)
(* has committed one.                                                      *)
(***************************************************************************)
OneRevisionPerRun ==
    \A l \in Loans :
        /\ minted[l] <= Cardinality({j \in JobsOf(l) : jobs[j].state # "pending"})
        /\ minted[l] >= Cardinality({j \in JobsOf(l) : jobs[j].state \in {"done", "partial"}})

(***************************************************************************)
(* The verdict a loan shows rests on its last successful job or on a later *)
(* run, which may have failed or died since.  Only an append that had read *)
(* the head before takes it back behind them, and the next run that moves  *)
(* the head makes up for that.                                             *)
(***************************************************************************)
HeadIsNotOlderThanSuccess ==
    \A l \in Loans \ setBack : \A j \in JobsOf(l) :
        jobs[j].state \in {"done", "partial"} => j <= head[l]

(***************************************************************************)
(* A terminal row never changes again: a restart does not relabel it and a *)
(* late mark does not overwrite it.                                        *)
(***************************************************************************)
TerminalIsFinal ==
    [][\A j \in JobIds : jobs[j].state \notin ACTIVE_STATES => jobs'[j] = jobs[j]]_vars

(***************************************************************************)
(* Every enqueued job is answered, restarts or not.                        *)
(***************************************************************************)
EveryJobSettles ==
    \A j \in 1 .. MaxJobs :
        (j \in JobIds /\ jobs[j].state \in ACTIVE_STATES)
            ~> (j \in JobIds /\ jobs[j].state \notin ACTIVE_STATES)

(***************************************************************************)
(* The queue implements one piece of work per loan, one loan at a time.    *)
(***************************************************************************)
WorkOf(l) ==
    IF \E j \in JobsOf(l) : jobs[j].state = "running" THEN "working"
    ELSE IF \E j \in JobsOf(l) : jobs[j].state = "pending" THEN "queued"
    ELSE IF JobsOf(l) # {} THEN "ended" ELSE "none"

Work == INSTANCE LoanWork WITH work <- [l \in Loans |-> WorkOf(l)]

ImplementsLoanWork == Work!Spec

=============================================================================
