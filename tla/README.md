# cre-credit-committee in TLA+

The API server (`src/apps/api`) turns the documents of a pool of commercial
real-estate loans into credit verdicts.  Originators send *tapes* (lists of the
loans of a pool), people and integrations drop *documents* into a per-pool data
room, and a durable queue *underwrites* each loan whose documents suffice.  This
directory models the parts of that system whose state several requests, a
background worker and restarts share, checks them with TLC and proves the main
invariants with TLAPS.

## The process model

The server is one Node.js process over SQLite (`better-sqlite3`, synchronous).
Three facts of it shape every module:

* **Code between two awaits is not interrupted** by another handler.  A
  synchronous handler never interleaves with anything; an asynchronous one
  interleaves only at its awaits.
* **Each SQL statement commits by itself** unless the code opens a transaction.
  A throw, or the death of the process, between two statements leaves the first
  one's effect.  So a statement is an action, even inside a synchronous section.
* **Nothing is retried at boot** except the underwrite queue, which relabels its
  interrupted rows and kicks its drain (`index.ts:58-75`).

Paths below are relative to `src/apps/api/src/` unless they begin with
`packages/`.

## Inventory

### What is modelled

**The underwrite job queue** (`storage/underwrite-job-store.ts`,
`services/pool/underwrite-worker.service.ts`).  State: the `underwrite_job`
table (loan, state, `created_at`) and one in-process guard, `_draining`.
Operations: `enqueue` (joins the loan's active job if there is one), `claimNext`
(oldest pending row, set to running by one UPDATE), `markDone`, `markPartial`,
`markFailed`, `reclaimInterruptedOnBoot` (in the store's constructor path), and
the drain loop, started by a kick and absorbed by a drain already in flight.
Beside it, `POST /append-document` moves the head of the same deal.
Hard behaviour: requests enqueue while a run is awaited, the process dies
anywhere, a statement of the drain may throw.  Correct means: one active job
per loan, no row stuck or overtaken, terminal rows final, at most one revision
per run, every job answered.

**The triggers** (`services/pool/batch-settle-fanout.service.ts`,
`services/pool/underwrite-readiness.service.ts`, `routes/data-room.routes.ts`,
`routes/pool.routes.ts`, `index.ts`).  No state of their own; they read the data
room and enqueue: a settled drop fans out to its ready loans, an identify or a
move re-evaluates one loan, a click underwrites one loan, the boot kicks.

**The underwrite run** (`services/pool/underwrite-loan.service.ts`).  What other
steps can see of it: the documents it gathers before its first await, the
revision it commits, the head it then moves, its outcome.

**Tape advance** (`services/pool/advance-tape.service.ts`,
`storage/pool-store.ts`, `routes/pool.routes.ts`).  State: the pool's loans,
their originator reference, disposition pointer and closed flag, the disposition
records, the frozen tapes with their memberships, the pool's current tape and
its one working tape.  Operations: Phase A (open a working tape, bind rows to
known loans), Phase B (resolve the others, mint loans, freeze, rewrite
references, record departures, move the pointer), a disposition out of band,
closing a loan.  Every handler is synchronous; the hard part is a throw or a
death between two of its statements, and what the next request then finds.

**Data-room intake** (`routes/data-room.routes.ts`,
`services/data-room-store.service.ts`, `storage/data-room-doc-store.ts`,
`storage/data-room-held-store.ts`,
`services/pool/rescan-held-on-loan-arrival.service.ts`).  State: the filed
documents, one row per (loan, type, content) with a write order; the held rows,
one per content, that wait for a person; the staged drops.  Operations: staging
a drop, retrying a held archive, assigning, identifying a held file, moving a
filed one, and the rescan of held files when a tape brings new loans.  Hard
behaviour: these handlers await bytes and parsers, so they interleave, and bytes
that cannot be read end a rescan halfway; a move is two statements, and nothing
of it is resumed at boot.

**The revision lineage of a deal** (`services/append-source-doc.service.ts`,
`services/ingest-extraction-result.ts`, `services/apply-revision-delta.ts`,
`services/pool/underwrite-loan.service.ts`, `storage/record-graph-store.ts`,
`services/deal-source-doc-store.service.ts`, the lookup in
`storage/sqlite-store.ts`).  State: envelopes (a revision's id hashes its parent
and its inputs), evaluation contexts, the deal's row in `analyses` with its head
`graphRevisionId`, the raw documents kept per lineage.  Operations: a run (find
the deal, keep the gathered documents, append, or ingest a root and promote it),
`POST /:id/append-document`, `POST /:id/revisions`.  Hard behaviour: all of them
read the head before their awaits and write after them; a tape re-keys the loan
meanwhile; a restart brings a newer ASR adapter; a document is kept after the
head has moved.  Correct means: a deal is found again, can always be appended
to, forgets nothing, keeps what it was read from, and never leaves its lineage.

**The committee's record** (`routes/workflow.routes.ts`,
`services/compute-deal-workflow-state.ts`, `services/replay-overlays.ts`,
`storage/committee-actions-store.ts`, `storage/audit-events-store.ts`,
`storage/overlay-patches-store.ts`).  State: three append-only tables; rows of
two are chained by the id of the row before.  A deal's state is projected from
them at each request.  Hard behaviour: clients date the rows and rows are read
by date; a comment is two inserts.  Correct means: the rows are one chain, what
is shown only grows, no comment is lost.

**Access and invitations** (`services/invitation.service.ts`,
`storage/invitation-store.ts`, `storage/deal-access-store.ts`,
`storage/confi-acceptance-store.ts`, `middleware/deal-access.ts`,
`scripts/backfill-deal-access.ts`).  State: rows of `deal_access`, single-use
invitations, a log of accepted agreements.  Hard behaviour: handlers are several
statements without a transaction, and the backfill is another process.  Correct
means: one buyer per invitation, no entry without consent, nothing taken back.

**The library of historical underwritings and its batch queue**
(`services/uw-intelligence.service.ts`, `services/batch-queue.service.ts`).
State: records, unmatched outcome rows and learnt rules in memory and in three
JSON files, a set of asset types waiting for a debounced rule update, the
batches.  Hard
behaviour: ingestions overlap at the model's answer, a re-extraction holds old
objects through its awaits, files are rewritten whole and may be torn.  Correct
means: duplicates only from overlaps, records stay, what is proposed as a rule
follows from the records, every batch ends.

### What is not modelled, and why

| part | why |
|---|---|
| pins and the choice among versions of a slot; fuzzy tape matching; carry-over of row status | a function of one handler's input; the models take any choice |
| committee snapshots, the merged timeline | copies and reads of what `DealWorkflow` has |
| overlay divergences on a child revision | a comparison that is reported and not stored |
| revision creator, version control | pure functions of two analyses of the older kind |
| the rest of the analysis store, read state, registries, deal mode, servicer inputs | one-row writes with no control of their own |
| authentication, permissions | signed tokens and a table, no state; roles are a constant of `DealAccess` |
| rejected and disabled rules, versions of rules and their rollback, children of portfolios, templates | not yet; see the plan |
| doctrine, judgment, mitigation, handbook, narrative, field authority | arithmetic on real-valued ratios and text; floating point is out of reach of TLC and of the provers |
| extraction, classification, unpacking, blob store | parsers, heuristics and idempotent content-addressed files; their outcome is an input of the models |
| rendering, web client, Excel add-in, deployment | layout and clients, the larger half of the code; no state the server relies on |

## Modules

| module | what it is |
|---|---|
| `UnderwriteQueue` | the job table, the triggers' statements, the drain, the boot |
| `LoanWork` | what the queue promises: one piece of work per loan, one loan at a time |
| `PoolTape` | Phase A, Phase B, dispositions and closing, statement by statement |
| `LoanFates` | what the tapes promise: a loan leaves the roll only disposed; closed and disposed exclude |
| `Intake` | drops, the held inbox, moves, the rescan, and which loans they enqueue |
| `DealRevision` | runs, appends and edits of a loan's deal, its lineage, head and documents |
| `RevisionLog` | what the store promises: revisions are only added under a recorded parent; a deal stays in its lineage |
| `DealWorkflow` | committee actions, overlays, comments, the projection and the replay |
| `CommitteeRecord` | what the record promises: a history that only grows, a state moved by each action |
| `DealAccess` | owners, invitations, the agreement, the data room's gate, the backfill |
| `UwLibrary` | the library: ingestions, edits, outcomes, re-extraction, rule updates, restarts |
| `BatchQueue` | the worker's jobs over `UwLibrary`, which it extends and composes with |
| `MCUnderwriteQueue`, `MCPoolTape`, `MCIntake`, `MCDealRevision`, `MCDealWorkflow`, `MCDealAccess`, `MCUwLibrary`, `MCBatchQueue` | the model values and symmetries of the runs |
| `UnderwriteQueueProofs`, `PoolTapeProofs`, `IntakeProofs`, `DealRevisionProofs`, `DealWorkflowProofs`, `DealAccessProofs`, `UwLibraryProofs`, `BatchQueueProofs` | theorems and their proofs |

`UnderwriteQueue` and `Intake` share a boundary.  `Intake` says *which* loans an
event reaches (`told` grows by the loans enqueued); `UnderwriteQueue` says what
enqueuing does, statement by statement, and treats filing and moving documents
as inputs.  The boundary is `enqueueUnderwriteOnSettle` and
`reevaluateAndEnqueueIfReady`, which run without an await, so nothing is lost by
looking at their two halves apart.  `PoolTape` meets `Intake` at `LoanArrives`,
the new loans of a Phase B.

### UnderwriteQueue

`jobs` is the table in order of insertion, `docs[l]` what the data room has
under a loan, `drain` where the drain stands and on which row, `fan` the request
handler in its synchronous fan-out.  `StartFan`, `enqueue` and `kick` are a
request: one INSERT per loan, then the kick.  `claimNext`, `gatherTierADocs`,
`ingest`, `promote`, `markDone`/`markPartial`/`markFailed`, `foundEmpty` and
`Drained` are the drain; between the last two its promise has settled and its
guard is still set, and no request is served there, which is why an absorbed kick
is never lost.  A run may fail at any of its awaits, also after it moved the head
(the write-back of the asset type, or the mark itself, throws into the catch).
`DrainRejects` is a statement that the database refuses.
`appendSourceDocToDeal`, `updateAnalysis` and `appendEnds` are `POST
/append-document`, as far as the queue's promises see it: it reads the deal's
head, awaits, and moves the head to its child, which rests on the run that the
head it read rested on.  `posts` are the heads that open appends have read;
`setBack` are the loans whose head an append took back behind a later run's.  `Crash` is the
death of the process, `Boot` the constructor's relabelling and the boot kick.
`Quiet` says that no synchronous section is open: it guards every other handler.
`head` and `minted` record which run the loan's verdict rests on and how many
revisions the loan's runs have committed.

### PoolTape

`req` is the handler in progress, by the statement it makes next; `Throw` gives
it up, leaving what it wrote.  `tapes` are the frozen tapes in order, `current`
the pool's pointer, `working` the open working tape.  References are what the
originator calls a loan; a row may carry none.  `classifyRow` matches a row
exactly or leaves it to a resolution, which may name any loan of the pool or
mint a fresh one; the resolutions a person may give are all of them.  A tape may
have no rows.

### Intake

`seq[a]` is the write order of the document at address `a` (a loan, a type, a
file), `held` the held rows, `trays` the drops that were answered, `told` the
loans enqueued, `h[p]` the handlers in progress, by the statement each makes
next.  `Staging` and `Retry` take the list of loans before their awaits (`known`)
and file against it later, as the code does.  `Sync` is where a handler is
between statements without an await: `Quiet` keeps the others out, a crash may
still fall there.  `getBlobThrows` is the read of a held file's bytes that fails
(`blob-store.ts:152`): it ends an identify before it files anything, and a rescan
before it looks at the loans it has moved files to.  `accepted`, `failed`,
`placed` and `abandoned` are history: the files answered for, those whose held
row could not be written, those a person placed, the loans such a rescan left.
Readiness asks for a non-empty set of types (`ReadinessAssumption`).  Left out:
the bytes, pins, the choice among versions of a slot, and a request naming a
loan that the pool does not have (`/identify` and `/assign` do not check it; loan
ids are minted by the server).

### DealRevision

A revision is the sequence of inputs from the root down to it, since its id
hashes its parent and inputs; an insert of one that exists changes nothing.
`source[r]` is the extraction it was judged on: documents, units of rent roll
(two readings of the same documents may differ), ASR adapter version, and the
name it was made under, which is how `lookupAnalysisByDealRef` finds a deal
(`bridged`, else `namesakes`).  The two sides of a comparison by name are
normalized by different functions (`parse-bmark-tape-xlsx.ts:65`, `:87`: a deal's
name loses a last parenthetical, a reference does not); both are constants, any
functions to keys.  `hasty` marks an append begun while another had moved the
head and not yet kept its document.  `h[p]` is a handler by its next statement; at
most one is a run, as the queue's theorem says.  `Composed` is the three-way
choice of an append: carry over, carry over with a fresh rent roll, read again.
`underwriteLoan` gathers one version of each slot, any of those on file, in the
order in which slots were first filed.  `Throw` is what an await may do,
`Restart` a death or a deployment.  A benchmark registry is taken to be there.
Servicer inputs, narratives and ratings are left out: no step here depends on
them.

### DealWorkflow

A table is the sequence of its rows in the order in which they are read (by
date, then by insertion), and a row is the sequence of bodies from the first row
of its chain down to it, since its id hashes the previous one.  `chainTail`,
`chainHead` and `Walk` are the code's loops, said without the loop: the walk is
the one row that no row comes after and each of whose ancestors is the first of
its siblings to be read.  The handlers do not await, so each
is a step; `postOverlayCommentCut` is the death between the two inserts.  The
throw of the second insert, which the route answers with a 400
(`workflow.routes.ts:485-488`), leaves the same rows and is counted with the
deaths.  The
negotiation loop is on; permissions and the body's shape are left out.

### DealAccess

A step is one statement of one request, since the backfill is a second process
and the code itself guards an invitation against use between its read and its
update.  Within one server process these handlers do not await, so that of its
own requests only the death between two statements is real; the interleavings
are those of two processes.  `calls[c]` is the request's next statement.  Enforcement is on.  Access
to a deal through a pool is a read and left out.

### UwLibrary and BatchQueue

`records` is the map in memory, `saved` what the file holds.  `calls` are the
ingestions between their awaits; `reread` the objects a re-extraction has yet to
read, `Live` while the map still holds the same object; re-extractions may
overlap.  `rules[t]` says whether a type has proposed and whether it has approved
rules.  `Regenerate` makes proposals anew and keeps what is approved
(`uw-intelligence.service.ts:1536-1542`); `outdated` are the types with proposals
of other deals than there are now.  A file that is torn by a death is read back
as empty: the records (then nothing counts as kept), the rows, or the rules.
`besides`, `kept`, `setBack` and `untold` are history.  `BatchQueue` extends
`UwLibrary`: its worker is one of the callers, and a restart of the library
empties the queue.  The synchronous `/batch-upload` is a sequence of
`ingestAutoClassified` requests of one caller.

## Runs

No run fixes an order of events: each explores every interleaving of its bounds.
`CHECK_DEADLOCK FALSE` stands where the system may rest with nothing asked of
it or a bound may be used up.  Each module's type invariant is checked once
(`LibraryTypeOK` and the type invariant of `BatchQueue` are conjuncts of
`JobsInOrder`).

| run | what it shows | bounds |
|---|---|---|
| `queue_live` | the job table's order: `OneActivePerLoan`, `RunningIsDrained`, `NoOvertaking`, `TerminalIsFinal`; `EveryJobSettles` under fairness; the refinement `ImplementsLoanWork` | 2 loans, 3 jobs, 1 crash; 399 thousand states |
| `queue_docs` | `StuckRowsAreFaults`, `OneRevisionPerRun`, `HeadIsNotOlderThanSuccess` with documents filed and moved during runs and appends beside them | 1 loan, 3 documents (one that readiness counts and runs do not read), 3 jobs, 2 parents that open appends have read, 1 crash, 1 refused statement; 2.3 million |
| `pool_tapes` | `OneRecordPerLoan`, `WorkingFollowsCurrent`, the refinement `ImplementsLoanFates` | 2 loans, 2 references, tapes of up to 2 rows, 2 versions, 1 crash; 2.4 million |
| `intake_drops` | `NothingIsLost`, `OnlyDropsMissLoans` | 2 loans that may arrive late, 2 files, an archive of one of them, 2 handlers, 3 requests, 1 crash, 1 refused row, any read that fails; 771 thousand |
| `revision_deals` | `HeadsAreAppendable`, `OneDealUnlessRekeyed`, `AppendsForgetNothing`, `HeadDocsAreKept`, the refinement `ImplementsRevisionLog` | 2 handlers, 2 filed documents and 1 posted in 3 slots, 2 references of which one ends in a parenthetical, 3 revisions, 2 deals, 2 adapter versions, one of: a re-key, a death, a failed write; 1.1 million |
| `workflow_record` | `ActionsAreOneChain`, `EventsNamePatches`, `SilentCommentsAreFaults`, `ReplayShowsEveryComment`, the refinement `ImplementsCommitteeRecord` | 1 deal, 2 overlays, 3 kinds of action, 2 texts, 2 dates, 5 rows, 1 crash; 41 thousand |
| `access_rows` | `BuyersAreInvited`, `EntryIsConsented`, `LostWorkIsFaults`, `NothingIsTakenBack` | 1 pool, an originator, 2 buyers, 2 invitations, 2 requests at a time, 2 instants, 2 versions of the text, 1 crash; 1.3 million |
| `library_outcomes` | `KeptStaysOnRecord`, `LinkedMeansTold`, `StaleProposalsAreUntold` | 2 files of 2 deals, 2 records, 1 type, 2 outcomes, 1 outcome row, 1 re-extraction, 1 crash; 457 thousand |
| `library_batches` | `JobsInOrder`, `DuplicatesAreOverlaps`; `EveryBatchCompletes` under fairness | 2 files of one deal in a batch that is uploaded twice, a request beside it, 2 attempts, 1 crash; 308 thousand |
| `intake_contradicted`, `revision_fullset`, `access_reconsent` | counterexamples, below | |

Why the bounds suffice.  Two loans are the fewest that share the drain and can
overtake each other; three jobs give one loan two in a row while the other
waits.  Two heads read by open appends are the fewest of which one may set the
head back and the other set it right.  One crash reaches every state that boot finds; a second one finds the
same kinds of rows.  For tapes, two rows are the fewest to collide in one loan,
two versions the fewest for a loan to leave the roll.  In intake, two loans are the
fewest for a drop's file to go elsewhere, and two files of one loan, of the two types that readiness asks for, are the fewest for a loan to
become ready in two events; two handlers the fewest to interleave.  For deals,
three revisions are a root and two siblings, or a chain of two appends; two
handlers the fewest to branch.  A reading of a rent roll is always the same one
there, since no property of deals tells two readings apart.  Two dates are the fewest to put a row before an
older one, five rows give a chain of three with an overlay and its comment.  Two
buyers and two invitations are the fewest to race.  Two records are the fewest
twins.  One re-extraction is all that a run of that size has room for: what two
overlapping ones do is covered by the proofs only.  Most safety properties are also theorems, without these bounds.

Every property was tried against a variant of the code with one plausible fault;
those variants stand beside the definitions that they replace, each marked *A
faulty variant*, and nothing else refers to them.  Each of them makes its
property fail: joining a pending row only, booting without the reclaim or the
kick, serving requests before the drain's guard is cleared, marking done before the head moves, a chain that follows the latest date, a
comment's event before its patch, a head that follows edits, an append that composes its one document, an invitation spent
without a look, a row granted over another, a record added without a write, a
queue that is not looked at when a job is done, and so on.

### Liveness and fairness

`FairSpec` of `UnderwriteQueue` adds three assumptions.  `WF(FanOut)`: a started
synchronous section runs to its end.  `WF(Boot)`: a dead process is started
again.  `SF(DrainStep)`: the drain's next statement is eventually made.  It is
strong because a request's section disables the drain while it runs, again and
again; the event loop serves callbacks first come, first served, so the drain's
turn comes.  It also says that an awaited `underwriteLoan` settles, by a result
or a throw.  Nothing obliges anyone to file, click or crash.

`FairSpec` of `BatchQueue` is `WF(Work)`: the worker's next step is taken.  The
model's client gives up after its own timeout, so an ingestion settles, and the
timer between two attempts fires.  Weak fairness is enough, since no request
disables the worker.  `EveryBatchCompletes` excepts batches that a restart
forgot: the queue is in memory only.

### Where the code and its comments part

Three runs have one property each, what a comment in the code says, and TLC
refutes it by what the code does.

* `intake_contradicted` / `ContradictedIsConfirmed`: `data-room.routes.ts:245-247`
  says a contradiction must never auto-file.  The held row does not keep it; the
  rescan on a loan's arrival files the document by the contradicted hint.
* `revision_fullset` / `FullSetIsScored`: `underwrite-loan.service.ts:347-350`
  says that a run's one append re-extracts the full set.  The append asks only
  whether its one new document is new (`append-source-doc.service.ts:265`,
  `:276`).  With a new document in another slot than the last gathered one, the
  parent's extraction is carried over; the new document is kept and not read.
* `access_reconsent` / `NewTextNeedsNewConsent`: `confi-acceptance-store.ts:17-18`
  says that a new version requires a re-acceptance.  The gate reads only
  `accepted_at`; `hasAccepted` is called nowhere.

Met while modelling, reached by the models, and not runs of their own:

* A document filed while its loan's job runs is folded into that job, which has
  gathered already; `batch-settle-fanout.service.ts:260-262` calls joining safe
  because there is no new work.
* With every entry resolved the freeze may be refused all the same (two rows for
  one loan, a version used before), against `advance-tape.service.ts:546-548`;
  the working tape then stays in the pool's way.  Phase A does not compare
  versions, against `:293-294`.
* A loan disposed before it returned on a tape departs the second time without a
  record, against `packages/contracts/src/pool.ts:388`.
* A rescan whose read of a held file fails skips the re-evaluation of the loans it
  has moved files to; such a loan is ready and has no job until something else
  touches it (`OnlyDropsMissLoans` excepts it, `abandoned`).
* When the last file of a drop is identified out of the inbox, the drop's other
  loans are not enqueued, against `batch-settle-fanout.service.ts:257-258`; a
  held row that cannot be written is counted as held, against
  `data-room.routes.ts:365-366`.
* Two revisions of one lineage may share a parent and an ordinal, though
  `apply-revision-delta.ts:93` calls chains linear; a slow append may move the
  head back to a sibling of a later one, and the verdict shown with it
  (`HeadIsNotOlderThanSuccess` excepts it, `setBack`).  An edit's revision never becomes the
  head.  While the parent's ASR version is older than the running one, a new
  document is not read: only the rent roll is.  A re-key after an append has
  replaced the pool's handle by the name opens a second deal.  So does, without
  any re-key, a reference that ends in a parenthetical, which is cut off the
  deal's name and not off the reference that it is compared with;
  `sqlite-store.ts:559-566` tells of duplicate analyses that re-underwrites have
  minted (`OneDealUnlessRekeyed` speaks of the other references, `FoundByName`).
* An append that begins after another has moved the head and before that one's
  document is kept reads the set without it: the document's slot drops out of the
  deal (`AppendsForgetNothing` excepts it, `hasty`).
* An overlay dated after its comments by its client makes replay drop all
  comments but one (`ReplayShowsEveryComment` says it of the others).  A
  comment's id has neither overlay nor side: the same text at the same
  millisecond on two overlays is stored under one.  A retried action is taken
  twice.
* The automatic ingestion's comment "hash already checked above"
  (`uw-intelligence.service.ts:787`) holds before the model's answer only: two
  overlapping ingestions of one file both add it.  A re-extraction brings deleted
  records back and undoes edits made meanwhile.  Rules that were rejected or
  disabled go with each regeneration, though `:1535` speaks of pending ones.
  Approved rules, which are the ones applied to deals (`:2129`), are never made
  anew: they lag behind the records by design, and `StaleProposalsAreUntold` says
  nothing of them.  Rows of an outcomes
  sheet that match by 70 to 89 percent are neither applied nor stored.

## Theorems

`TLAPS` proves these for every set of loans, documents, files, users, handlers
and every bound, from the named assumptions on the constants, which TLC
evaluates in each run.

**The queue.**  `OneActiveJob`, `TerminalRowsAreFinal`, `OldestFirst`,
`RunningRowsAreDrained`, `RefusalsStrandOneRowEach`, `PendingRowsHaveDrain`,
`HeadIsCurrent`, `RevisionsMatchRuns`, `QueueIsLoanWork`, `TypeCorrect`.  The
common core is `Shape`: types, plus *a busy drain holds a running row and lives*
(`DrainHoldsRow`), plus *a synchronous section lives* (`SectionsAlive`).  It is
needed even for types, since a mark writes the row the drain holds.
`OneActivePerLoan` is not inductive alone: the step that would break it is an
INSERT, and what excludes it is that an active row is its loan's last
(`ActiveIsLast`).  `NoOvertaking` needs the insertion order to be the order of
`created` (`Sorted`).  `PendingHasDrain` (between requests a pending row has a
drain in flight) needs the kick that an open fan-out still owes (`KickOwed`).
`StuckRowsAreFaults` counts running rows that are not the drain's
(`StrandedIsFaults`).  `HeadIsNotOlderThanSuccess` needs that an active row is
its loan's last, so that no success is newer than the run that moves the head,
and that a run which has moved it still finds it no older than itself, unless an
append took it back (`HeadInv`); `OneRevisionPerRun` needs to know of the drain whether its run has
committed (`RevisionsAreRuns`).  The refinement to `LoanWork` holds of behaviours in which
no statement is refused, and for any number of crashes; a refused mark leaves a
loan's work neither waiting nor done until the next boot.

**The tapes.**  `ClosedAndDisposedExclude`, `WorkingTapeFollows`,
`LoanHasOneRecord`, `TypeCorrect`, `PoolImplementsFates`, from `PoolInvariant`.
Its parts tie the handler's position to what it has written: `Freezing`,
`Departing` (while departures are being recorded, the working tape is gone, the
frozen tape continues the current one, and each loan it drops is disposed, still
to be looked at, or the one whose record was just written) and `Marking`.  Types
need that the least loan of a reference exists (`LeastExists`).
`OneRecordPerLoan` counts: a loan whose pointer is not set, and is not about to
be, has a record for a death at most (`RecordsAreBounded`).  The refinement proof maps each
statement to a step of `LoanFates` or to a stutter: the roll changes only when
the pool's pointer moves, and `Departing` then says that every lost loan is
disposed.

**Intake.**  `FilesAreKept`, `IntakeTypeCorrect`, `MovesMissNoLoan`, from
`IntakeInvariant`.
`NothingIsLost` is not inductive: it holds through the second statement of a
move only because the first put the file somewhere else, through a retry's
deletion only because its files are kept, through an answer because the files
answered for are.  `Safe` adds to it what each handler may rely on at its next
statement (`Addressed`, `Keeps`, `Moves`) and that at most one handler is within
a synchronous section (`OneInSync`), without which another move could clear the
other address meanwhile.  `NothingVanishes` is the heart of the argument: no
step takes a file out of the data room.  `MovesMissNoLoan` looks at the document
that made a loan ready, the last one written of those it needs: when it was
filed the loan was enqueued, or its handler is about to, or it came with a drop
that has another file that is not filed at this loan alone (`Looked`); a rescan that
throws is the one handler that ends without what it was about to do, and it
leaves its loans in `abandoned`.  An attempt at its
proof, with two loans, showed that an earlier wording of the property - which
blamed such drops only while their files had never been moved - was false: a
file of a drop may be dropped again alone and filed at another loan.  The
property now says what is true, and its run has two loans.

**Deals.**  `RevisionTyped`, `HeadsAppendable`,
`RevisionLogImplemented` follow from `Safe`: types, every revision's parent is
on record (`Chained`), and what each handler relies on (`Relies`: where an append
starts is a head it read, on record with its context; the revision it made is in
the lineage of its deal).  A head moves to what `Relies` describes, so that it
has a context and stays in its lineage.  `OneDealPerReference` needs `Single`:
without a re-key there is at most one run (`OneRun`) and every deal and run goes
by the loan's one name or the pool's handle (`Named`), so a run that finds no
deal is the only one and there is none, if the loan's name has the key that its
reference has (`FoundByName`).  `HeadDocsKept` is not about one deal
but about all that share a lineage, and needs an invariant over their documents:
what a lineage's heads were read from is among the documents kept for it or in
the hands of an append that has moved a head (`AllCovered`); an append that
composed from the kept documents adds only its own.  `NothingForgotten` rests on
that: an append whose parent's documents were all kept when it began composes
from every slot of the parent (`LastOfSlotsCovers`), and until it moves the head
its set is what it is (`Remembers`).

**Access.**  `AccessTyped`, `BuyersInvited`, `EntryConsented` from one
invariant, `Safe`: `BuyersAreInvited` itself, *who is stamped is logged*, *who is
logged has a row*, and `Relies`: a request about to grant has spent its
invitation, one about to stamp has logged.  The first is what excludes that two
requests which read one invitation unspent both grant.  `NothingTakenBack` is an
action property of the same invariant.  `LossIsFaults` counts what a death may
cost.  A user may spend two invitations to one pool, and one row serves both, so
that each request about to grant must answer for one spent invitation of its own
(`Counted`); one that no request answers for is a death's.

**The committee's record.**  `TypeCorrect`, `ActionsFormOneChain`,
`EventsHavePatches`, `SilenceIsFaults`, `ReplayIsComplete`, `RecordIsKept`, from
`Recorded`.  Its parts: the rows of a deal's actions are, in whatever order they
are read, the ids of one chain, each once (`OneChainEach`); an overlay that has
rows has its own, and, unless it is dated after its comments, its rows are read
in the order of their chain and no comment is dated after the clock
(`DatedChains`); the clock stands at an instant (`Clock`).  Four lemmas do the
work: a row is put at one place among the rows, after all when none is dated
later (`InsertPlaces`); of the rows of one chain, the first that nothing refers
to is its last (`TailOfChain`) and the walk reaches all of them (`WalkOfChain`);
a row that follows the last keeps them one chain, wherever its date puts it
(`AppendsToChain`).  Without `OneChainEach` not even the types can be had: that
what an action follows is a row rests on there being a row that nothing refers
to.  Events have no such invariant in general: what a comment follows is picked
by date (`chainHead`), so that the events of an overlay dated after its comments
are no chain and replay loses some.  The refinement maps an action to `Take`, a deal's first overlay
to `Begin` when nothing was decided, and all else to a stutter.

**The library and its queue.**  `RecordsKept`, `LinksTold`, `StaleProposalsUntold`,
`DuplicatesOverlap` of `LibrarySpec`, and `JobsOrdered`, `BatchDuplicatesOverlap`
of the queue's `Spec`.  `LibrarySafe` says of the file what the properties say of
memory, since a restart makes the one the other (`ToldIn`, `OverlapsIn`), that
rows are linked to records that were made (`Made`), without which a new record
could find a row linked to it already, that a re-extraction which holds no object
of its own reads a record that is there (`LiveIsPresent`), and about ingestions under way: of two of
one file, one began beside the other (`OneIsBeside`), and one that did not finds
its file in the library only if another brought it meanwhile that did
(`AutoIsUnseen`).  The queue's steps are steps of the library, except that
`processNext` begins an ingestion and makes rules at once: `BatchInvariant` takes
it apart (`StartSafe`, `RegenerateStep`) and adds that a job that waits has one
before it that is worked on, so that the worker's rest means no work is left.

**Only model-checked.**  Liveness (`EveryJobSettles`, `EveryBatchCompletes`),
which the prover does not do under fairness.  Every other property of a passing
run is a theorem; `ImplementsLoanWork` for behaviours without refused statements,
which is what its run has too.

## Hazards no property covers

Some of what is hard here is listed as a hazard in `PROJECT.json` without a
property.  A job joined while it runs misses the document it was asked for.  A
freeze is refused with everything resolved.  An identify and a rescan of one
file both file it, under two loans (the row is read before the awaits).  A death
between an assign and its fan-out is recovered by nothing.  The models reach
these states, but the code promises nothing they break, or breaks what a comment
says in a way listed above.

## Plan

Done in this order: `UnderwriteQueue`, `PoolTape`, `Intake`, then
`DealRevision`, `DealWorkflow`, `DealAccess`, `UwLibrary` and `BatchQueue`, each
with its runs, and the proofs of all that the runs check except for liveness.
Next:

1. Rejected rules, versions and rollback, on top of `UwLibrary`'s standings.
2. Pins and `pickWinningVersion` as operators against a reference definition.
3. Composition: `PoolTape`'s new loans as the arrivals of `Intake`, and
   `Intake`'s filed documents as the room of `DealRevision`.
