# A formal model of Legacy Lens

Legacy Lens imports a legacy code base (a ZIP upload or a Git clone), analyses
it and keeps the results in MySQL. This directory holds TLA+ specifications of
its server: the job queue that several processes work on, the worker threads
and the shutdown of one process, the uploaded files, the analysis history, the
paged queries and reports, the gate in front of the API, and the analyzer with
its parsers. TLC checks them on small instances; TLAPS proves the main safety
results of the queue, the server process, the uploads, the history, the tracer,
the analysis, the paged queries, the reports and the gate for all instances.

Source paths below are relative to the repository's `src/`; `PROJECT.json`
gives, for every definition, the lines it translates, and for every component
what is modelled of it.

## 1. The system

### Components

| Component | State it keeps | Operations | What makes it correct |
|---|---|---|---|
| Job queue and leases (`server/services/projectWorkflow.ts`, `project/projectJob{State,Lease,Heartbeat,Payload}.ts`) | tables `projectJobs` and `projects` | enqueue, create and import, claim, verify, heartbeat, checkpoint, finalize, fail, delete | one owner per job and attempt, one end per job, nothing a stale worker does counts, every job ends |
| Startup recovery (`project/projectJobRecovery.ts`) | what it has read of both tables | requeue or fail expired jobs, fail stuck projects | never takes a job from a live owner, leaves nothing stuck |
| Import pipeline (`project/projectImport{Zip,Git}.ts`, `utils/{zipHandler,gitHandler,fileExtractor}.ts`) | the project's files, the uploaded temporary file | extract, filter, replace all files in one transaction | only the owner of the job replaces the files; no supported file disappears without a warning |
| Analysis runner, persistence (`project/projectAnalysis*.ts`) | analysis runs and their rows, the project's status | bootstrap, analyse, persist or record the failure | all or nothing, only by the owner; every stored row refers to a stored row |
| Worker thread bridge (`jobWorker.ts`, `jobWorkerThread.ts`) | the thread, the pending requests with their timers | dispatch, answer, time out, respawn | every request settles, and only by its own answer |
| Scheduler (`kickProjectJobWorker`, retry and poll timers, `_core/index.ts`) | flags and timers of a process | kick, loop, retry, stop | a queued job is noticed; shutdown waits, but not for ever |
| Analysis history (`analysisHistory.ts`, `sourceFingerprint.ts`) | run numbers, fingerprints, baselines, snapshots | allocate, backfill, compare, delete | a log that only grows; the projection and the baseline point where they should |
| Uploads (`projectUploadRoute.ts`) | temporary ZIP files | upload, periodic cleanup | no file of an active job is removed; no orphan stays |
| Queries and reports (`project/project{Paged,Snapshot}Queries.ts`, `analysisPresentation.ts`, `projectReportArchive.ts`) | none: reads between the commits of others | page, filter, group, diff, export | the SQL and the in-memory query agree; pages are a partition; counts add up |
| Gate of the API (`_core/{rateLimiter,sdk,trpc}.ts`) | counters per procedure and party, the users seen | authenticate, meter, guard | the limit per window, nobody within it is refused |
| Analyzer (`server/analyzer`) | none: functions of the files | parse, resolve symbols, trace flows, rank impact, detect risks, audit the build, score | what was written is what is read; traversals end, respect their limits and report what they cut |
| Client, scripts, sign-in exchange, configuration, logging, migrations | none that matters here | read and present | see section 5 |

### How they interact

An API request passes the gate, inserts a job row and moves the project to
`importing` or `analyzing` in one transaction. Each server process runs one
worker loop: it selects the oldest claimable row, claims it with a conditional
UPDATE, reads it back, starts a lease guardian (a timer in the main thread) and
hands the job to a worker thread. The thread reads the row again, checks its
ownership at checkpoints (some renew the lease), changes the project in
transactions, finalizes the job with a fenced UPDATE, and after an import
enqueues the analysis and wakes the scheduler of its own thread. If the thread
throws, times out or dies, the main thread fails the job. A process that starts
runs recovery before it polls. An import or analysis transaction completes the
runs an older version left, replaces the rows derived from the newest run and
appends a run; requests read those tables without a transaction, and some of
them complete legacy runs on the way. Processes share nothing but MySQL and
the disk.

### What is hard

* Every statement of one process can fall between two statements of another:
  candidate read and claim, checkpoint and commit, two SELECTs of a request and
  the commit of an analysis, the three reads of an upload sweep.
* A process can be silent for longer than a lease and then go on; it can crash
  anywhere and be started again, before or after its leases have run out.
* A thread can be lost, time out and answer late; a statement can fail at any
  point; two activities of one process (guardian and thread) renew one lease.
* Limits (steps, depth, traces, entries, bytes, requests) are met in the middle
  of something that has to be reported as cut.
* The same question is answered by two pieces of code: in SQL and in memory, by
  the event map and the tracer, for an archive and a clone.

`PROJECT.json` lists these hazards one by one, each at its line, with the
properties that cover it.

## 2. The modules

| Module | What it is |
|---|---|
| `ProjectJobState` | rows of the two tables, predicates on a row, and each UPDATE as an operator on a row (`IsClaimable`, `IsHeldBy`, `Claimed`, `Renewed`, `Finished`, `Requeued`, ...); the project's state machine |
| `ProjectWorkflow` | the queue: API requests, worker loops, worker threads, guardians, startup recovery, faults, time |
| `JobLifecycle` | abstract: what the job table promises whoever reads it |
| `MCProjectWorkflow` | the instance for TLC (symmetry of the processes) |
| `ProjectWorkflow_proofs` | the proofs: rows, terminal states and the refinement; leases and superseded threads |
| `WorkerServer`, `WorkerServer_proofs` | one process: scheduler loop, bridge, threads, shutdown; the proofs |
| `Uploads`, `Uploads_proofs` | the temporary files, from request to sweep; the proofs |
| `AnalysisHistory`, `AnalysisHistory_proofs`, `MCAnalysisHistory` | runs, projection, baseline and fingerprint of one project; the proofs, that of the refinement included; the instance for TLC |
| `RunLog` | abstract: a log of immutable runs that only grows, with a pointer into it |
| `Presentation`, `RunReports` | grouping of risks, rules and warnings; run list, status, diff and export |
| `PagedQueries`, `PagedQueries_proofs` | every page and the overview, in memory and in SQL, statement by statement; the proofs |
| `RequestGate` | session, rate limit and guard of a procedure |
| `ReportQueries`, `ReportQueries_proofs` | the requests answered from one thing read: summaries, differences, run lists and exports; the gate before them; the proofs |
| `MCPagedQueries` | the instance for TLC of the five above |
| `DelphiSymbols`, `FlowTracer`, `FlowTracer_proofs`, `MCFlowTracer` | symbol resolution and event map; the tracer as a state machine, one step per entry of its work list; the proofs; the instance |
| `SqlText`, `SqlReferences` | quoting and nesting of SQL; references of a statement to tables and columns |
| `SourceParsers`, `DfmForms`, `RiskRules` | symbols, calls and fields of Go, SQL and Delphi files; forms and their bindings; risks |
| `FormTrees` | a form as a tree and as the lines that write it: the reference for what `DfmForms` reads |
| `AnalysisConfidence`, `ProjectAnalysis`, `ProjectAnalysis_proofs` | the score; one analysis as a state machine from the files to the stored rows; the proofs |
| `ImpactAnalysis`, `BuildDoctor`, `SourceImport` | impact of a change; audit of a Delphi build; what an import keeps |
| `AnalyzerParts` | the analyzer with the impact analysis and the import beside it, as far as they are proved about together |
| `MCAnalyzer` | the instance for TLC of `ProjectAnalysis` and of the pure modules beside it |

#### State and code of `ProjectWorkflow`

`jobs`, `nextJob` and `projects` are the tables. A row keeps the columns that
decide something: `project, type, status, activeKey, lockedBy, leaseUntil,
attemptCount`, and whether `payloadJson` is there. `tempFiles` is the upload
directory, one file per `import_zip` job. `clock` is the time all processes
share. Per process: `pc` is where the worker loop or the thread it awaits is;
`now`, `cand`, `own` are the local variables of `claimNextQueuedProjectJob`
(the loop goes on selecting with the `now` it was called with); `exec` is the
execution state of the thread; `seen`, `after` what a project check has read
and where it returns to; `todo`, `stuck` are recovery's lists. `txn` is what an
open transaction of an API request (or of the enqueue after an import) has read.

#### One action, one statement

An action is one database statement, or one transaction whose row locks make it
atomic. Where a transaction is not atomic the model splits it:

* `createQueuedProjectJob`: the reads are a snapshot (`EnqueueBegin`), the
  writes and the commit come later (`EnqueueCommit`) and fail on the unique
  index over `(projectId, activeKey)` (`EnqueueRefused`).
* `deleteProjectCascade`: the check reads a snapshot (`DeleteBegin`), the
  DELETEs see what is committed (`DeleteCommit`).
* `replaceProjectFiles`: `ImportBegin` takes the lock on the project's row and
  keeps it (`IsLocked`) over `ImportPersistCheck`, which reads the job on
  another connection, until `ImportCommit`. Other writers of the project wait.
* `writeSuccessfulAnalysis`: the INSERT of the run locks, through its foreign
  keys, job and project; from the last checkpoint to the commit nobody changes
  them, so `AnalysisCommit` is one action.

One program counter stands for the loop and the thread because the loop awaits
the thread. When a thread is terminated, its open transaction is rolled back
unless its commit was already sent; that commit holds the job's row lock, so the
failure report of the main thread comes after it and the model has no third
case. An aborted checkpoint inside the analysis is first wrapped as a stage
error, but the abort is remembered and thrown again by the next checkpoint: the
outcome is that of the abort, which is what the model does.

The pcs follow the code's control: `select, claim, verify` the claim;
`load, start` the beginning of `runClaimedProjectJob`; `source, import_*` the
import; `bootstrap, bootstrap_write, analyze, analysis_*` the analysis;
`prefinalize, finalize, queue, queue_commit` the good end; `failjob, failwrite,
pread, pwrite` the bad one; `cleanup, cleanup_err` the finally block;
`failclaimed` the main thread's failure report; `rec_*` recovery.

#### Faults and time

`Crash` empties the memory of a process and lets it start again. `ThreadLost` is
the execution timeout, an uncaught error or an exit of the thread.
`StatementError` lets the next statement fail and follows the exception: a
checkpoint turns it into an abort, everything else goes to its catch block.
`Tick` advances the clock by one; a lease lasts `LeaseTicks`. With
`MayStall = TRUE` nothing holds the clock back, so a process may sleep for
several leases between two of its steps. With `MayStall = FALSE`
(`NobodyStalls`) time waits until the guardian of a live process has renewed
its lease and until a claim has been written: heartbeats are required to come
at least three times per lease (`projectJobState.ts:14-20`), and this is the
case in which they do.

#### The other state machines

**`WorkerServer`.** An instance is the main thread (0) or a thread; a thread
loads the same modules, so each instance has a scheduler (`loop`, `mine`,
`retry`) and a bridge (`worker`, `awaited`, `pending`) of its own, and a thread
that has finished an import kicks its own scheduler, not that of the main
thread. `thread`, `ready` and `events` are the threads started, the promise of
the handshake and the messages not handled yet. A message and its handler are
two steps, so that a timeout can fall between them. `phase` follows the
graceful shutdown. A job is claimed once here; leases are `ProjectWorkflow`'s
subject. `NestedStarts` says whether a thread finds the file of the thread
module, which depends on how the server was built.

**`Uploads`.** `request` is where the handler of an upload is, `disk` and `old`
the files and those past the time to live, `job` the import job of a file, `worker`
its thread (running it, or leaving with the finally block to come), `attempts`,
`lapsed` and `stale` its attempts, whether its lease has expired and whether
recovery has still to look at it, `sweep` what a sweep has read. A thread that
aborts leaves a running job and removes its file all the same (`Abort`,
`RemoveImported`); recovery, which only a start of the server brings, skips a job
within its lease, and a claim refuses one without an attempt left. A
sweep is the code's sequence: the time it begins, the paths of active jobs (or
none if the table cannot be read), the directory, then file by file. The time
to live, a day by default, is taken to be longer than a request.

**`AnalysisHistory`.** `runs` is `analysisResults`, `projection` the runs whose
rows are in the six derived tables, `baseline` the row of `analysisBaselines`.
A transaction is two actions: `...Begin` takes the snapshot its plain SELECTs
see (REPEATABLE READ), `...Commit` is everything from its first row lock on. A
request is one action per statement, its seven parallel SELECTs in any order
(the six derived tables count as one, they are only cleared and filled
together). Ownership of the job is left to `ProjectWorkflow`: two workers may
overlap, as they do there when one is superseded.

**`PagedQueries`.** A request is answered statement by statement (`step`,
`read`) while the worker may replace all rows (`replaced`). In memory the rows
are loaded, mapped, filtered, sorted and cut; in SQL a count, a page and the
lookups of names are separate statements. Names and paths are numbers in their
order of collation. `PagedDatabases` is what the schema guarantees of the tables:
keys that are unique and never used again, and references to rows that are there.
`RowsAt`, `Filtered` and `Sorted` stand for `filter` and `sort` of an array and are
written by the positions of the rows, not as folds, so that the proofs can say
what they return. Rows read without ORDER BY come, in the model, in the order of
their ids, that of the primary key.

**`FlowTracer`.** One step takes one entry of the tracer's work list; the
builder with its steps, warnings and limit flags is state. The limits are
constants.

**`ProjectAnalysis`.** One step reads one file, then links the calls of one
file, then comes one phase after the other: summary, import warnings, cut
documents, persisting. The summary reads the forms once more, and a form that was
skipped may fail again: it gives a warning and no events or bindings. `rows` are the
stored rows with their identities. `Collation` lists the names that occur in the order
of the alphabet, in which the code settles the last tie between two owners of a line.

#### The pure modules

Parsers, detectors, the impact analysis, the build audit, imports, groupings,
diffs and the gate are operators. A file is a sequence of lines, a line a record
of what its regular expressions match: the vocabulary of the model is what the
code's patterns distinguish, and the model is what the code does with a match
(nesting, ownership, order, limits). The MC modules enumerate the inputs, chosen
in the initial state, and compare the result with a reference: with the tree the
text was written from (`FilesAreReadAsWritten`, `SqlIsReadAsWritten`), with the
other implementation of the same question, with the converse question
(`ImpactIsMutual`), or with the input it must account for
(`ImportsAccountForTheirFiles`, `DiffTellsTheChange`).

## 3. Properties and runs

Properties are defined, with their reason, at the end of the module they are
about; those of pure modules in the module that takes their inputs
(`ReportQueries`, `AnalyzerParts`, `MCAnalyzer`).

| Run | Instance | What holds |
|---|---|---|
| `workflow_stalls` | 2 processes that may stall, 1 statement error, 2 jobs, 2 attempts (about a million states) | `TypeOK`, `JobRowsConsistent`, `TerminalIsFinal`, `LeaseNeverShrinks`, `StaleThreadLeavesJobAlone` |
| `workflow_prompt` | no stalls, 2 crashes or lost threads | `OneProcessPerJob`, `ActiveImportKeepsFile`, `OnlyOwnerReplacesFiles`, `ImplementsLifecycle` |
| `workflow_live` | no stalls, 1 crash, fairness | `JobsEnd`, `BusyProjectsSettle` |
| `server` | 2 jobs, 2 threads, 2 faults of five kinds, a signal at any time, fairness (66,444 states) | `CleanExitLeavesNoJob`, `ResolvedJobsHaveEnded`, `QueuedJobsAreTaken`, `RequestsSettle`, `SignalEndsProcess` |
| `uploads` | 2 uploads and their jobs, 1 sweep, 2 attempts, 2 faults, fairness (205,783 states) | `ActiveUploadsStay`, `UploadsEnd` |
| `history` | 2 workers, 1 request at a time, 3 runs, 1 import, 2 requests; a new or an upgraded project | `ProjectionIsNewestRun`, `BaselineIsUsable`, `RunNumbersFollowCommits`, `ImplementsLog` |
| `reads` | every kind of page over three databases with one analysis in between; summaries, diffs, run lists, exports and bursts of requests chosen at the start (97,308 states) | `SqlAnswersLikeMemory`, `PagesPartitionItems`, `OvertakenPageNamesItsRows`, `GroupsAnswerForTheirRows`, `DiffTellsTheChange`, `ReportsAgreeWithRuns`, `RequestsAreMetered` |
| `flow` | all call graphs of three routines, all clashes of a name, crowded lists (10,076 states) | `TraceTellsWhetherItIsWhole`, `StepsWithinLimit`, `TraceFollowsTheEventMap` |
| `analyzer` | projects of one to three files; SQL, forms, programs, indexes, build trees and archives, enumerated (28,370 states) | `SqlIsReadAsWritten`, `FilesAreReadAsWritten`, `ImpactIsMutual`, `AuditFollowsTheTree`, `NothingIsMissedSilently`, `ConfidenceAnswersToEvidence`, `StoredRowsHangTogether`, `ImportsAccountForTheirFiles` |

Three runs end in a counterexample: each checks one sentence of the
repository's README that the code does not keep.

| Run | The sentence | What happens |
|---|---|---|
| `finding_one_active_job` | one active job per project (README:527) | an import commits `ready`, its lease runs out before it is finalized, an enqueue clears its key and inserts a second job; the first is then renewed or reclaimed and both are active |
| `finding_import_file` | another worker may safely reclaim (README:521) | a checkpoint's statement fails, the thread aborts and deletes the upload of the job it leaves running |
| `finding_snapshot_rewritten` | runs are immutable (README:147) | a request reads a legacy run and its tables one by one, an import completes the same run and clears the tables in between, and the request overwrites the good snapshot with an emptied one |

Other disagreements the models contain, which no run states as a property:

* Stale workers cannot overwrite project state (README:520): after a stall
  between the last checkpoint and the commit the replaced files stand, because
  the row count of the fenced UPDATE in between is ignored.
* The queue is restart-safe (README:515): after a crash on the last attempt and
  a restart within the lease, recovery skips the job as alive and the claim
  refuses it as exhausted. `workflow_live` therefore has one crash and two
  attempts.
* Recovery fails a project only when it has no active job (README:515): a job
  can be queued between recovery's two reads.
* Lease recovery retries a timed-out job (README:430): the main thread fails it
  for good.
* Projects with active jobs cannot be deleted (README:528): an enqueue may
  commit between the check and the DELETEs.
* Job processing is the main thread's (docs/deployment.md:17): the scheduler a
  thread wakes after an import claims and dispatches jobs itself.
* `ensureProjectSourceFingerprint` (`analysisHistory.ts:244`) may write the
  fingerprint of files that an import has replaced since it read them.

Where the code does something else than its neighbours or its comments suggest, the
properties claim what it does and say so:

* Grouped pages (`projectPagedQueries.ts:630` and `669`): in memory risks and rules
  are sorted before they are grouped, in SQL they are grouped as they come. The
  groups, their counts and severities are the same (`SameFindings`), the samples and
  the order of groups that tie are not.
* The diff keys a risk by category, title and file (`analysisHistory.ts:598`). Of the
  items that share a key the last stands for all, on both sides: what becomes of the
  others does not show. `DiffTellsTheChange` applies the difference to the items, not
  to the keys, and excepts those that share one.
* SQL (`parser.ts:713`): `UPDATE o SET ... FROM orders o` writes to a table `o`
  (`AliasAsTarget`); a qualified name with marks at both its ends, `[o].[id]`, is
  stripped of the outer two before it is split (`parser.ts:453`), which leaves other
  names (`MarksAreOfOnePart`).
* Forms (`parser.ts:1614`): the `end>` that Delphi writes after the last column ends the
  column but not the list, and an empty list `<>` opens one; the objects are read, but
  the form is called unbalanced.
* Delphi routines: one with variables before its first `begin` is taken to be two lines
  long (`parser.ts:105`), so that the calls in its body go to the class or unit around
  it; a class goes on to the `end` after its own for every `class procedure` in it
  (`parser.ts:1924`); the owner of a line is sought in all files (`parser.ts:1028`), so
  that a short routine on the same lines of another file takes the calls; and a name that
  is declared in an interface too is found twice and hence not at all. `TellerOf` and
  `CalledBy` of `MCAnalyzer` say which symbol a call is told of.
* The score takes nothing for an empty exception handler
  (`src/shared/analysisConfidence.ts:221`): it looks for words that the title of the
  finding, "Broad or empty Delphi exception handling" (`riskDetector.ts:230`), does not
  have. `ConfidenceAnswersToEvidence` claims that such a finding costs nothing.
* Imports: an archive drops every name with `.env` anywhere in its path, a unit
  `MyApp.Environment.pas` for one, without a warning (`zipHandler.ts:50`); a clone drops
  a file called `.sql` (`gitHandler.ts:383`). `ImportsAccountForTheirFiles` excepts
  both, where it asks for an answer and where it compares the two imports.

### Bounds and why they are enough

* Queue: two processes, since every property is about a process and the one
  that took its job (they are interchangeable and the safety runs use that
  symmetry, the liveness runs do not); two job ids, an import and the analysis
  it enqueues, or a job and the one that replaces it; one project, since jobs of
  different projects meet only in the order of claims; two attempts, so that a
  job is claimed, given up, claimed again and then exhausted; `LeaseTicks` one
  and `MaxTime` three, so that a lease can expire twice. A fault happens only
  while the clock can still run for a lease, so that the bound hides no
  recovery. Each kind of fault is allowed in a passing run.
* Server: two jobs, so that one is claimed while a late answer to the other is
  under way; two threads, since each job is handed to a thread once and so
  starts at most one. With three jobs, three threads and one fault the same
  properties hold (225,099 states); that instance is not kept for its time.
* Uploads: two files, so that a sweep removes one and keeps one; two attempts, so
  that a job is aborted and taken again and an attempt is the last. One sweep under
  TLC; the proofs hold for any number.
* History: two workers make two transactions overlap; three runs, so that an
  old view can allocate a number twice; one request writes between any two
  statements of them, a second one after the first.
* Reads: lists one longer than a page and than a group keeps; page sizes that
  divide the list and that do not; one analysis in between, since a second
  replaces the rows just as the first. Bursts go to the limit, over it, and over
  the end of a window.
* Flow: a depth of one, nine steps and two traces, so that each limit is
  reached by some input and missed by another.
* Analyzer: sequences of up to three elements, lines, entries or files; a
  property that fails at all fails on a pair or a triple, since the code carries
  only the enclosing block, the previous line, the quote or a running total.

Deadlock is not checked: with the bounds on clock, faults, jobs and inputs a
system that is idle has no step left.

### Fairness

`LiveSpec` (queue) asks for weak fairness of each running process (the loop
polls with a timer and awaits only what its own steps finish), of starting a
stopped process (the deployment restarts it), and of time. It asks nothing of
clients, guardians or faults. A step that waits for a row lock waits for a
transaction of another process, which ends, commits or is rolled back under the
same fairness. Without stalls time cannot overtake a heartbeat.

`ServerFairness` asks for weak fairness of the poll timer (`setInterval`), of
the steps of the shutdown and of its time limit, of the scheduling and bridging
of each instance (timers and settled promises) and of what a thread has to do.
It asks nothing of clients, of signals, of faults, or of the HTTP server, whose
open connections may keep it from closing: that is why the time limit has to
cover that phase too.

The fairness of `Uploads` is that handlers go on, the thread of a job ends it, the
server claims a job it may claim and finishes the recovery it has begun, time
passes, and the sweep's timer fires again and again. It does not ask for recovery of
every running job, which only a start brings: a last attempt that was within its
lease then stays, and `UploadsEnd` names that state (`Stuck`). Crashes and failed calls are faults and
get none.

## 4. Proofs

### The queue

`ProjectWorkflow_proofs` proves, for any finite or infinite sets of projects,
processes and clients, any `MaxJobs`, `MaxAttempts` and `LeaseTicks`, with or
without stalls and with any faults, from the assumptions `JobConstants` and
`WorkflowConstants` alone:

| Theorem | Statement |
|---|---|
| `TypeCorrect` | `Spec => []TypeOK` |
| `RowsConsistent` | `Spec => []JobRowsConsistent` |
| `TerminalStaysFinal` | `Spec => TerminalIsFinal` |
| `WorkflowImplementsLifecycle` | `Spec => ImplementsLifecycle` |

`JobRowsConsistent` is not inductive. `IInv` is: the types; `RowsOK`, which
says of each row which columns belong to its status; and `RefsOK`, which says
what a program counter promises about what the process has read (a thread that
executes or fails a job knows a real project, one at a fenced finalization has
an owner to be fenced with, one at `queue_commit` has an open transaction).
Without the second, a claim could leave a running row without payload; without
the third, a finalization with no owner would be an unconditional write. TLC
checked `IInv` before it was proved.

The argument has three layers. First, each write of `ProjectJobState` keeps a
row consistent (`ClaimedOK`, `RenewedOK`, `FinishedOK`, ...). Second, one lemma
per action or per group of similar actions shows that it keeps `IInv`, and
`NextOK` collects them. Third, `NextJobs` classifies what any step does to the
table into seven cases (keeps it, renews, claims, ends, gives back, inserts,
deletes); `TerminalStep` and `LifecycleStep` look only at those cases. The
refinement also needs that ids not yet issued have no row (`Fresh`).

`ProjectWorkflow_proofs` then adds two invariants to `IInv` and proves with them:

| Theorem | Statement | Needs |
|---|---|---|
| `LeasesMoveForward` | `Spec => LeaseNeverShrinks` | `TimesOK` |
| `StaleThreadsAreFenced` | `Spec => StaleThreadLeavesJobAlone` | `FencesOK` |

`TimesOK`: no lease lies more than `LeaseTicks` ahead of the clock, the `now` of a
process never lies ahead of it, and the running candidate a process has read had
expired by that `now`. A claim counts its lease from `now`, which a stall leaves
arbitrarily old; but its `WHERE` clause demands the lease that was read, so the new
lease starts where the old one had already ended.

`FencesOK`: a row that is gone holds no key, what a process executes has an id
that was handed out, and a thread at `queue` or `queue_commit` has ended its own
job. All writes of a thread but one are fenced; the one, the transaction that
queues the next analysis, clears the key of the jobs it has found stale and
inserts a row. By `FencesOK` the thread's own job has no key left to clear and is
not the row inserted.

### The uploads

`Uploads_proofs` proves, for any set of uploads, any number of sweeps at once
and any number of faults, from `UploadConstants` (the bound on faults is a
natural number, a job has an attempt) alone:

| Theorem | Statement |
|---|---|
| `UploadsInvariance` | `Spec => []IInv` |
| `ActiveUploadsAreKept` | `Spec => ActiveUploadsStay` |

`ActiveUploadsStay` is about steps and needs to know why the order of a sweep's
reads is right. `IInv` is: the types; `QueuedLate`, a job exists only once its
request has committed it; `ExpiredIsDone`, a file that is old, or that a sweep
counts as expired, has a finished request; `KeptIsComplete`, a sweep that has
read the table keeps every active job among its expired files. The last holds
because a job of an expired file cannot become active after the table was read:
its request is over. `ThreadsFitJobs` says that a thread runs a running job, that one
that leaves has a job still running or ended, and that recovery looks at no job with
a thread: so no thread removes the file of a job that waits again. One lemma each for
requests, jobs, sweeps and the rest shows that `IInv` is kept; then only four actions
remove a file, and each of them is one of the allowed cases.

### The history

`AnalysisHistory_proofs` proves, for any number of overlapping workers, of
requests at once, of imports and runs, from `HistoryConstants` alone (the bounds
are natural numbers, there is room for one run, `NULL` is no source):

| Theorem | Statement |
|---|---|
| `CommitsAreNumberedInOrder` | `Spec => RunNumbersFollowCommits` |
| `ProjectionShowsNewestRun` | `Spec => []ProjectionIsNewestRun` |
| `BaselineStaysUsable` | `Spec => []BaselineIsUsable` |

None of the three asks for more of a run than its id, number and status, its
*key*; and backfills, which write whole rows read long before, never change a key.
So the invariant is about sets of keys, and every action falls into one of four
kinds: it reads (or writes only snapshots, fingerprints and the baseline), it
removes the runs that are pending, it commits a run, or it deletes the project.
The parts of the invariant:

* `KeysOK`: an id has one key, and a run still pending is the first (only an older
  version leaves one);
* `ViewsOK`: what an open transaction has seen is unchanged if it is still there,
  and no number has been skipped since (`NothingSkipped`): if the table holds a
  number above the one this transaction will allocate, it also holds that one;
* `RequestsOK`: the same for the run a request holds between two statements;
* `ProjectionOK`, `BaselineOK`: the two properties, on keys.

`NothingSkipped` is the heart of it. The number comes from an old view, and the
unique index refuses only an equal number, not a smaller one. But a larger one can
only have been committed after that very number was, and then the index refuses.
The refinement needs more:

| Theorem | Statement |
|---|---|
| `HistoryImplementsLog` | `Spec => ImplementsLog` |

The log holds whole runs, so keys no longer do. What can change a run is a
backfill, with a row read long before. `LogInv` adds to `IInv` that no id and no
number is given twice and a run of this version has its snapshot from its commit
on (`RowsOK`), that a row an open transaction has seen is still of the version it
was (`SeenRowsOK`), that a row a request holds between two statements is one of the
older version (`HeldRowsOK`), and that an erased project is empty (`ErasedOK`). A
backfill only takes up rows without a snapshot, so it completes runs of the older
version and nothing else. The log of the mapping is the runs in the order of
their numbers; `NothingSkipped` is why a commit appends to it.

### The server process

`WorkerServer_proofs` proves, for any number of jobs, threads and faults and
wherever the server was started from, from `ServerConstants` alone:

| Theorem | Statement |
|---|---|
| `CleanExits` | `ServerSpec => []CleanExitLeavesNoJob` |
| `ResolvedAnswers` | `ServerSpec => ResolvedJobsHaveEnded` |

Neither needs the fairness. The invariant is about who may end a job:

* `MineOK`, `MainOK`: a loop that holds a job has claimed it; and a job that the
  main thread claimed and nobody has ended is the one its loop holds.
* `PendingOK`: a request is pending only while its loop waits for it, so that a
  late answer finds no other request.
* `AnswersOK`: a thread works on claimed jobs only, and an answer on its way that
  says yes is of a job that is over.
* `PhaseOK`: the phase in which the database is closed, and a clean exit, are
  reached only after the loop has ended, and no loop starts again.

### The tracer

`FlowTracer_proofs` proves, for any forms, symbols, call graphs, statements and
limits, from `LimitsAssumption` (a trace has room for one step) and
`InputsAssumption` (the symbols are finitely many, their keys are unique, and the
last part of a Pascal routine's qualified name is its name, as the parser writes
it, parser.ts:1423):

| Theorem | Statement |
|---|---|
| `StepsStayWithinLimit` | `Spec => []StepsWithinLimit` |
| `TracesTellTheWhole` | `Spec => []TraceTellsWhetherItIsWhole` |
| `TracesFollowTheMap` | `Spec => []TraceFollowsTheEventMap` |

The second is about a walk that may visit anything in any order, and its
invariant says where the rest of a routine is: as long as nothing has been cut
(`Clean`), what a visited symbol has is shown, or it is still on the work list
(`SqlOK`, `TablesOK`, `FieldsOK`, `CallsOK`), and every routine shown has been
visited. A step that is refused leaves the loop and drops the rest of it
(`Broken`); but the builder is then no longer clean, and from there on the status
cannot be complete and the warnings cannot be empty (`Telling`). Each action takes
the head of the list and is shown to put on display what it takes (`Taken...`), or
to end the clean part of the walk. At the end the list is empty, and what was
queued is shown.

The third compares two resolutions of a name. That of the map looks among Pascal
routines by name, class and unit; that of the tracer among all symbols, by the
qualified name and file the map has found. The lemmas follow the candidates
through the narrowing: the map's routine is never lost, all that are left with it
have its qualified name and its file (`HandlerCandidates`), and a second routine
among them would have been left in the map's resolution too (`CandidatesAlike`),
which was unambiguous. What remains is a symbol that is no routine, such as a
class named like one: then the tracer has no handler. The property names that case
and asks that the trace is not complete.

### The pages

`PagedQueries_proofs` proves, for any tables and requests, from `PagedConstants`,
`PagedDatabases` and `PagedInputs` (the argument schema of the routes: numbers,
but of any size and sign):

| Theorem | Statement | Needs |
|---|---|---|
| `PagesShowEveryItem` | `PageSpec => []PagesPartitionItems` | `PageTypeOK` |
| `OvertakenPagesAreHonest` | `PageSpec => []OvertakenPageNamesItsRows` | `OvertakenInv` |
| `SqlAnswers` | `PageSpec => []SqlAnswersLikeMemory` | `SqlInv` |

The first is about operators and holds in every state. It rests on what they
return for lists of any length: in a strict order of finitely many things every
place is taken once (`Places`), so what `Filtered` keeps and what `Sorted` orders
are lists again, as long as they should be (`RowsAreKept`, `SortedLists`,
`RowsInOrder`); the grouped rows are a list (`GroupsAreLists`); and the pages of
one size follow one another up to the last row and not beyond (`PagesHoldAll`,
`PagesMakeTheList`).

`OvertakenInv`: between the statements of a page the rows it has read are rows of
one analysis, whichever is in the tables by then. Since ids are never used again,
a row that is looked up later has its own name or is gone (`NamesStayOrGo`).

`SqlInv`: as long as no analysis has committed, what the statements have found is
what the tables hold. The WHERE clause over ids selects what the filter over names
keeps (`SameRowsAreSelected`), the count is the length of the list, and a page cut
from the rows and then named is the page cut from the named rows
(`CutsOfTwoLists`). On the overview the sum over the fields of a table is a fold
over a set; it equals the count of the join because each use has one field
(`SumOfUses`). The dependencies come in another order; the pages then agree in all
but their items (`PagesOfSameLength`). The theorem leaves out the two kinds of pages that
are grouped: that two orders of the rows make the same groups is model-checked only.

The two inductions this takes, over the length of a list and over the elements of
a set, are made on sets, as `LeastNumber` and `ElementByElement` do: a set of
counterexamples that is not empty has a least element. The facts about
well-founded relations that take a set can be cited; those that take an operator
cannot.

### The summaries, the differences and the gate

`ReportQueries_proofs` proves, for lists of any length, from `ReportInputs` (what
kind of rows an analysis finds) and `PagedConstants`:

| Theorem | Statement |
|---|---|
| `DiffsTellTheChange` | `PageSpec => []DiffTellsTheChange` |
| `GroupsTellTheTruth` | `PageSpec => []GroupsAnswerForTheirRows` |
| `ReportsAgree` | `PageSpec => []ReportsAgreeWithRuns` |
| `GateKeepsItsLimits` | `PageSpec => []RequestsAreMetered` |

They are about operators. A difference shows the first items of each list only.
What it shows is the beginning of that list (`BucketShows`), whichever way round
the difference is asked for, so the two directions mirror each other even when cut
(`EntriesTurn`, `TurnedBuckets`). Where nothing is cut the shown lists name their
keys in full (`ShownInFull`), and removing, replacing and adding them, applied to the
items themselves, makes the items of the one snapshot those of the other, but for items
that share a key, of which only the keys agree (`ChangesApply`, `SectionTells`).

A summary folds duplicates into one entry, may group the entries again by their
text, filters, sorts and cuts sample lists on the way; the property is that none
of this loses or doubles a row. The notion that survives every step is that a list
of entries *stands for* the rows: each row is behind exactly one entry, an entry's
count is the number of rows behind it, its severity the worst of theirs, and its
samples name their locations as long as there is room for all of them.
`DedupeStands` makes such a list of the rows, `RearrangedStands` keeps it under
sorting, `GroupedAnswers` and `GroupsStand` under grouping, and `PartsAddUp` counts
the rows from it. Grouping by keys in the order of their first occurrence covers
every row once (`EachKeyOnce`, `ClassesCover`). That the worst group comes first
follows from what sorting by several ranks does (`SortingNumbers`, `RowsAreSorted`,
`GroupsAreSorted`) and from the severity a group carries (`WorstOf`).

Of runs it is assumed that ids are unique and not zero, that a project numbers its
runs apart, and that a source file is stored once (the keys of drizzle/schema.ts);
of a snapshot also that its symbols and risks lie in its files (`IsSnapshot`).
A numbering of a set (`Numbers`) is what `SetToSeq` makes of the usable runs
(`SetsAreNumbered`), what sorting leaves one (`NumberedAgain`) and what makes the
pages, put together, list each run once (`RunsAreListed`). The list asks for the newest
run of one project, the status for the first match in the sorted runs of all; that
they name the same run needs that nothing sorted further back precedes
(`SortingOrders`, `FirstKept`, `FirstIsNewest`). In the report every count is the size of
a set of positions, and a column adds up because the files share the positions
among them (`SharedOut`, `ColumnsAddUp`, `SignalsAreShared`). A symbol that cannot be
resolved has no file; a dependency without a source is in no row, and the theorem
says so (`SymbolsHaveFiles`, `InventoryCounts`).

The gate takes requests one after the other, of anybody and to any procedure; it is
assumed that the clock does not go back between them (`InTime`). `EveryKeyStands`
carries from request to request, for every key, that its entry counts the requests
that got through since the entry was opened (`KeyStands`), and that no span of one
window ever saw twice the limit: such a span meets two entries at most, and what is
left of the older one is less than the limit, since the span begins after the request
that opened it (`FirstWindow`, `NextWindow`, `FullerWindow`). `LimitsAreKept` is then
about the entry alone. `KeysStayApart` compares the entry with the one that the
requests of the key alone would have left, and `RetriesHelp` needs that the user of a
request is the same when it is made again, although the first one may have added it
to the table (`SameUser`).

### The analysis

`ProjectAnalysis_proofs` proves, for any files, in any number and order, whichever
of them the parsers fail on:

| Theorem | Statement | Needs |
|---|---|---|
| `RowsHangTogether` | `Spec => []StoredRowsHangTogether` | `RowsInv` |
| `NothingIsMissed` | `Spec => []NothingIsMissedSilently` | `SumInv` |
| `ScoresAnswerToEvidence` | `Spec => []ConfidenceAnswersToEvidence` | `SumInv` |
| `ImpactReadsFromBothEnds` | `Spec => []ImpactIsMutual` | |
| `ImportsAccount` | `Spec => []ImportsAccountForTheirFiles` | |

the first three from two assumptions, the others from one or two of their own.
`AnalyzedLanguages`: Delphi, Go and SQL are supported.
`AnalyzedInputs`: the language of a file is its extension
(projectAnalysisRunner.ts:263) and no two files have one path (zipHandler.ts:246;
a clone is a directory); a warning of the import is a warning and no note
(projectWorkflow.ts:1131); and what the patterns of the parsers match has a name, a
Pascal routine being of one of four kinds or qualified, and a call in Go having at
most a receiver. TLC evaluates both on the inputs of the run `analyzer`.

`RowsInv` is about what has been found so far (`FoundStands`): the symbols are a
list, each with a name, a type and lines; every file parsed has left its symbols
there; every dependency has a name and comes from one of them; and every reference
belongs to one of them or to none. Each parser gets lemmas that what it adds is of
that kind, put together in `FilesGiveSymbols` and `FilesAreLinked`: a block ends at
some line (`BlockEnds`), the owner of a line and the target of a call are symbols
that were given (`OwnersAreSymbols`, `TargetsAreSymbols`, `GoTargetsAreSymbols`), the
objects of a form have names however they are nested (`FormsStand`, an induction
over the lines, on the set of those that break it), and a dependency without an
owner in the file has a symbol all the same, that of its unit (`DelphiIsLinked`).
`RowsHang` then goes from there to the rows: a target is found again under its own
key before any name is compared.

`SumInv` counts. While files are read, `Accounts` says of the first *n* that each
one not parsed, or read with reservations, is named by a warning, and that the
counts of analyzed and degraded files tell whether there is such a one.
`ResultStands` carries that over to the summed up result and survives what is added
afterwards: warnings of the import, and the cut of documents, each of which brings
a warning of its own (`GrownStand`, `ImportsAdded`, `DocumentsCut`). The counts are
of sets, so it has to be shown that they are finite (`WarningsAreFinite`,
`FiniteWrites`).

The score is a hundred less fourteen losses, each of them bounded and none smaller
for more warnings or risks (`LossesAre`, `LossesShrink`); their sum, a fold over
the names of the losses, is written out by `LossesAddUp`. A full score leaves no
loss at all, hence no file skipped, none degraded and no warning (`ScoresAnswer`); an
empty handler is none of the findings that cost something (`HandlersCostNothing`).

The impact analysis asks the same rows from two ends: from a symbol along the calls
forwards and backwards, from a field to its users and from a routine to its fields,
from a file and from each of its symbols. `ReachMutual`, `UsesMutual` and `FilesCover`
show for any rows that the two ends agree, and `AutoSomeType` that a target without
a type is answered as one of a known type. `IndexRows` is what they assume: a field
is stored with the name of its table.

An import is a fold over what it reads. `ZipRun` and `GitRun` turn the fold into a run,
the import after each entry being one step of `ZipEntry` or `GitEntry` from the import
before it, and `StepByStep` carries along the run what stands of the first entries
(`ZipStands`, `GitStands`). Its core are the books (`Booked`): no path is kept twice or
both kept and warned of, nothing is kept or called too large that was not considered,
the bytes and the number of kept files are at most what the import has counted, and
while it is not refused the counts are within the limits and every entry considered is
answered. For an archive the keys are added to it: those of the kept files are
pairwise apart and known, which is what makes the refusal of a key that was seen before
keep two names apart that differ by their case (`KeysCollide`); for a clone, that
what lies outside was warned of, and no path comes twice because the entries are a
tree. Each step either keeps a file, warns of it, passes, or refuses
the import for good (`ZipStep`, `GitStep`), and the books stand any of these
(`BooksKeep`, `BooksPass`).

That an archive and a clone of the same plain files agree is a relation between two
runs (`Alike`): as long as the archive is not refused, the clone has kept the same
files, told the same warnings, read as many bytes and counted no more candidates,
since an archive counts a file that is too large and a clone does not (`SourcesAlike`,
`EntriesAlike`). So the clone may succeed where the archive is refused, and the
property does not claim the converse. `ChunksMakeTheList` shows that the chunks, one
after the other, are the list, and `StatsAddUp` that the counts by
extension and by language add up to it. What is assumed, `EntriesAreRead` and
`LimitsAreNumbers`, is that an entry has a path, a kind and sizes, that limits are
numbers and that a chunk is not empty (both are constants, shared/const.ts:12 and
fileExtractor.ts:7); nothing relates the size an archive declares to the real one.

### Only model-checked

Liveness, which needs fairness. `OneProcessPerJob`, `ActiveImportKeepsFile` and
`OnlyOwnerReplacesFiles`, which hold only without stalls and rest on a relation
between clock, leases and program counters.

`OneProcessPerJob` is not true of every instance, and so cannot be proved. Without
stalls it still fails for four processes, a lease of three ticks, a budget of
three attempts and three crashes, if a process that restarts keeps its identity
(the model always lets it; in the code that is the case when `PROJECT_WORKER_ID`
is set, projectWorkflow.ts:126). A claim of a queued job compares no attempt
number (projectWorkflow.ts:740), so one that was delayed writes a smaller number
than the job already had, and the owner of a crashed attempt can then hold the
same attempt a second time. A startup recovery that read the row before is fenced
by owner and attempt only (projectJobRecovery.ts:215) and gives the live job back.
The trace has 53 states and was found with TLC by restricting the order of the
claims and crashes; the run `workflow_prompt` stays below these bounds, and holds.

The properties of the parsers and the build audit that `MCAnalyzer` checks on
enumerated inputs (`SqlIsReadAsWritten`, `FilesAreReadAsWritten`,
`AuditFollowsTheTree`). They are about folds over the text or the tree of a build;
what a fold returns for every input is an induction, which is made by hand, on a set of
counterexamples, wherever one is proved above.
What a form should be read as is a tree, written and walked by the recursive
operators of `FormTrees`.

## 5. What is left out

Within the modelled parts:

* Columns nothing decides on: progress, messages, error codes, `heartbeatAt`,
  `startedAt`, `finishedAt`. Rows without lease columns, which only older
  versions wrote, and with them the stale-window heuristic of recovery.
* In the queue, the content of archives, repositories and analyses: one step
  that succeeds or fails. A ZIP sent inline has no temporary file and takes the
  steps of a Git import.
* A commit whose acknowledgement is lost (except for the commit of an upload's
  job, `CallFails`). A statement that fails during startup recovery ends the
  start of the process and is covered by `Crash`.
* Regular expressions: a model of a parser starts from what they match. Names
  are sequences of parts; their case and their quoting occur only in `SqlText`
  and `SourceImport`, where they decide something. Line numbers are positions.
* Columns of stored rows that nothing refers to, and the rows of risks and
  rules; wildcards of resource paths; wording, titles and the order of equal
  entries.
* The rate limiter's store, which the code never empties, is a function of the
  requests made. All durations but leases, windows and ages.

Not modelled:

* The retry helper (`_core/retry.ts`) and the experimental AST parser: no
  production code calls them.
* The web client: it polls and presents, the server relies on nothing it keeps.
* The validation of Git URLs, DNS checks and the git process; the limiters of
  the HTTP routes, which are a library; the OAuth exchange and the development
  login; health, environment, logging, the connection pool and migrations: each
  is input and output around the modelled state.
* The Markdown of the documents and the bytes of the exported ZIP: layout.
* Scripts and container set-up.

## 6. What could come next

1. The exact bounds on leases, attempts and faults below which
   `OneProcessPerJob` holds without stalls.
2. The history with more than one request at a time, and its composition with
   the queue, so that overlapping workers are exactly those the leases allow.
