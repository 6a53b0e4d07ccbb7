---------------------------- MODULE AnalysisHistory ----------------------------
(***************************************************************************)
(* One project's source files, its analysis runs, the rows derived from    *)
(* the newest run (the projection) and its baseline: what the worker's     *)
(* import and analysis transactions do to them, and what API requests do   *)
(* that read the history without a transaction and complete it on the way  *)
(* (legacy snapshots, missing source fingerprints).                        *)
(*                                                                         *)
(* A transaction is two actions: Begin takes the snapshot its plain        *)
(* SELECTs see (REPEATABLE READ), Commit is everything from its first row  *)
(* lock on.  A request is one action per statement.                        *)
(*                                                                         *)
(* A set of source files is one value of Sources, which is also what its   *)
(* fingerprint tells apart.  Ownership is left to ProjectWorkflow: two     *)
(* workers may overlap, as they do there when one is superseded.           *)
(***************************************************************************)
EXTENDS Integers, FiniteSets, FiniteSetsExt

CONSTANTS Workers, Requests, Sources,
          None,         \* NULL, and the source of a project without files
          UpgradeFrom,  \* statuses a run left by an older version may have
          MaxRuns,      \* bound: ids 1..MaxRuns of the runs
          MaxImports,   \* bound on the imports
          MaxRequests   \* bound on the API requests that write

RunIds   == 1..MaxRuns
Snapshot == [manifest : Sources \cup {None}, rows : SUBSET RunIds]

ASSUME HistoryConstants ==
  /\ None \notin Sources \cup RunIds \cup Snapshot
  /\ UpgradeFrom \subseteq {"completed", "failed", "processing"}
  /\ MaxRuns \in Nat \ {0} /\ {MaxImports, MaxRequests} \subseteq Nat

VARIABLES project,    \* the row of the project: [exists, status, fp]
          files,      \* the source files stored for it
          runs,       \* table analysisResults
          projection, \* the runs whose derived rows are in the six tables
          baseline,   \* id of the run analysisBaselines names
          work,       \* per worker: what its job has read and where it is
          request,    \* per API request: likewise
          count       \* [imports, requests, runs] so far

vars == <<project, files, runs, projection, baseline, work, request, count>>

\* The state machine of a project is that of ProjectJobState.
State == INSTANCE ProjectJobState
  WITH Projects <- {1}, Servers <- Workers, MaxJobs <- 1, MaxAttempts <- 1,
       LeaseTicks <- 1, Nobody <- None, NoProject <- None

UsableStatuses == {"completed", "completed_with_warnings", "partial"}
RunStatuses    == UsableStatuses \cup {"pending", "processing", "failed"}
Run == [id : RunIds, number : RunIds, status : RunStatuses,
        fp : Sources \cup {None}, snapshot : Snapshot \cup {None}, legacy : BOOLEAN]

Usable(rows)  == {run \in rows : run.status \in UsableStatuses}
Settled(rows) == {run \in rows : run.status \notin {"pending", "processing"}}
NumberOf(run) == run.number

\* What a transaction's plain SELECTs see.
View == [project |-> project, files |-> files, runs |-> runs, projection |-> projection]
NoView == [project |-> [exists |-> FALSE, status |-> "draft", fp |-> None],
           files |-> None, runs |-> {}, projection |-> {}]

IdleWork == [pc |-> "idle", source |-> None, view |-> NoView]
IdleRequest == [pc |-> "idle", run |-> None, todo |-> {}, manifest |-> None,
                rows |-> {}, found |-> FALSE]

Init ==
  /\ work = [w \in Workers |-> IdleWork]
  /\ request = [r \in Requests |-> IdleRequest]
  /\ baseline = None
  /\ \/ \* a new project
        /\ project = [exists |-> TRUE, status |-> "draft", fp |-> None]
        /\ files = None /\ runs = {} /\ projection = {}
        /\ count = [imports |-> 0, requests |-> 0, runs |-> 0]
     \/ \* a project of an older version: one run, which has no snapshot
        \E status \in UpgradeFrom, source \in Sources :
          /\ project = [exists |-> TRUE, fp |-> None,
                        status |-> IF status = "completed" THEN status ELSE "failed"]
          /\ files = source
          /\ runs = {[id |-> 1, number |-> 1, status |-> status, fp |-> None,
                      snapshot |-> None, legacy |-> TRUE]}
          /\ projection = IF status = "completed" THEN {1} ELSE {}
          /\ count = [imports |-> 0, requests |-> 0, runs |-> 1]

(***************************************************************************)
(* Helpers of the transactions.                                            *)
(***************************************************************************)
\* The run materializeLegacySnapshotIfMissing completes.  An upgraded project
\* has one, so the choice among several never arises.
MissingSnapshot(rows) == {run \in Usable(rows) : run.snapshot = None}

Completed(run, manifest, rows) ==
  [run EXCEPT !.snapshot = [manifest |-> manifest, rows |-> rows],
              !.fp = IF run.fp = None THEN manifest ELSE run.fp]

\* The backfill inside a transaction: it reads the transaction's view and
\* writes the row by its id.
Backfilled(rows, view) ==
  {IF \E seen \in MissingSnapshot(view.runs) : seen.id = run.id
     THEN Completed(CHOOSE seen \in view.runs : seen.id = run.id, view.files, view.projection)
     ELSE run : run \in rows}

\* Variant for the mutants: the last number instead of the next.
AllocateLastRunNumber(rows) == Max({0} \cup {run.number : run \in rows})
AllocateNextRunNumber(rows) == Max({0} \cup {run.number : run \in rows}) + 1

\* The unique index on (projectId, runNumber) refuses the row, three times:
\* the retries allocate from the view of the same transaction.
\* Variant for the mutants: no such index.
NeverTaken(number) == FALSE
RunNumberTaken(number) == \E run \in runs : run.number = number

\* Variant for the mutants: a failed analysis throws away all runs.
NoRunsLeft(rows) == {}
WithoutPending(rows) == Settled(rows)

\* Variant for the mutants: the projection of the last run is kept.
ProjectionKept(rows) == rows
ClearedProjection(rows) == {}

(***************************************************************************)
(* Imports.                                                                *)
(***************************************************************************)
BecomesBusy(w, status) ==
  /\ project.exists
  /\ work[w].pc = "idle"
  /\ project.status \in State!AllowedFor(IF status = "analyzing" THEN "analyze" ELSE "import_git")
       \cup (IF Cardinality(Workers) > 1 THEN State!BusyStatuses ELSE {})
  /\ project' = [project EXCEPT !.status = status]

ImportStart(w, source) ==
  /\ count.imports < MaxImports
  /\ BecomesBusy(w, "importing")
  /\ work' = [work EXCEPT ![w] = [IdleWork EXCEPT !.pc = "extract", !.source = source]]
  /\ count' = [count EXCEPT !.imports = @ + 1]
  /\ UNCHANGED <<files, runs, projection, baseline, request>>

ReplaceFilesBegin(w) ==
  /\ work[w].pc = "extract"
  /\ work' = [work EXCEPT ![w].pc = "replace", ![w].view = View]
  /\ UNCHANGED <<project, files, runs, projection, baseline, request, count>>

ReplaceFilesCommit(w) ==
  /\ work[w].pc = "replace"
  /\ project.exists
  /\ State!MayBecome(work[w].view.project.status, "importing")
  /\ runs' = Backfilled(runs, work[w].view)
  /\ projection' = ClearedProjection(projection)
  /\ files' = work[w].source
  /\ project' = [project EXCEPT !.status = "ready", !.fp = work[w].source]
  /\ work' = [work EXCEPT ![w] = IdleWork]
  /\ UNCHANGED <<baseline, request, count>>

ImportFails(w) ==
  /\ work[w].pc \in {"extract", "replace"}
  /\ project' = IF project.exists /\ project.status = "importing"
                  THEN [project EXCEPT !.status = "failed"] ELSE project
  /\ work' = [work EXCEPT ![w] = IdleWork]
  /\ UNCHANGED <<files, runs, projection, baseline, request, count>>

(***************************************************************************)
(* Analyses.                                                               *)
(***************************************************************************)
AnalysisStart(w) ==
  /\ count.runs < MaxRuns
  /\ BecomesBusy(w, "analyzing")
  /\ runs' = WithoutPending(runs)
  /\ work' = [work EXCEPT ![w] = [IdleWork EXCEPT !.pc = "load"]]
  /\ UNCHANGED <<files, projection, baseline, request, count>>

LoadFiles(w) ==
  /\ work[w].pc = "load"
  /\ work' = [work EXCEPT ![w].pc = IF files = None THEN "error" ELSE "analyze",
                          ![w].source = files]
  /\ UNCHANGED <<project, files, runs, projection, baseline, request, count>>

WriteSuccessBegin(w) ==
  /\ work[w].pc = "analyze"
  /\ work' = [work EXCEPT ![w].pc = "persist", ![w].view = View]
  /\ UNCHANGED <<project, files, runs, projection, baseline, request, count>>

\* The run and its rows are of the files that were loaded.  If they have been
\* replaced since, the rows of its symbols violate a foreign key; an analysis
\* without symbols does not notice, so the model lets every one through.
WriteSuccessCommit(w, status) ==
  LET view   == work[w].view
      number == AllocateNextRunNumber(Settled(Backfilled(view.runs, view)))
      id     == count.runs + 1
  IN /\ work[w].pc = "persist"
     /\ project.exists
     /\ id \in RunIds
     /\ ~RunNumberTaken(number)
     /\ State!MayBecome(view.project.status, "completed")
     /\ runs' = WithoutPending(Backfilled(runs, view))
                  \cup {[id |-> id, number |-> number, status |-> status, legacy |-> FALSE,
                         fp |-> work[w].source,
                         snapshot |-> [manifest |-> work[w].source, rows |-> {id}]]}
     /\ projection' = ClearedProjection(projection) \cup {id}
     /\ project' = [project EXCEPT !.status = "completed", !.fp = work[w].source]
     /\ count' = [count EXCEPT !.runs = id]
     /\ work' = [work EXCEPT ![w] = IdleWork]
     /\ UNCHANGED <<files, baseline, request>>

\* Any statement of the analysis or of its transaction fails, the duplicate
\* run number among them.
AnalysisError(w) ==
  /\ work[w].pc \in {"analyze", "persist"}
  /\ work' = [work EXCEPT ![w].pc = "error"]
  /\ UNCHANGED <<project, files, runs, projection, baseline, request, count>>

WriteFailedAnalysis(w) ==
  /\ work[w].pc = "error"
  /\ runs' = WithoutPending(runs)
  /\ project' = IF project.exists /\ State!MayBecome(project.status, "failed")
                  THEN [project EXCEPT !.status = "failed"] ELSE project
  /\ work' = [work EXCEPT ![w] = IdleWork]
  /\ UNCHANGED <<files, projection, baseline, request, count>>

\* A checkpoint finds that the job has another owner, or the process dies.
Abandoned(w) ==
  /\ work[w].pc # "idle"
  /\ work' = [work EXCEPT ![w] = IdleWork]
  /\ UNCHANGED <<project, files, runs, projection, baseline, request, count>>

\* deleteProjectCascade; no job of the project is active.
DeleteProject ==
  /\ project.exists
  /\ \A w \in Workers : work[w].pc = "idle"
  /\ project' = [project EXCEPT !.exists = FALSE]
  /\ files' = None /\ runs' = {} /\ projection' = {} /\ baseline' = None
  /\ UNCHANGED <<work, request, count>>

(***************************************************************************)
(* Requests that read the history: the legacy snapshot first ...           *)
(***************************************************************************)
MayRequest(r) == project.exists /\ request[r].pc = "idle" /\ count.requests < MaxRequests
Answered(r)   == request' = [request EXCEPT ![r] = IdleRequest]
Requested     == count' = [count EXCEPT !.requests = @ + 1]

\* listAnalysisRuns, getAnalysisRunDetail, the export: the candidates.
HistoryRequest(r) ==
  /\ MayRequest(r)
  /\ Requested
  /\ request' = [request EXCEPT ![r] =
       IF MissingSnapshot(runs) = {}
         THEN [IdleRequest EXCEPT !.pc = "project"]
         ELSE [IdleRequest EXCEPT !.pc = "tables", !.todo = {"files", "rows"},
                                  !.run = CHOOSE run \in MissingSnapshot(runs) : TRUE]]
  /\ UNCHANGED <<project, files, runs, projection, baseline, work>>

\* Seven SELECTs at once, each on a connection of its own.
ReadTable(r, table) ==
  /\ request[r].pc = "tables"
  /\ table \in request[r].todo
  /\ request' = [request EXCEPT ![r].todo = @ \ {table},
                                ![r].manifest = IF table = "files" THEN files ELSE @,
                                ![r].rows = IF table = "rows" THEN projection ELSE @]
  /\ UNCHANGED <<project, files, runs, projection, baseline, work, count>>

MaterializeSnapshot(r) ==
  /\ request[r].pc = "tables"
  /\ request[r].todo = {}
  /\ runs' = {IF run.id = request[r].run.id
                THEN Completed(request[r].run, request[r].manifest, request[r].rows)
                ELSE run : run \in runs}
  /\ request' = [request EXCEPT ![r] = [IdleRequest EXCEPT !.pc = "project"]]
  /\ UNCHANGED <<project, files, projection, baseline, work, count>>

(***************************************************************************)
(* ... then the fingerprint of the current source, which selects the run   *)
(* that is shown as the current one.                                       *)
(***************************************************************************)
StatusRequest(r) ==
  /\ MayRequest(r)
  /\ Requested
  /\ request' = [request EXCEPT ![r].pc = "project"]
  /\ UNCHANGED <<project, files, runs, projection, baseline, work>>

ReadProject(r) ==
  /\ request[r].pc = "project"
  /\ IF project.exists /\ project.fp = None
       THEN request' = [request EXCEPT ![r].pc = "files"]
       ELSE Answered(r)
  /\ UNCHANGED <<project, files, runs, projection, baseline, work, count>>

ReadFiles(r) ==
  /\ request[r].pc = "files"
  /\ IF files = None
       THEN Answered(r)
       ELSE request' = [request EXCEPT ![r].pc = "fingerprint", ![r].manifest = files]
  /\ UNCHANGED <<project, files, runs, projection, baseline, work, count>>

WriteFingerprint(r) ==
  /\ request[r].pc = "fingerprint"
  /\ project' = IF project.exists THEN [project EXCEPT !.fp = request[r].manifest] ELSE project
  /\ Answered(r)
  /\ UNCHANGED <<files, runs, projection, baseline, work, count>>

(***************************************************************************)
(* The baseline.                                                           *)
(***************************************************************************)
\* Variant for the mutants: any run of the project will do.
AnyRun(rows) == rows
MayBeBaseline(rows) == Usable(rows)

CheckBaseline(r, run) ==
  /\ MayRequest(r)
  /\ Requested
  /\ run \in MayBeBaseline(runs)
  /\ request' = [request EXCEPT ![r].pc = "pointer", ![r].run = run]
  /\ UNCHANGED <<project, files, runs, projection, baseline, work>>

ReadBaseline(r) ==
  /\ request[r].pc = "pointer"
  /\ request' = [request EXCEPT ![r].pc = "point", ![r].found = baseline # None]
  /\ UNCHANGED <<project, files, runs, projection, baseline, work, count>>

\* UPDATE if a row was found, INSERT otherwise; the primary key and the
\* foreign keys turn what has happened in between into an error.
WriteBaseline(r) ==
  /\ request[r].pc = "point"
  /\ baseline' = IF /\ request[r].run.id \in {run.id : run \in runs}
                    /\ request[r].found = (baseline # None)
                   THEN request[r].run.id ELSE baseline
  /\ Answered(r)
  /\ UNCHANGED <<project, files, runs, projection, work, count>>

ClearBaseline ==
  /\ baseline # None
  /\ count.requests < MaxRequests
  /\ Requested
  /\ baseline' = None
  /\ UNCHANGED <<project, files, runs, projection, work, request>>

WorkerStep(w) ==
  \/ \E source \in Sources : ImportStart(w, source)
  \/ ReplaceFilesBegin(w) \/ ReplaceFilesCommit(w) \/ ImportFails(w)
  \/ AnalysisStart(w) \/ LoadFiles(w) \/ WriteSuccessBegin(w)
  \/ \E status \in {"completed", "partial"} : WriteSuccessCommit(w, status)
  \/ AnalysisError(w) \/ WriteFailedAnalysis(w) \/ Abandoned(w)

RequestStep(r) ==
  \/ HistoryRequest(r) \/ MaterializeSnapshot(r)
  \/ \E table \in {"files", "rows"} : ReadTable(r, table)
  \/ StatusRequest(r) \/ ReadProject(r) \/ ReadFiles(r) \/ WriteFingerprint(r)
  \/ \E run \in runs : CheckBaseline(r, run)
  \/ ReadBaseline(r) \/ WriteBaseline(r)

Next ==
  \/ \E w \in Workers : WorkerStep(w)
  \/ \E r \in Requests : RequestStep(r)
  \/ DeleteProject \/ ClearBaseline

Spec == Init /\ [][Next]_vars

-----------------------------------------------------------------------------
(***************************************************************************)
(* Properties.                                                             *)
(***************************************************************************)
\* However imports, analyses and backfills of legacy rows overlap, a committed
\* run gets a number above that of every run there is: the number is taken
\* from an old view (allocateNextRunNumber) and only the index stops a tie.
RunNumbersFollowCommits ==
  [][\A run \in runs', older \in runs :
       (\A before \in runs : before.id # run.id) => older.number < run.number]_vars

\* The six derived tables never mix two runs, and never show one that is not
\* the newest usable run, whatever overlapping workers commit.
ProjectionIsNewestRun ==
  \A id \in projection :
    \E run \in runs : run.id = id /\ \A other \in Usable(runs) : other.number <= run.number

\* The baseline names a usable run of the project that is still there.
BaselineIsUsable == baseline # None => \E run \in Usable(runs) : run.id = baseline

\* The history is a log that only grows at its end, with a pointer into it
\* (RunLog); runs left by an older version are not part of the log.
NewRuns == {run \in runs : ~run.legacy}
NewRunNumbered(n) == CHOOSE run \in NewRuns : run.number = n
Log == INSTANCE RunLog
  WITH RunNumbers <- RunIds, Entries <- Run, NoRun <- None, alive <- project.exists,
       log <- [n \in {run.number : run \in NewRuns} |-> NewRunNumbered(n)],
       pointer <- IF \E run \in NewRuns : run.id = baseline
                    THEN NumberOf(CHOOSE run \in NewRuns : run.id = baseline) ELSE None
ImplementsLog == Log!LogSpec

\* README, "every usable run is preserved in `analysisResults.snapshotJson`
\* with a deterministic source fingerprint": once a run has a snapshot, the
\* snapshot and the fingerprint stay what they are.
SnapshotsAreImmutable ==
  [][\A run \in runs, later \in runs' :
       run.id = later.id /\ run.snapshot # None
         => later.snapshot = run.snapshot /\ later.fp = run.fp]_vars
=============================================================================
