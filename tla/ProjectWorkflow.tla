--------------------------- MODULE ProjectWorkflow ---------------------------
(***************************************************************************)
(* The database-backed queue of import and analysis jobs: what the API     *)
(* handlers, the worker loop of each server process, the worker thread it  *)
(* drives and startup recovery do to the tables projectJobs and projects   *)
(* and to the uploaded temporary files.                                    *)
(*                                                                         *)
(* One action is one database statement, or one transaction whose locks    *)
(* make it atomic; whatever the code does between two statements can be    *)
(* interleaved with every other process.  The worker loop of a process     *)
(* awaits the thread it dispatched to, so one program counter stands for   *)
(* both; the lease guardian is the only activity beside it.                *)
(***************************************************************************)
EXTENDS ProjectJobState

CONSTANTS Clients,     \* concurrent API requests
          NewJobTypes, \* the job types the clients ask for
          MayStall,    \* may a live process be silent for a whole lease?
          MaxTime,     \* bound on the clock
          FaultKinds,  \* the faults that may happen ...
          MaxFaults    \* ... and the bound on their number

ASSUME WorkflowConstants ==
  /\ NewJobTypes \subseteq JobTypes
  /\ MayStall \in BOOLEAN
  /\ MaxTime \in Nat
  /\ FaultKinds \subseteq {"crash", "thread", "statement"}
  /\ MaxFaults \in Nat
  /\ Clients \cap Servers = {}

VARIABLES
  jobs,      \* table projectJobs
  nextJob,   \* its AUTO_INCREMENT counter
  projects,  \* the status column of table projects
  tempFiles, \* the jobs whose uploaded ZIP is on disk
  clock,     \* the clock all processes share
  txn,       \* what an open API transaction has read
  pc,        \* where the worker loop (or its thread) of a process is
  now,       \* `now`, fixed when a claim or a recovery starts
  cand,      \* the job row a claim has read, as it read it
  own,       \* the ownership of the job the loop has claimed
  exec,      \* the execution state of the worker thread
  seen,      \* the project status a check has read
  after,     \* where to go after failing the project
  todo,      \* expired job rows that startup recovery still has to handle
  stuck,     \* projects without an active job that recovery has found
  faults     \* faults injected so far

tables == <<jobs, nextJob, projects, tempFiles>>
memory == <<now, cand, own, exec, seen, after, todo, stuck>>
locals == <<pc, memory>>
vars   == <<tables, clock, txn, locals, faults>>

Callers == Clients \cup Servers
Absent  == {"none", "deleted"}

Sighting == [job : JobIds, status : ActiveStatuses,
             lockedBy : Servers \cup {Nobody}, leaseUntil : Nat,
             attemptCount : 0..MaxAttempts - 1]
\* Recovery also meets rows whose attempts are used up.
StaleSighting == [job : JobIds, lockedBy : Servers \cup {Nobody},
                  attemptCount : 0..MaxAttempts]
Ownership == [job : JobIds, attempt : 0..MaxAttempts]
Execution == [job : JobIds, project : Projects \cup {NoProject},
              type : JobTypes, owner : Servers \cup {Nobody},
              attempt : 0..MaxAttempts, file : BOOLEAN]
Transaction == [kind : {"none", "enqueue", "delete"},
                project : Projects \cup {NoProject}, type : JobTypes,
                stale : SUBSET JobIds]

NoSighting == [job |-> 1, status |-> "queued", lockedBy |-> Nobody,
               leaseUntil |-> 0, attemptCount |-> 0]
NoOwn == [job |-> 1, attempt |-> 0]
NoExec == [job |-> 1, project |-> NoProject, type |-> "analyze",
           owner |-> Nobody, attempt |-> 0, file |-> FALSE]
NoTxn == [kind |-> "none", project |-> NoProject, type |-> "analyze",
          stale |-> {}]

See(j) == [job |-> j, status |-> jobs[j].status, lockedBy |-> jobs[j].lockedBy,
           leaseUntil |-> jobs[j].leaseUntil,
           attemptCount |-> jobs[j].attemptCount]

\* Program counters.  The thread runs in ThreadPcs, and in FailPcs when it
\* goes on to cleanup_err; the rest is the main thread.
RecoveryPcs == {"rec_jobs", "rec_projects", "rec_mark"}
ImportPcs   == {"source", "import_tx", "import_persist", "import_commit",
                "import_error"}
AnalyzePcs  == {"bootstrap", "bootstrap_write", "analyze", "analysis_tx",
                "analysis_commit", "analysis_error", "analysis_fail"}
ThreadPcs   == {"start", "prefinalize", "finalize", "queue", "queue_commit",
                "failjob", "failwrite", "cleanup_err"}
               \cup ImportPcs \cup AnalyzePcs
FailPcs     == {"pread", "pwrite"}
Pcs == {"down", "idle", "select", "claim", "verify", "load", "cleanup",
        "failclaimed"}
       \cup RecoveryPcs \cup ThreadPcs \cup FailPcs

InThread(s) == \/ pc[s] \in ThreadPcs \cup {"load"}
               \/ pc[s] \in FailPcs /\ after[s] = "cleanup_err"
               \/ pc[s] = "cleanup" /\ after[s] # "cleanup"

\* The transaction of replaceProjectFiles holds the row of its project
\* from its first UPDATE to its end; other writers of the row wait.
IsLocked(p) == \E s \in Servers : /\ pc[s] \in {"import_persist", "import_commit"}
                                  /\ exec[s].project = p

Exists(p) == projects[p] \notin Absent
JobsOf(p) == {j \in JobIds : jobs[j].project = p}
SetJob(j, row)        == jobs' = [jobs EXCEPT ![j] = row]
SetProject(p, status) == projects' = [projects EXCEPT ![p] = status]
Goto(s, label)        == pc' = [pc EXCEPT ![s] = label]

Init ==
  /\ jobs = [j \in JobIds |-> NoRow]
  /\ nextJob = 1
  /\ projects = [p \in Projects |-> "none"]
  /\ tempFiles = {}
  /\ clock = 1
  /\ txn = [c \in Callers |-> NoTxn]
  /\ pc = [s \in Servers |-> "down"]
  /\ now = [s \in Servers |-> 0]
  /\ cand = [s \in Servers |-> NoSighting]
  /\ own = [s \in Servers |-> NoOwn]
  /\ exec = [s \in Servers |-> NoExec]
  /\ seen = [s \in Servers |-> "none"]
  /\ after = [s \in Servers |-> "idle"]
  /\ todo = [s \in Servers |-> {}]
  /\ stuck = [s \in Servers |-> {}]
  /\ faults = 0

-----------------------------------------------------------------------------
(***************************************************************************)
(* API requests.                                                           *)
(***************************************************************************)
CreateProject(p) ==
  /\ projects[p] = "none"
  /\ SetProject(p, "draft")
  /\ UNCHANGED <<jobs, nextJob, tempFiles, clock, txn, locals, faults>>

\* The rows an INSERT of a queued job leaves, and the uploaded file with it.
InsertJob(p, type, table) ==
  /\ jobs' = [table EXCEPT ![nextJob] = QueuedRow(p, type)]
  /\ nextJob' = nextJob + 1
  /\ tempFiles' = IF type = "import_zip" THEN tempFiles \cup {nextJob}
                                         ELSE tempFiles

CreateProjectAndQueuedImportJob(p, type) ==
  /\ projects[p] = "none"
  /\ nextJob \in JobIds
  /\ type \in ImportTypes
  /\ SetProject(p, "importing")
  /\ InsertJob(p, type, jobs)
  /\ UNCHANGED <<clock, txn, locals, faults>>

\* createQueuedProjectJob reads the project and its jobs in the snapshot of
\* its transaction ...
MayEnqueue(p, type) ==
  /\ Exists(p)
  /\ \A j \in JobsOf(p) : ~IsBlocking(jobs[j], clock)
  /\ projects[p] \in AllowedFor(type)

EnqueueSnapshot(c, p, type) ==
  txn' = [txn EXCEPT ![c] =
            [kind |-> "enqueue", project |-> p, type |-> type,
             stale |-> {j \in JobsOf(p) : IsActive(jobs[j])}]]

\* ... and writes on the current rows: the unique index on (projectId,
\* activeKey) and the foreign key on projects are all that can still refuse.
EnqueueMayCommit(c) ==
  LET t == txn[c] IN
  /\ Exists(t.project)
  /\ \A j \in JobsOf(t.project) : jobs[j].activeKey => j \in t.stale

EnqueueWrites(c) ==
  LET t == txn[c]
      unlocked == [j \in JobIds |-> IF j \in t.stale THEN WithoutKey(jobs[j])
                                                     ELSE jobs[j]]
  IN /\ nextJob \in JobIds
     /\ ~IsLocked(t.project)
     /\ InsertJob(t.project, t.type, unlocked)
     /\ SetProject(t.project, BusyWith(t.type))
     /\ txn' = [txn EXCEPT ![c] = NoTxn]

EnqueueBegin(c, p, type) ==
  /\ txn[c] = NoTxn
  /\ MayEnqueue(p, type)
  /\ EnqueueSnapshot(c, p, type)
  /\ UNCHANGED <<tables, clock, locals, faults>>

EnqueueCommit(c) ==
  /\ txn[c].kind = "enqueue"
  /\ EnqueueMayCommit(c)
  /\ EnqueueWrites(c)
  /\ UNCHANGED <<clock, locals, faults>>

EnqueueRefused(c) ==
  /\ txn[c].kind = "enqueue"
  /\ ~EnqueueMayCommit(c)
  /\ txn' = [txn EXCEPT ![c] = NoTxn]
  /\ UNCHANGED <<tables, clock, locals, faults>>

\* deleteProjectCascade: the check on the snapshot, then the DELETEs.
DeleteBegin(c, p) ==
  /\ txn[c] = NoTxn
  /\ Exists(p)
  /\ \A j \in JobsOf(p) : ~IsActive(jobs[j])
  /\ txn' = [txn EXCEPT ![c] = [NoTxn EXCEPT !.kind = "delete", !.project = p]]
  /\ UNCHANGED <<tables, clock, locals, faults>>

DeleteCommit(c) ==
  LET p == txn[c].project IN
  /\ txn[c].kind = "delete"
  /\ ~IsLocked(p)
  /\ jobs' = [j \in JobIds |-> IF jobs[j].project = p THEN NoRow ELSE jobs[j]]
  /\ SetProject(p, "deleted")
  /\ txn' = [txn EXCEPT ![c] = NoTxn]
  /\ UNCHANGED <<nextJob, tempFiles, clock, locals, faults>>

ClientStep ==
  \/ \E p \in Projects : CreateProject(p)
  \/ \E p \in Projects, type \in NewJobTypes :
       CreateProjectAndQueuedImportJob(p, type)
  \/ \E c \in Clients :
       \/ \E p \in Projects :
            \/ \E type \in NewJobTypes : EnqueueBegin(c, p, type)
            \/ DeleteBegin(c, p)
       \/ EnqueueCommit(c)
       \/ EnqueueRefused(c)
       \/ DeleteCommit(c)

-----------------------------------------------------------------------------
(***************************************************************************)
(* The worker loop: claiming.                                              *)
(***************************************************************************)
\* The loop has nothing in hand.
Park(s) ==
  /\ Goto(s, "idle")
  /\ now' = [now EXCEPT ![s] = 0]
  /\ cand' = [cand EXCEPT ![s] = NoSighting]
  /\ own' = [own EXCEPT ![s] = NoOwn]
  /\ exec' = [exec EXCEPT ![s] = NoExec]
  /\ seen' = [seen EXCEPT ![s] = "none"]
  /\ after' = [after EXCEPT ![s] = "idle"]
  /\ UNCHANGED <<todo, stuck>>

Claimables(t) == {j \in JobIds : IsClaimable(jobs[j], t)}
\* The attempt a claim writes, counted from the row it has read.
ClaimAttempt(s) == cand[s].attemptCount + 1

\* selectClaimableProjectJobCandidate: the oldest claimable row, at the time
\* that was fixed when claimNextQueuedProjectJob was called.
ClaimSelect(s) ==
  LET t == IF pc[s] = "idle" THEN clock ELSE now[s] IN
  /\ pc[s] \in {"idle", "select"}
  /\ \E j \in Claimables(t) :
       /\ \A k \in Claimables(t) : j <= k
       /\ cand' = [cand EXCEPT ![s] = See(j)]
  /\ now' = [now EXCEPT ![s] = t]
  /\ Goto(s, "claim")
  /\ UNCHANGED <<tables, clock, txn, own, exec, seen, after, todo, stuck, faults>>

ClaimNothing(s) ==
  /\ pc[s] = "select"
  /\ Claimables(now[s]) = {}
  /\ Park(s)
  /\ UNCHANGED <<tables, clock, txn, faults>>

\* Variant for the mutants: the claim updates its candidate by id alone.
ClaimById(s) == TRUE

\* The WHERE clause of the claim: a queued candidate must still be queued, a
\* running one must still have the lock and the lease that were read.
CandidateUnchanged(s) ==
  LET row == jobs[cand[s].job] IN
  /\ row.status = cand[s].status
  /\ row.status = "running" => /\ row.lockedBy = cand[s].lockedBy
                               /\ row.leaseUntil = cand[s].leaseUntil

ClaimUpdate(s) ==
  LET j == cand[s].job IN
  /\ pc[s] = "claim"
  /\ IF CandidateUnchanged(s)
       THEN SetJob(j, Claimed(jobs[j], s, ClaimAttempt(s), now[s])) /\ Goto(s, "verify")
       ELSE UNCHANGED jobs /\ Goto(s, "select")
  /\ UNCHANGED <<nextJob, projects, tempFiles, clock, txn, memory, faults>>

\* The row is read again; from here on the loop knows what it owns.
ClaimVerify(s) ==
  LET j == cand[s].job IN
  /\ pc[s] = "verify"
  /\ IF IsOwnershipActive(jobs[j], s, ClaimAttempt(s), now[s])
       THEN /\ own' = [own EXCEPT ![s] = [job |-> j, attempt |-> ClaimAttempt(s)]]
            /\ cand' = [cand EXCEPT ![s] = NoSighting]
            /\ now' = [now EXCEPT ![s] = 0]
            /\ Goto(s, "load")
       ELSE UNCHANGED <<now, cand, own>> /\ Goto(s, "select")
  /\ UNCHANGED <<tables, clock, txn, exec, seen, after, todo, stuck, faults>>

\* heartbeatProjectJobLease on behalf of the main thread, every
\* PROJECT_JOB_HEARTBEAT_MS until a renewal fails: it may always be late.
GuardianRenews(s) ==
  LET j == own[s].job IN
  /\ InThread(s) \/ pc[s] = "failclaimed"
  /\ IsHeldBy(jobs[j], s, own[s].attempt)
  /\ SetJob(j, Renewed(jobs[j], clock))
  /\ UNCHANGED <<nextJob, projects, tempFiles, clock, txn, locals, faults>>

-----------------------------------------------------------------------------
(***************************************************************************)
(* The worker thread: runClaimedProjectJob.                                *)
(***************************************************************************)
Job(s)     == jobs[exec[s].job]
Project(s) == exec[s].project

\* assertProjectJobExecutionActive returns at once without an ownership.
\* With refreshLease it renews the lease, expired or not; without, it
\* demands that the lease still runs.
Unfenced(s) == exec[s].owner = Nobody
Holds(s)    == Unfenced(s) \/ IsHeldBy(Job(s), exec[s].owner, exec[s].attempt)
HoldsLive(s) ==
  Unfenced(s) \/ IsOwnershipActive(Job(s), exec[s].owner, exec[s].attempt, clock)
Refresh(s) == IF Unfenced(s) THEN UNCHANGED jobs
                             ELSE SetJob(exec[s].job, Renewed(Job(s), clock))

\* A checkpoint goes on, or aborts: the thread then returns silently.
CheckAndRefresh(s, label) ==
  IF Holds(s) THEN Refresh(s) /\ Goto(s, label)
              ELSE UNCHANGED jobs /\ Goto(s, "cleanup")

\* The thread reads the row again and takes the ownership it finds there.
Load(s) ==
  LET j == own[s].job
      row == jobs[j]
  IN /\ pc[s] = "load"
     /\ IF row.status = "none"
          THEN Goto(s, "failclaimed") /\ UNCHANGED exec
          ELSE /\ Goto(s, IF row.payload THEN "start" ELSE "failjob")
               /\ exec' = [exec EXCEPT ![s] =
                    [job |-> j, project |-> row.project, type |-> row.type,
                     owner |-> row.lockedBy, attempt |-> row.attemptCount,
                     file |-> row.payload /\ row.type = "import_zip"]]
     /\ UNCHANGED <<tables, clock, txn, now, cand, own, seen, after, todo, stuck, faults>>

\* assertProjectJobProjectExists, then the heartbeats of job.start and of
\* the start of the import.
Start(s) ==
  /\ pc[s] = "start"
  /\ IF Exists(Project(s))
       THEN CheckAndRefresh(s, IF exec[s].type = "analyze" THEN "bootstrap"
                                                          ELSE "source")
       ELSE UNCHANGED jobs /\ Goto(s, "failjob")
  /\ UNCHANGED <<nextJob, projects, tempFiles, clock, txn, memory, faults>>

\* Variant for the mutants: a failed import is logged and swallowed.
ImportFailsSilently(s) == Goto(s, "cleanup")

\* An import that fails marks its project itself only without an ownership.
ImportFails(s) == Goto(s, IF Unfenced(s) THEN "import_error" ELSE "failjob")

\* Reading and extracting the archive (cloning the repository), then the
\* heartbeats before and at the start of replaceProjectFiles.
ReadSource(s) ==
  /\ pc[s] = "source"
  /\ exec[s].file => exec[s].job \in tempFiles
  /\ CheckAndRefresh(s, "import_tx")
  /\ UNCHANGED <<nextJob, projects, tempFiles, clock, txn, memory, faults>>

\* The file is gone, the archive malformed, the repository out of reach.
ReadSourceFails(s) ==
  /\ pc[s] = "source"
  /\ ImportFails(s)
  /\ UNCHANGED <<tables, clock, txn, memory, faults>>

\* replaceProjectFiles: the checkpoint and the first UPDATE, which locks the
\* project; the writes of the transaction show at its commit.
ImportBegin(s) ==
  LET p == Project(s) IN
  /\ pc[s] = "import_tx"
  /\ ~IsLocked(p)
  /\ IF ~HoldsLive(s) THEN Goto(s, "cleanup")
     ELSE IF MayBecome(projects[p], "importing") THEN Goto(s, "import_persist")
     ELSE ImportFails(s)
  /\ UNCHANGED <<tables, clock, txn, memory, faults>>

\* The checkpoint import.replace_files.persist, on a connection of its own.
ImportPersistCheck(s) ==
  /\ pc[s] = "import_persist"
  /\ Goto(s, IF HoldsLive(s) THEN "import_commit" ELSE "cleanup")
  /\ UNCHANGED <<tables, clock, txn, memory, faults>>

\* The UPDATE of the job's progress, whose row count nobody looks at, the
\* project's status, and the commit.
ImportCommit(s) ==
  /\ pc[s] = "import_commit"
  /\ SetProject(Project(s), "ready")
  /\ Goto(s, "prefinalize")
  /\ UNCHANGED <<jobs, nextJob, tempFiles, clock, txn, memory, faults>>

ImportErrorUnfenced(s) ==
  LET p == Project(s) IN
  /\ pc[s] = "import_error"
  /\ ~IsLocked(p)
  /\ IF Exists(p) THEN SetProject(p, "failed") ELSE UNCHANGED projects
  /\ Goto(s, "failjob")
  /\ UNCHANGED <<jobs, nextJob, tempFiles, clock, txn, memory, faults>>

\* analyzeProject: the checkpoints analysis.start and analysis.bootstrap.
Bootstrap(s) ==
  /\ pc[s] = "bootstrap"
  /\ IF projects[Project(s)] \in AllowedFor("analyze") \cup {"analyzing"}
       THEN CheckAndRefresh(s, "bootstrap_write")
       ELSE UNCHANGED jobs /\ Goto(s, "failjob")
  /\ UNCHANGED <<nextJob, projects, tempFiles, clock, txn, memory, faults>>

BootstrapWrite(s) ==
  LET p == Project(s) IN
  /\ pc[s] = "bootstrap_write"
  /\ ~IsLocked(p)
  /\ IF MayBecome(projects[p], "analyzing")
       THEN SetProject(p, "analyzing") /\ Goto(s, "analyze")
       ELSE UNCHANGED projects /\ Goto(s, "failjob")
  /\ UNCHANGED <<jobs, nextJob, tempFiles, clock, txn, memory, faults>>

\* Loading the files and the analysis itself, with their heartbeats.
Analyze(s) ==
  /\ pc[s] = "analyze"
  /\ CheckAndRefresh(s, "analysis_tx")
  /\ UNCHANGED <<nextJob, projects, tempFiles, clock, txn, memory, faults>>

AnalyzeFails(s) ==
  /\ pc[s] = "analyze"
  /\ Goto(s, "analysis_error")
  /\ UNCHANGED <<tables, clock, txn, memory, faults>>

\* writeSuccessfulAnalysis: the heartbeat and the snapshot of the transaction.
AnalysisBegin(s) ==
  /\ pc[s] = "analysis_tx"
  /\ CheckAndRefresh(s, "analysis_commit")
  /\ seen' = [seen EXCEPT ![s] = projects[Project(s)]]
  /\ UNCHANGED <<nextJob, projects, tempFiles, clock, txn, now, cand, own, exec,
                 after, todo, stuck, faults>>

\* The INSERT of the run locks, through its foreign keys, the job and the
\* project until the commit: what the last checkpoint sees still holds then.
AnalysisCommit(s) ==
  LET p == Project(s) IN
  /\ pc[s] = "analysis_commit"
  /\ ~IsLocked(p)
  /\ IF ~HoldsLive(s) THEN UNCHANGED projects /\ Goto(s, "cleanup")
     ELSE IF Exists(p) /\ MayBecome(seen[s], "completed")
       THEN SetProject(p, "completed") /\ Goto(s, "prefinalize")
       ELSE UNCHANGED projects /\ Goto(s, "analysis_error")
  /\ seen' = [seen EXCEPT ![s] = "none"]
  /\ UNCHANGED <<jobs, nextJob, tempFiles, clock, txn, now, cand, own, exec,
                 after, todo, stuck, faults>>

\* analysis.error_finalize and the checkpoints of writeFailedAnalysis ...
AnalysisError(s) ==
  /\ pc[s] = "analysis_error"
  /\ CheckAndRefresh(s, "analysis_fail")
  /\ UNCHANGED <<nextJob, projects, tempFiles, clock, txn, memory, faults>>

\* ... and its write; with the project gone it throws instead.
AnalysisFail(s) ==
  LET p == Project(s) IN
  /\ pc[s] = "analysis_fail"
  /\ ~IsLocked(p)
  /\ IF MayBecome(projects[p], "failed") THEN SetProject(p, "failed")
                                         ELSE UNCHANGED projects
  /\ Goto(s, "failjob")
  /\ UNCHANGED <<jobs, nextJob, tempFiles, clock, txn, memory, faults>>

\* The checkpoint job.pre_finalize, the project's existence, and the
\* heartbeat of finalizeProjectJob, which refuses to go on unowned.
PreFinalize(s) ==
  /\ pc[s] = "prefinalize"
  /\ IF Unfenced(s) THEN UNCHANGED jobs /\ Goto(s, "cleanup_err")
     ELSE IF ~HoldsLive(s) THEN UNCHANGED jobs /\ Goto(s, "cleanup")
     ELSE IF ~Exists(Project(s)) THEN UNCHANGED jobs /\ Goto(s, "failjob")
     ELSE Refresh(s) /\ Goto(s, "finalize")
  /\ UNCHANGED <<nextJob, projects, tempFiles, clock, txn, memory, faults>>

\* Variant for the mutants: the finalization is not fenced.
FinishById(s, status, label) ==
  SetJob(exec[s].job, Finished(Job(s), status)) /\ Goto(s, label)

\* The fenced UPDATE of finalizeProjectJob; no row affected is an abort.
FinishIfHeld(s, status, label) ==
  IF Holds(s) THEN SetJob(exec[s].job, Finished(Job(s), status)) /\ Goto(s, label)
              ELSE UNCHANGED jobs /\ Goto(s, "cleanup")

Finalize(s) ==
  /\ pc[s] = "finalize"
  /\ FinishIfHeld(s, "completed",
                  IF exec[s].type \in ImportTypes THEN "queue" ELSE "cleanup")
  /\ UNCHANGED <<nextJob, projects, tempFiles, clock, txn, memory, faults>>

\* queueAnalyzeProjectAfterImport: only PROJECT_JOB_ACTIVE is swallowed.
QueueAnalyze(s) ==
  LET p == Project(s) IN
  /\ pc[s] = "queue"
  /\ IF MayEnqueue(p, "analyze")
       THEN EnqueueSnapshot(s, p, "analyze") /\ Goto(s, "queue_commit")
       ELSE /\ UNCHANGED txn
            /\ Goto(s, IF Exists(p) /\ \E j \in JobsOf(p) : IsBlocking(jobs[j], clock)
                         THEN "cleanup" ELSE "failjob")
  /\ UNCHANGED <<tables, clock, memory, faults>>

QueueAnalyzeCommit(s) ==
  /\ pc[s] = "queue_commit"
  /\ IF EnqueueMayCommit(s)
       THEN EnqueueWrites(s) /\ Goto(s, "cleanup")
       ELSE /\ txn' = [txn EXCEPT ![s] = NoTxn]
            /\ UNCHANGED tables
            /\ Goto(s, IF Exists(txn[s].project) THEN "cleanup" ELSE "failjob")
  /\ UNCHANGED <<clock, memory, faults>>

\* The catch of runClaimedProjectJob: finalizeProjectJob with "failed".
FailJob(s) ==
  /\ pc[s] = "failjob"
  /\ IF Unfenced(s) THEN UNCHANGED jobs /\ Goto(s, "cleanup_err")
                    ELSE CheckAndRefresh(s, "failwrite")
  /\ UNCHANGED <<nextJob, projects, tempFiles, clock, txn, memory, faults>>

FailWrite(s) ==
  /\ pc[s] = "failwrite"
  /\ FinishIfHeld(s, "failed", "pread")
  /\ after' = [after EXCEPT ![s] = "cleanup_err"]
  /\ UNCHANGED <<nextJob, projects, tempFiles, clock, txn, now, cand, own, exec,
                 seen, todo, stuck, faults>>

\* failImportProjectIfStillImporting and failAnalysisProjectIfStillAnalyzing:
\* the status is read in one statement and overwritten in the next.
ProjectRead(s) ==
  /\ pc[s] = "pread"
  /\ Goto(s, IF projects[Project(s)] = BusyWith(exec[s].type)
               THEN "pwrite" ELSE after[s])
  /\ UNCHANGED <<tables, clock, txn, memory, faults>>

ProjectWrite(s) ==
  LET p == Project(s) IN
  /\ pc[s] = "pwrite"
  /\ ~IsLocked(p)
  /\ IF Exists(p) THEN SetProject(p, "failed") ELSE UNCHANGED projects
  /\ Goto(s, after[s])
  /\ UNCHANGED <<jobs, nextJob, tempFiles, clock, txn, memory, faults>>

RemoveFile(s) == tempFiles' = IF exec[s].file THEN tempFiles \ {exec[s].job}
                                              ELSE tempFiles

\* The finally block removes the uploaded file whatever has happened, then
\* the loop goes on ...
Cleanup(s) ==
  /\ pc[s] = "cleanup"
  /\ RemoveFile(s)
  /\ Park(s)
  /\ UNCHANGED <<jobs, nextJob, projects, clock, txn, faults>>

\* ... or the error the thread has thrown reaches the main thread.
CleanupError(s) ==
  /\ pc[s] = "cleanup_err"
  /\ RemoveFile(s)
  /\ Goto(s, "failclaimed")
  /\ UNCHANGED <<jobs, nextJob, projects, clock, txn, memory, faults>>

\* failClaimedProjectJobBestEffort, fenced with what the main thread claimed.
FailClaimed(s) ==
  LET j == own[s].job
      row == jobs[j]
  IN /\ pc[s] = "failclaimed"
     /\ IF IsHeldBy(row, s, own[s].attempt)
          THEN /\ SetJob(j, Finished(row, "failed"))
               /\ exec' = [exec EXCEPT ![s] =
                    [job |-> j, project |-> row.project, type |-> row.type,
                     owner |-> s, attempt |-> row.attemptCount,
                     file |-> row.type = "import_zip"]]
               /\ after' = [after EXCEPT ![s] = "cleanup"]
               /\ Goto(s, "pread")
               /\ UNCHANGED <<now, cand, own, seen, todo, stuck>>
          ELSE UNCHANGED jobs /\ Park(s)
     /\ UNCHANGED <<nextJob, projects, tempFiles, clock, txn, faults>>

-----------------------------------------------------------------------------
(***************************************************************************)
(* Failures: each counts against MaxFaults.                                *)
(***************************************************************************)
Fault(kind) ==
  /\ kind \in FaultKinds
  /\ faults < MaxFaults
  /\ clock + LeaseTicks <= MaxTime  \* so that the bound lets every lease expire
  /\ faults' = faults + 1

\* A statement fails.  A failed checkpoint is "heartbeat_failed" and aborts
\* the thread; any other failure takes the way of the exception it throws.
CheckpointPcs == {"start", "source", "import_tx", "import_persist", "bootstrap",
                  "analyze", "analysis_tx", "analysis_commit", "analysis_error",
                  "prefinalize", "failjob"}
\* Where the handlers of the import and of the analysis catch it first.
ImportCatchPcs  == {"source", "import_tx", "import_persist", "import_commit"}
AnalyzeCatchPcs == {"analyze", "analysis_tx", "analysis_commit"}
ThrowingPcs == {"start", "import_error", "bootstrap", "bootstrap_write",
                "analysis_error", "analysis_fail", "prefinalize", "finalize",
                "queue", "queue_commit"}
MainPcs == {"select", "claim", "verify", "failclaimed"}

StatementError(s) ==
  /\ Fault("statement")
  /\ \/ /\ pc[s] \in CheckpointPcs /\ ~Unfenced(s)
        /\ Goto(s, "cleanup") /\ UNCHANGED memory
     \/ /\ pc[s] \in ImportCatchPcs
        /\ ImportFails(s) /\ UNCHANGED memory
     \/ /\ pc[s] \in AnalyzeCatchPcs
        /\ Goto(s, "analysis_error") /\ UNCHANGED memory
     \/ /\ pc[s] \in ThrowingPcs
        /\ Goto(s, "failjob") /\ UNCHANGED memory
     \/ /\ pc[s] = "failwrite" \/ (pc[s] \in FailPcs /\ after[s] = "cleanup_err")
        /\ Goto(s, "cleanup_err") /\ UNCHANGED memory
     \/ /\ pc[s] = "load"
        /\ Goto(s, "failclaimed") /\ UNCHANGED memory
     \* The scheduler retries later; failPendingJobBestEffort only logs.
     \/ /\ pc[s] \in MainPcs \/ (pc[s] \in FailPcs /\ after[s] = "cleanup")
        /\ Park(s)
  /\ txn' = [txn EXCEPT ![s] = NoTxn]
  /\ UNCHANGED <<tables, clock>>

\* The thread exceeds its execution time and is terminated, or crashes: its
\* transaction is rolled back and the main thread fails the job.
ThreadLost(s) ==
  /\ InThread(s)
  /\ Fault("thread")
  /\ Goto(s, "failclaimed")
  /\ txn' = [txn EXCEPT ![s] = NoTxn]
  /\ UNCHANGED <<tables, clock, memory>>

\* The process stops without notice: what it held in memory is gone.
Crash(s) ==
  /\ pc[s] # "down"
  /\ Fault("crash")
  /\ Goto(s, "down")
  /\ txn' = [txn EXCEPT ![s] = NoTxn]
  /\ now' = [now EXCEPT ![s] = 0]
  /\ cand' = [cand EXCEPT ![s] = NoSighting]
  /\ own' = [own EXCEPT ![s] = NoOwn]
  /\ exec' = [exec EXCEPT ![s] = NoExec]
  /\ seen' = [seen EXCEPT ![s] = "none"]
  /\ after' = [after EXCEPT ![s] = "idle"]
  /\ todo' = [todo EXCEPT ![s] = {}]
  /\ stuck' = [stuck EXCEPT ![s] = {}]
  /\ UNCHANGED <<tables, clock>>

-----------------------------------------------------------------------------
(***************************************************************************)
(* Startup recovery, before the process serves requests or polls.          *)
(***************************************************************************)
\* The process starts and reads the active jobs; those whose lease has
\* expired are to be handled one by one.
RecoverBegin(s) ==
  /\ pc[s] = "down"
  /\ Goto(s, "rec_jobs")
  /\ todo' = [todo EXCEPT ![s] =
       {[job |-> j, lockedBy |-> jobs[j].lockedBy,
         attemptCount |-> jobs[j].attemptCount] :
         j \in {k \in JobIds : IsLeaseExpired(jobs[k], clock)}}]
  /\ UNCHANGED <<tables, clock, txn, now, cand, own, exec, seen, after, stuck, faults>>

\* Both UPDATEs are fenced with the owner and the attempt that were read,
\* not with the lease.
RecoverJob(s) ==
  /\ pc[s] = "rec_jobs"
  /\ \E t \in todo[s] :
       LET row == jobs[t.job] IN
       /\ todo' = [todo EXCEPT ![s] = @ \ {t}]
       /\ IF ~IsHeldBy(row, t.lockedBy, t.attemptCount)
            THEN UNCHANGED <<jobs, pc, exec, after>>
          ELSE IF t.attemptCount < MaxAttempts
            THEN SetJob(t.job, Requeued(row)) /\ UNCHANGED <<pc, exec, after>>
          ELSE /\ SetJob(t.job, Finished(row, "failed"))
               /\ exec' = [exec EXCEPT ![s] =
                    [NoExec EXCEPT !.project = row.project, !.type = row.type]]
               /\ after' = [after EXCEPT ![s] = "rec_jobs"]
               /\ Goto(s, "pread")
  /\ UNCHANGED <<nextJob, projects, tempFiles, clock, txn, now, cand, own, seen,
                 stuck, faults>>

\* The jobs are read again, then the busy projects, in two statements.
RecoverActive(s) ==
  /\ pc[s] = "rec_jobs"
  /\ todo[s] = {}
  /\ Goto(s, "rec_projects")
  /\ stuck' = [stuck EXCEPT ![s] =
       {p \in Projects : \A j \in JobsOf(p) : ~IsActive(jobs[j])}]
  /\ UNCHANGED <<tables, clock, txn, now, cand, own, exec, seen, after, todo, faults>>

RecoverProjects(s) ==
  /\ pc[s] = "rec_projects"
  /\ Goto(s, "rec_mark")
  /\ stuck' = [stuck EXCEPT ![s] = {p \in @ : projects[p] \in BusyStatuses}]
  /\ UNCHANGED <<tables, clock, txn, now, cand, own, exec, seen, after, todo, faults>>

\* markProjectAsRecoveryFailed, whatever the project has become meanwhile.
RecoverMark(s) ==
  /\ pc[s] = "rec_mark"
  /\ \E p \in stuck[s] :
       /\ ~IsLocked(p)
       /\ IF Exists(p) THEN SetProject(p, "failed") ELSE UNCHANGED projects
       /\ stuck' = [stuck EXCEPT ![s] = @ \ {p}]
  /\ UNCHANGED <<jobs, nextJob, tempFiles, clock, txn, pc, now, cand, own, exec, seen,
                 after, todo, faults>>

RecoverDone(s) ==
  /\ pc[s] = "rec_mark"
  /\ stuck[s] = {}
  /\ Park(s)
  /\ UNCHANGED <<tables, clock, txn, faults>>

-----------------------------------------------------------------------------
\* Without stalls the guardian, which beats three times per lease, renews
\* every lease of a live process before it expires, and no claim takes a
\* lease long to write.
NobodyStalls(t) ==
  \A s \in Servers :
    /\ pc[s] \in {"select", "claim", "verify"} => now[s] + LeaseTicks > t
    /\ /\ InThread(s) \/ pc[s] = "failclaimed"
       /\ IsHeldBy(jobs[own[s].job], s, own[s].attempt)
       => jobs[own[s].job].leaseUntil > t

Tick ==
  /\ clock < MaxTime
  /\ MayStall \/ NobodyStalls(clock + 1)
  /\ clock' = clock + 1
  /\ UNCHANGED <<tables, txn, locals, faults>>

Claiming(s) == ClaimSelect(s) \/ ClaimNothing(s) \/ ClaimUpdate(s) \/ ClaimVerify(s)
Importing(s) ==
  \/ ReadSource(s) \/ ReadSourceFails(s) \/ ImportBegin(s)
  \/ ImportPersistCheck(s) \/ ImportCommit(s) \/ ImportErrorUnfenced(s)
Analyzing(s) ==
  \/ Bootstrap(s) \/ BootstrapWrite(s) \/ Analyze(s) \/ AnalyzeFails(s)
  \/ AnalysisBegin(s) \/ AnalysisCommit(s) \/ AnalysisError(s) \/ AnalysisFail(s)
Finishing(s) ==
  \/ PreFinalize(s) \/ Finalize(s) \/ QueueAnalyze(s) \/ QueueAnalyzeCommit(s)
  \/ FailJob(s) \/ FailWrite(s) \/ ProjectRead(s) \/ ProjectWrite(s)
  \/ Cleanup(s) \/ CleanupError(s) \/ FailClaimed(s)
Recovering(s) ==
  \/ RecoverJob(s) \/ RecoverActive(s) \/ RecoverProjects(s)
  \/ RecoverMark(s) \/ RecoverDone(s)

\* What the process does by itself once it runs.
ServerStep(s) ==
  \/ Claiming(s) \/ Load(s) \/ Start(s) \/ Importing(s) \/ Analyzing(s)
  \/ Finishing(s) \/ Recovering(s)

Failing(s) == StatementError(s) \/ ThreadLost(s) \/ Crash(s)

Next ==
  \/ ClientStep
  \/ \E s \in Servers : \/ RecoverBegin(s) \/ ServerStep(s)
                        \/ GuardianRenews(s) \/ Failing(s)
  \/ Tick

Spec == Init /\ [][Next]_vars

\* The worker loop polls, a stopped process is started again, time passes.
Fairness == /\ \A s \in Servers : WF_vars(ServerStep(s)) /\ WF_vars(RecoverBegin(s))
            /\ WF_vars(Tick)
LiveSpec == Spec /\ Fairness

-----------------------------------------------------------------------------
(***************************************************************************)
(* Properties.                                                             *)
(***************************************************************************)
TypeOK ==
  /\ jobs \in [JobIds -> Row]
  /\ nextJob \in 1..MaxJobs + 1
  /\ projects \in [Projects -> ProjectStatuses \cup Absent]
  /\ tempFiles \subseteq JobIds
  /\ clock \in Nat
  /\ txn \in [Callers -> Transaction]
  /\ pc \in [Servers -> Pcs]
  /\ now \in [Servers -> Nat]
  /\ cand \in [Servers -> Sighting]
  /\ own \in [Servers -> Ownership]
  /\ exec \in [Servers -> Execution]
  /\ seen \in [Servers -> ProjectStatuses \cup Absent]
  /\ after \in [Servers -> {"idle", "cleanup", "cleanup_err", "rec_jobs"}]
  /\ todo \in [Servers -> SUBSET StaleSighting]
  /\ stuck \in [Servers -> SUBSET Projects]
  /\ faults \in Nat

\* A queued job can always be claimed: its retry budget is not used up
\* (projectJobRecovery.ts gives back only what canRetryProjectJob allows) and
\* it still has the payload its worker parses.
QueuedIsClaimable ==
  \A j \in JobIds : jobs[j].status = "queued" =>
    CanRetry(jobs[j]) /\ jobs[j].payload
    /\ jobs[j].lockedBy = Nobody /\ jobs[j].leaseUntil = 0

\* A running job has an owner, an attempt and a lease that will expire: no
\* job can be left running that the lease rules do not reach.
RunningIsOwned ==
  \A j \in JobIds : jobs[j].status = "running" =>
    jobs[j].lockedBy \in Servers /\ jobs[j].attemptCount > 0
    /\ jobs[j].payload /\ jobs[j].leaseUntil > 0

\* A job that has ended holds nothing: not the key that blocks its project,
\* not the payload, neither owner nor lease.
TerminalIsReleased ==
  \A j \in JobIds : jobs[j].status \in TerminalStatuses =>
    ~jobs[j].activeKey /\ ~jobs[j].payload
    /\ jobs[j].lockedBy = Nobody /\ jobs[j].leaseUntil = 0

\* The three together: every row is in a state that the WHERE clauses of the
\* claim, the heartbeat, the finalization and the recovery have a rule for.
JobRowsConsistent == QueuedIsClaimable /\ RunningIsOwned /\ TerminalIsReleased

\* A job ends once: no claim, recovery, finalization or late failure report,
\* however stale, brings a completed or failed job back or changes its end.
TerminalIsFinal ==
  [][\A j \in JobIds : jobs[j].status \in TerminalStatuses =>
       jobs'[j].status \in {jobs[j].status, "none"}]_vars

\* While a job stays with one owner and attempt its lease only moves forward,
\* although a claim writes a lease counted from an older `now`.
LeaseNeverShrinks ==
  [][\A j \in JobIds :
       /\ IsHeldBy(jobs[j], jobs[j].lockedBy, jobs[j].attemptCount)
       /\ IsHeldBy(jobs'[j], jobs[j].lockedBy, jobs[j].attemptCount)
       => jobs'[j].leaseUntil >= jobs[j].leaseUntil]_vars

\* "Stale worker finalization is rejected" (README, Job Model): a thread whose
\* ownership a reclaim has superseded takes no step that changes its job.
StaleThreadLeavesJobAlone ==
  [][\A s \in Servers :
       pc[s] \in ThreadPcs /\ pc'[s] # pc[s] /\ ~Unfenced(s) /\ ~Holds(s)
       => jobs'[exec[s].job] = jobs[exec[s].job]]_vars

\* The rows, seen through their status, owner and attempt, live the life
\* JobLifecycle promises.
Lifecycle ==
  INSTANCE JobLifecycle WITH
    Ids <- JobIds, Workers <- Servers, Nobody <- Nobody, Budget <- MaxAttempts,
    issued <- nextJob - 1,
    life <- [j \in JobIds |-> [state   |-> jobs[j].status,
                               holder  |-> jobs[j].lockedBy,
                               attempt |-> jobs[j].attemptCount]]
ImplementsLifecycle == Lifecycle!LifeSpec

\* Two processes never execute the same job at the same time, as long as none
\* is silent for a whole lease: across crashes, restarts and lost threads, in
\* the bounds of the run (README, "Only model-checked", has the exception).
RunsJob(s, j) == InThread(s) /\ own[s].job = j
OneProcessPerJob ==
  \A s, t \in Servers, j \in JobIds : RunsJob(s, j) /\ RunsJob(t, j) => s = t

\* The files of a project are replaced only by the process that holds the job
\* at the moment of the commit.
OnlyOwnerReplacesFiles ==
  [][\A s \in Servers : ImportCommit(s) => Holds(s)]_vars

\* An import that is queued or running, now or after a reclaim, still finds
\* its uploaded file.
ActiveImportKeepsFile ==
  \A j \in JobIds : IsActive(jobs[j]) /\ jobs[j].type = "import_zip" => j \in tempFiles

\* One active job per project (README, Job Model).
OneActiveJobPerProject ==
  \A p \in Projects : \A i, j \in JobsOf(p) :
    IsActive(jobs[i]) /\ IsActive(jobs[j]) => i = j

\* Every job that is queued or running ends (or goes with its project).
JobsEnd ==
  \A j \in JobIds : IsActive(jobs[j]) ~> ~IsActive(jobs[j])

\* No project stays importing or analyzing for ever.
BusyProjectsSettle ==
  \A p \in Projects : projects[p] \in BusyStatuses ~> projects[p] \notin BusyStatuses
=============================================================================
