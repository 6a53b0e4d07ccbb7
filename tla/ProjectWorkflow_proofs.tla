----------------------- MODULE ProjectWorkflow_proofs -----------------------
(***************************************************************************)
(* Proofs about ProjectWorkflow, for every number of projects, servers,    *)
(* clients and jobs, every retry budget and every length of the lease.     *)
(*                                                                         *)
(* IInv is the inductive invariant: besides the types it says of every row *)
(* which of its columns belong to which status (RowOK), and of every       *)
(* process what its program counter promises about the rows it has read    *)
(* (RefsOK).                                                               *)
(***************************************************************************)
EXTENDS ProjectWorkflow, TLAPS

RowOK(row) ==
  /\ row \in Row
  /\ row.status # "none" => row.project \in Projects
  /\ row.status = "queued" => /\ CanRetry(row) /\ row.payload
                              /\ row.lockedBy = Nobody /\ row.leaseUntil = 0
  /\ row.status = "running" => /\ row.lockedBy \in Servers /\ row.attemptCount > 0
                               /\ row.payload /\ row.leaseUntil > 0
  /\ row.status \in TerminalStatuses =>
       /\ ~row.activeKey /\ ~row.payload
       /\ row.lockedBy = Nobody /\ row.leaseUntil = 0

RowsOK == \A j \in JobIds : RowOK(jobs[j])

\* What a process has read of a project exists in Projects; a thread at a
\* finalization has an ownership to be fenced with.
RefsOK ==
  /\ \A c \in Callers : txn[c].kind # "none" => txn[c].project \in Projects
  /\ \A s \in Servers :
       /\ pc[s] \in ThreadPcs \cup FailPcs => exec[s].project \in Projects
       /\ pc[s] = "queue_commit" => txn[s].kind = "enqueue"
       /\ pc[s] \in {"finalize", "failwrite"} => exec[s].owner \in Servers

IInv == TypeOK /\ RowsOK /\ RefsOK

-----------------------------------------------------------------------------
(***************************************************************************)
(* What the writes of ProjectJobState make of a consistent row.            *)
(***************************************************************************)
USE JobConstants DEF Callers

\* The row of a job that does not exist is consistent.
LEMMA NoRowOK == RowOK(NoRow)
  BY DEF RowOK, NoRow, Row, JobTypes, ImportTypes, JobStatuses, ActiveStatuses, TerminalStatuses

\* A newly inserted job is consistent, because a retry budget is positive.
LEMMA QueuedRowOK ==
  ASSUME NEW p \in Projects, NEW type \in JobTypes
  PROVE  RowOK(QueuedRow(p, type))
  BY DEF RowOK, QueuedRow, CanRetry, Row, JobStatuses, ActiveStatuses, TerminalStatuses

\* A claim of an active job within its budget leaves an owned, running job.
LEMMA ClaimedOK ==
  ASSUME NEW row \in Row, RowOK(row), IsActive(row), NEW s \in Servers,
         NEW a \in 1..MaxAttempts, NEW t \in Nat
  PROVE  RowOK(Claimed(row, s, a, t))
<1> DEFINE new == Claimed(row, s, a, t)
<1>1. /\ t + LeaseTicks \in Nat /\ t + LeaseTicks > 0
      /\ a \in 0..MaxAttempts /\ a > 0
  OBVIOUS
<1>2. /\ new.project = row.project /\ new.type = row.type
      /\ new.activeKey = row.activeKey /\ new.payload = row.payload
      /\ new.status = "running" /\ new.lockedBy = s
      /\ new.leaseUntil = t + LeaseTicks /\ new.attemptCount = a
  BY DEF Claimed, Row
<1>3. new \in Row
  BY <1>1 DEF Claimed, Row, JobStatuses, ActiveStatuses
<1>4. row.project \in Projects /\ row.payload
  BY DEF RowOK, IsActive, ActiveStatuses
<1>5. RowOK(new)
  <2> HIDE DEF new
  <2>1. new.status \notin TerminalStatuses /\ new.status # "queued"
    BY <1>2 DEF TerminalStatuses
  <2> QED BY <1>1, <1>2, <1>3, <1>4, <2>1 DEF RowOK
<1> QED BY <1>5

\* Heartbeats, finalizations and recovery act on running rows only.
LEMMA RenewedOK ==
  ASSUME NEW row \in Row, RowOK(row), row.status = "running", NEW t \in Nat
  PROVE  RowOK(Renewed(row, t))
  BY DEF RowOK, Renewed, Row, TerminalStatuses

\* The end of a running job leaves a row that holds nothing.
LEMMA FinishedOK ==
  ASSUME NEW row \in Row, RowOK(row), row.status = "running",
         NEW status \in TerminalStatuses
  PROVE  RowOK(Finished(row, status))
  BY DEF RowOK, Finished, Row, JobStatuses, ActiveStatuses, TerminalStatuses

\* Giving back a running job whose budget lasts leaves a claimable one.
LEMMA RequeuedOK ==
  ASSUME NEW row \in Row, RowOK(row), row.status = "running", CanRetry(row)
  PROVE  RowOK(Requeued(row))
  BY DEF RowOK, Requeued, CanRetry, Row, JobStatuses, ActiveStatuses, TerminalStatuses

\* Clearing the key of a stale lease breaks no rule.
LEMMA WithoutKeyOK ==
  ASSUME NEW row \in Row, RowOK(row) PROVE RowOK(WithoutKey(row))
  BY DEF RowOK, WithoutKey, CanRetry, Row, JobStatuses, ActiveStatuses, TerminalStatuses

\* The fence of every UPDATE of a claimed job implies that it still runs.
LEMMA HeldRuns ==
  ASSUME NEW row, NEW owner, NEW attempt, IsHeldBy(row, owner, attempt)
  PROVE  row.status = "running"
  BY DEF IsHeldBy

\* Writing one consistent row leaves a consistent table.
LEMMA SetJobOK ==
  ASSUME TypeOK, RowsOK, NEW j \in JobIds, NEW row, RowOK(row), SetJob(j, row)
  PROVE  jobs' \in [JobIds -> Row] /\ RowsOK'
  BY DEF TypeOK, RowsOK, SetJob, RowOK

-----------------------------------------------------------------------------
(***************************************************************************)
(* The steps of the worker thread.                                         *)
(***************************************************************************)
\* All of them go to a program counter, write at most the job they execute
\* and its project, and keep their execution state.
ThreadStep(s) ==
  /\ pc[s] \in ThreadPcs \cup FailPcs
  /\ jobs' \in [JobIds -> Row] /\ RowsOK'
  /\ projects' \in [Projects -> ProjectStatuses \cup Absent]
  /\ seen' \in [Servers -> ProjectStatuses \cup Absent]
  /\ after' \in [Servers -> {"idle", "cleanup", "cleanup_err", "rec_jobs"}]
  /\ \E label \in Pcs \ {"queue_commit"} :
       /\ Goto(s, label)
       /\ label \in {"finalize", "failwrite"} => exec[s].owner \in Servers
  /\ UNCHANGED <<nextJob, tempFiles, clock, txn, now, cand, own, exec, todo, stuck, faults>>

\* Every thread step preserves the invariant.
LEMMA ThreadStepOK ==
  ASSUME IInv, NEW s \in Servers, ThreadStep(s) PROVE IInv'
<1>1. PICK label \in Pcs \ {"queue_commit"} :
        /\ Goto(s, label)
        /\ label \in {"finalize", "failwrite"} => exec[s].owner \in Servers
  BY DEF ThreadStep
<1>2. /\ pc' \in [Servers -> Pcs] /\ pc'[s] = label
      /\ \A t \in Servers : t # s => pc'[t] = pc[t]
  BY <1>1 DEF Goto, IInv, TypeOK
<1>3. TypeOK'
  BY <1>2 DEF ThreadStep, IInv, TypeOK
<1>4. RefsOK'
  BY <1>1, <1>2 DEF ThreadStep, IInv, RefsOK
<1> QED BY <1>3, <1>4 DEF IInv, ThreadStep

\* A step that leaves the tables and the memory alone.
LEMMA MoveOK ==
  ASSUME IInv, NEW s \in Servers, pc[s] \in ThreadPcs \cup FailPcs,
         NEW label \in Pcs \ {"queue_commit"}, Goto(s, label),
         label \in {"finalize", "failwrite"} => exec[s].owner \in Servers,
         UNCHANGED <<tables, clock, txn, memory, faults>>
  PROVE  ThreadStep(s)
  BY DEF ThreadStep, IInv, TypeOK, RowsOK, tables, memory

\* A checkpoint renews the lease of a running job or changes nothing.
LEMMA CheckpointOK ==
  ASSUME IInv, NEW s \in Servers, NEW label, CheckAndRefresh(s, label)
  PROVE  /\ jobs' \in [JobIds -> Row] /\ RowsOK'
         /\ Goto(s, label) \/ Goto(s, "cleanup")
<1> DEFINE j == exec[s].job
<1>1. j \in JobIds /\ jobs[j] \in Row /\ RowOK(jobs[j]) /\ clock \in Nat
  BY DEF IInv, TypeOK, RowsOK, Execution
<1>2. CASE UNCHANGED jobs
  BY <1>2 DEF CheckAndRefresh, IInv, TypeOK, RowsOK
<1>3. CASE Holds(s) /\ ~Unfenced(s) /\ SetJob(j, Renewed(jobs[j], clock))
  <2>1. jobs[j].status = "running"
    BY <1>3 DEF Holds, IsHeldBy, Job
  <2>2. RowOK(Renewed(jobs[j], clock))
    BY <1>1, <2>1, RenewedOK
  <2> QED BY <1>1, <1>3, <2>2, SetJobOK DEF CheckAndRefresh, IInv
<1> QED BY <1>2, <1>3 DEF CheckAndRefresh, Refresh, Job

USE DEF Pcs, ThreadPcs, FailPcs, ImportPcs, AnalyzePcs, RecoveryPcs

\* A step that also writes the project it works on.
LEMMA ProjectMoveOK ==
  ASSUME IInv, NEW s \in Servers, pc[s] \in ThreadPcs \cup FailPcs,
         NEW label \in Pcs \ {"queue_commit", "finalize", "failwrite"}, Goto(s, label),
         NEW status \in ProjectStatuses,
         SetProject(Project(s), status) \/ UNCHANGED projects,
         UNCHANGED <<jobs, nextJob, tempFiles, clock, txn, memory, faults>>
  PROVE  ThreadStep(s)
  BY DEF ThreadStep, SetProject, IInv, TypeOK, RowsOK, memory

\* A checkpoint with no other effect.
LEMMA CheckpointMoveOK ==
  ASSUME IInv, NEW s \in Servers, pc[s] \in ThreadPcs \cup FailPcs,
         NEW label \in Pcs \ {"queue_commit"}, CheckAndRefresh(s, label),
         label \in {"finalize", "failwrite"} => exec[s].owner \in Servers,
         UNCHANGED <<nextJob, projects, tempFiles, clock, txn, memory, faults>>
  PROVE  ThreadStep(s)
<1>1. /\ jobs' \in [JobIds -> Row] /\ RowsOK'
      /\ Goto(s, label) \/ Goto(s, "cleanup")
  BY CheckpointOK
<1>2. \E l \in Pcs \ {"queue_commit"} :
        Goto(s, l) /\ (l \in {"finalize", "failwrite"} => exec[s].owner \in Servers)
  BY <1>1
<1> QED BY <1>1, <1>2 DEF ThreadStep, IInv, TypeOK, memory

\* An ownership names a server.
LEMMA FencedOK ==
  ASSUME IInv, NEW s \in Servers, ~Unfenced(s) PROVE exec[s].owner \in Servers
  BY DEF IInv, TypeOK, Execution, Unfenced

\* The fenced UPDATE that ends a job.
LEMMA FinishIfHeldOK ==
  ASSUME IInv, NEW s \in Servers, pc[s] \in {"finalize", "failwrite"},
         NEW status \in TerminalStatuses, NEW label, FinishIfHeld(s, status, label)
  PROVE  /\ jobs' \in [JobIds -> Row] /\ RowsOK'
         /\ Goto(s, label) \/ Goto(s, "cleanup")
<1> DEFINE j == exec[s].job
<1>1. j \in JobIds /\ jobs[j] \in Row /\ RowOK(jobs[j]) /\ exec[s].owner # Nobody
  BY DEF IInv, TypeOK, RowsOK, Execution, RefsOK
<1>2. CASE Holds(s) /\ SetJob(j, Finished(jobs[j], status))
  <2>1. jobs[j].status = "running"
    BY <1>1, <1>2 DEF Holds, Unfenced, IsHeldBy, Job
  <2>2. RowOK(Finished(jobs[j], status))
    BY <1>1, <2>1, FinishedOK
  <2> QED BY <1>1, <1>2, <2>2, SetJobOK DEF FinishIfHeld, IInv
<1>3. CASE UNCHANGED jobs
  BY <1>3 DEF FinishIfHeld, IInv, TypeOK, RowsOK
<1> QED BY <1>2, <1>3 DEF FinishIfHeld, Job

\* The import steps are thread steps.
LEMMA ImportingOK ==
  ASSUME IInv, NEW s \in Servers, Importing(s) PROVE ThreadStep(s)
<1>1. CASE ReadSource(s)
  BY <1>1, CheckpointMoveOK DEF ReadSource
<1>2. CASE ReadSourceFails(s)
  BY <1>2, MoveOK DEF ReadSourceFails, ImportFails
<1>3. CASE ImportBegin(s)
  BY <1>3, MoveOK DEF ImportBegin, ImportFails
<1>4. CASE ImportPersistCheck(s)
  BY <1>4, MoveOK DEF ImportPersistCheck
<1>5. CASE ImportCommit(s)
  BY <1>5, ProjectMoveOK DEF ImportCommit, ProjectStatuses
<1>6. CASE ImportErrorUnfenced(s)
  BY <1>6, ProjectMoveOK DEF ImportErrorUnfenced, ProjectStatuses
<1> QED BY <1>1, <1>2, <1>3, <1>4, <1>5, <1>6 DEF Importing

\* The analysis steps are thread steps.
LEMMA AnalyzingOK ==
  ASSUME IInv, NEW s \in Servers, Analyzing(s) PROVE ThreadStep(s)
<1>1. CASE Bootstrap(s)
  <2>1. CASE CheckAndRefresh(s, "bootstrap_write")
    BY <1>1, <2>1, CheckpointMoveOK DEF Bootstrap
  <2>2. CASE Goto(s, "failjob") /\ UNCHANGED jobs
    BY <1>1, <2>2, MoveOK DEF Bootstrap, tables
  <2> QED BY <1>1, <2>1, <2>2 DEF Bootstrap
<1>2. CASE BootstrapWrite(s)
  <2>1. CASE SetProject(Project(s), "analyzing") /\ Goto(s, "analyze")
    BY <1>2, <2>1, ProjectMoveOK DEF BootstrapWrite, ProjectStatuses, BusyStatuses
  <2>2. CASE UNCHANGED projects /\ Goto(s, "failjob")
    BY <1>2, <2>2, MoveOK DEF BootstrapWrite, tables
  <2> QED BY <1>2, <2>1, <2>2 DEF BootstrapWrite
<1>3. CASE Analyze(s)
  BY <1>3, CheckpointMoveOK DEF Analyze
<1>4. CASE AnalyzeFails(s)
  BY <1>4, MoveOK DEF AnalyzeFails
<1>5. CASE AnalysisBegin(s)
  <2>1. /\ jobs' \in [JobIds -> Row] /\ RowsOK'
        /\ Goto(s, "analysis_commit") \/ Goto(s, "cleanup")
    BY <1>5, CheckpointOK DEF AnalysisBegin
  <2>2. seen' \in [Servers -> ProjectStatuses \cup Absent]
    BY <1>5 DEF AnalysisBegin, Project, IInv, TypeOK, RefsOK
  <2> QED BY <1>5, <2>1, <2>2 DEF AnalysisBegin, ThreadStep, IInv, TypeOK
<1>6. CASE AnalysisCommit(s)
  <2>1. seen' \in [Servers -> ProjectStatuses \cup Absent]
    BY <1>6 DEF AnalysisCommit, IInv, TypeOK, Absent
  <2>2. projects' \in [Projects -> ProjectStatuses \cup Absent]
    BY <1>6 DEF AnalysisCommit, SetProject, IInv, TypeOK, ProjectStatuses
  <2>3. Goto(s, "cleanup") \/ Goto(s, "prefinalize") \/ Goto(s, "analysis_error")
    BY <1>6 DEF AnalysisCommit
  <2> QED BY <1>6, <2>1, <2>2, <2>3 DEF AnalysisCommit, ThreadStep, IInv, TypeOK, RowsOK
<1>7. CASE AnalysisError(s)
  BY <1>7, CheckpointMoveOK DEF AnalysisError
<1>8. CASE AnalysisFail(s)
  BY <1>8, ProjectMoveOK DEF AnalysisFail, ProjectStatuses
<1> QED BY <1>1, <1>2, <1>3, <1>4, <1>5, <1>6, <1>7, <1>8 DEF Analyzing

\* The other thread steps that keep the execution state.
LEMMA EndingOK ==
  ASSUME IInv, NEW s \in Servers,
         \/ Start(s) \/ PreFinalize(s) \/ Finalize(s) \/ FailJob(s)
         \/ FailWrite(s) \/ ProjectRead(s) \/ ProjectWrite(s)
  PROVE  ThreadStep(s)
<1>1. CASE Start(s)
  <2>1. CASE CheckAndRefresh(s, IF exec[s].type = "analyze" THEN "bootstrap" ELSE "source")
    BY <1>1, <2>1, CheckpointMoveOK DEF Start
  <2>2. CASE UNCHANGED jobs /\ Goto(s, "failjob")
    BY <1>1, <2>2, MoveOK DEF Start, tables
  <2> QED BY <1>1, <2>1, <2>2 DEF Start
<1>2. CASE PreFinalize(s)
  <2>1. CASE Unfenced(s) \/ ~HoldsLive(s) \/ ~Exists(Project(s))
    BY <1>2, <2>1, MoveOK DEF PreFinalize, tables
  <2>2. CASE ~Unfenced(s) /\ HoldsLive(s) /\ Exists(Project(s))
    <3>1. CheckAndRefresh(s, "finalize")
      BY <1>2, <2>2 DEF PreFinalize, CheckAndRefresh, HoldsLive, Holds, IsOwnershipActive
    <3> QED BY <1>2, <2>2, <3>1, FencedOK, CheckpointMoveOK DEF PreFinalize
  <2> QED BY <2>1, <2>2
<1>3. CASE Finalize(s)
  <2>1. /\ jobs' \in [JobIds -> Row] /\ RowsOK'
        /\ Goto(s, "queue") \/ Goto(s, "cleanup")
    BY <1>3, FinishIfHeldOK DEF Finalize, TerminalStatuses
  <2> QED BY <1>3, <2>1 DEF Finalize, ThreadStep, IInv, TypeOK, memory
<1>4. CASE FailJob(s)
  <2>1. CASE Unfenced(s)
    BY <1>4, <2>1, MoveOK DEF FailJob, tables
  <2>2. CASE ~Unfenced(s)
    BY <1>4, <2>2, FencedOK, CheckpointMoveOK DEF FailJob
  <2> QED BY <2>1, <2>2
<1>5. CASE FailWrite(s)
  <2>1. /\ jobs' \in [JobIds -> Row] /\ RowsOK'
        /\ Goto(s, "pread") \/ Goto(s, "cleanup")
    BY <1>5, FinishIfHeldOK DEF FailWrite, TerminalStatuses
  <2>2. after' \in [Servers -> {"idle", "cleanup", "cleanup_err", "rec_jobs"}]
    BY <1>5 DEF FailWrite, IInv, TypeOK
  <2> QED BY <1>5, <2>1, <2>2 DEF FailWrite, ThreadStep, IInv, TypeOK
<1>6. CASE ProjectRead(s)
  <2>1. after[s] \in Pcs \ {"queue_commit", "finalize", "failwrite"}
    BY DEF IInv, TypeOK
  <2> QED BY <1>6, <2>1, MoveOK DEF ProjectRead
<1>7. CASE ProjectWrite(s)
  <2>1. after[s] \in Pcs \ {"queue_commit", "finalize", "failwrite"}
    BY DEF IInv, TypeOK
  <2> QED BY <1>7, <2>1, ProjectMoveOK DEF ProjectWrite, ProjectStatuses
<1> QED BY <1>1, <1>2, <1>3, <1>4, <1>5, <1>6, <1>7

-----------------------------------------------------------------------------
(***************************************************************************)
(* The steps of the worker loop.                                           *)
(***************************************************************************)
\* What an idle loop and an idle caller hold is well-typed.
LEMMA NothingHeld ==
  /\ NoSighting \in Sighting /\ NoOwn \in Ownership
  /\ NoExec \in Execution /\ NoTxn \in Transaction
<1>1. 0 \in 0..MaxAttempts - 1 /\ 0 \in 0..MaxAttempts /\ 1 \in JobIds
  BY DEF JobIds
<1> QED
  BY <1>1 DEF NoSighting, Sighting, ActiveStatuses, NoOwn, Ownership, NoExec, Execution,
              NoTxn, Transaction, JobTypes, ImportTypes

\* The loop goes back to idle with whatever it has just done to the job table
\* and to the files.
LEMMA ParkOK ==
  ASSUME IInv, NEW s \in Servers, Park(s), jobs' \in [JobIds -> Row], RowsOK',
         tempFiles' \subseteq JobIds, UNCHANGED <<nextJob, projects, clock>>,
         UNCHANGED txn \/ txn' = [txn EXCEPT ![s] = NoTxn], faults' \in Nat
  PROVE  IInv'
<1>1. TypeOK'
  BY NothingHeld DEF Park, Goto, IInv, TypeOK, Absent
<1>2. RefsOK'
  BY DEF Park, Goto, IInv, TypeOK, RefsOK, NoTxn
<1> QED BY <1>1, <1>2 DEF IInv

\* The loop's own steps: they keep the refs because they lead to no thread.
LEMMA ClaimingOK ==
  ASSUME IInv, NEW s \in Servers, Claiming(s) PROVE IInv'
<1>1. CASE ClaimSelect(s)
  <2>1. PICK j \in JobIds :
          /\ IsClaimable(jobs[j], IF pc[s] = "idle" THEN clock ELSE now[s])
          /\ cand' = [cand EXCEPT ![s] = See(j)]
    BY <1>1 DEF ClaimSelect, Claimables
  <2>2. See(j) \in Sighting
    <3>1. jobs[j] \in Row /\ jobs[j].attemptCount < MaxAttempts /\ jobs[j].status \in ActiveStatuses
      BY <2>1 DEF IInv, TypeOK, IsClaimable, CanRetry, IsLeaseExpired, ActiveStatuses
    <3>2. jobs[j].attemptCount \in 0..MaxAttempts - 1
      BY <3>1 DEF Row
    <3> QED BY <3>1, <3>2 DEF See, Sighting, Row
  <2>3. TypeOK'
    BY <1>1, <2>1, <2>2 DEF ClaimSelect, Goto, tables, IInv, TypeOK
  <2>4. RowsOK' /\ RefsOK'
    BY <1>1 DEF ClaimSelect, Goto, tables, IInv, TypeOK, RowsOK, RefsOK
  <2> QED BY <2>3, <2>4 DEF IInv
<1>2. CASE ClaimNothing(s)
  BY <1>2, ParkOK DEF ClaimNothing, tables, IInv, TypeOK, RowsOK
<1>3. CASE ClaimUpdate(s)
  <2> DEFINE j == cand[s].job
             row == Claimed(jobs[j], s, ClaimAttempt(s), now[s])
  <2>1. /\ j \in JobIds /\ jobs[j] \in Row /\ RowOK(jobs[j]) /\ now[s] \in Nat
        /\ cand[s].status \in ActiveStatuses /\ ClaimAttempt(s) \in 1..MaxAttempts
    BY DEF IInv, TypeOK, RowsOK, Sighting, ClaimAttempt
  <2>2. CASE CandidateUnchanged(s)
    <3>1. RowOK(row)
      BY <2>1, <2>2, ClaimedOK DEF CandidateUnchanged, IsActive
    <3>2. SetJob(j, row) /\ Goto(s, "verify")
      BY <1>3, <2>2 DEF ClaimUpdate
    <3>3. jobs' \in [JobIds -> Row] /\ RowsOK'
      BY <2>1, <3>1, <3>2, SetJobOK DEF IInv
    <3> QED BY <1>3, <3>2, <3>3 DEF ClaimUpdate, Goto, memory, IInv, TypeOK, RefsOK
  <2>3. CASE ~CandidateUnchanged(s)
    BY <1>3, <2>3 DEF ClaimUpdate, Goto, memory, IInv, TypeOK, RowsOK, RefsOK
  <2> QED BY <2>2, <2>3
<1>4. CASE ClaimVerify(s)
  <2>1. [job |-> cand[s].job, attempt |-> ClaimAttempt(s)] \in Ownership
    BY DEF IInv, TypeOK, Sighting, Ownership, ClaimAttempt
  <2>2. TypeOK'
    BY <1>4, <2>1, NothingHeld DEF ClaimVerify, Goto, tables, IInv, TypeOK
  <2>3. RowsOK' /\ RefsOK'
    BY <1>4 DEF ClaimVerify, Goto, tables, IInv, TypeOK, RowsOK, RefsOK
  <2> QED BY <2>2, <2>3 DEF IInv
<1> QED BY <1>1, <1>2, <1>3, <1>4 DEF Claiming

\* A renewal by the lease guardian meets a running row only.
LEMMA GuardianOK ==
  ASSUME IInv, NEW s \in Servers, GuardianRenews(s) PROVE IInv'
<1> DEFINE j == own[s].job
<1>1. j \in JobIds /\ jobs[j] \in Row /\ RowOK(jobs[j]) /\ clock \in Nat
  BY DEF IInv, TypeOK, RowsOK, Ownership
<1>2. RowOK(Renewed(jobs[j], clock))
  BY <1>1, RenewedOK DEF GuardianRenews, IsHeldBy
<1>3. jobs' \in [JobIds -> Row] /\ RowsOK'
  BY <1>1, <1>2, SetJobOK DEF GuardianRenews, IInv
<1> QED BY <1>3 DEF GuardianRenews, locals, memory, IInv, TypeOK, RefsOK

\* The thread takes over what the row it reads says: a project that exists,
\* unless the row is gone.
LEMMA LoadOK ==
  ASSUME IInv, NEW s \in Servers, Load(s) PROVE IInv'
<1> DEFINE j == own[s].job
           row == jobs[j]
           new == [job |-> j, project |-> row.project, type |-> row.type,
                   owner |-> row.lockedBy, attempt |-> row.attemptCount,
                   file |-> row.payload /\ row.type = "import_zip"]
<1>1. j \in JobIds /\ row \in Row /\ RowOK(row)
  BY DEF IInv, TypeOK, RowsOK, Ownership
<1>2. new \in Execution
  BY <1>1 DEF Execution, Row
<1>3. CASE row.status = "none"
  BY <1>3 DEF Load, Goto, tables, IInv, TypeOK, RowsOK, RefsOK
<1>4. CASE row.status # "none"
  <2>1. row.project \in Projects
    BY <1>1, <1>4 DEF RowOK
  <2>2. /\ exec' = [exec EXCEPT ![s] = new]
        /\ Goto(s, "start") \/ Goto(s, "failjob")
    BY <1>4 DEF Load
  <2>3. new.project = row.project
    OBVIOUS
  <2> HIDE DEF new
  <2>4. TypeOK'
    BY <1>2, <2>2 DEF Load, Goto, tables, IInv, TypeOK
  <2>5. RefsOK'
    BY <2>1, <2>2, <2>3 DEF Load, Goto, IInv, TypeOK, RefsOK
  <2> QED BY <2>4, <2>5 DEF Load, tables, IInv, RowsOK
<1> QED BY <1>3, <1>4

\* An INSERT of a queued job, over a table in which some keys were cleared,
\* with the project's new status.
LEMMA EnqueueWritesOK ==
  ASSUME IInv, NEW c \in Callers, txn[c].kind = "enqueue", EnqueueWrites(c)
  PROVE  /\ jobs' \in [JobIds -> Row] /\ RowsOK'
         /\ nextJob' \in 1..MaxJobs + 1
         /\ projects' \in [Projects -> ProjectStatuses \cup Absent]
         /\ tempFiles' \subseteq JobIds
         /\ txn' = [txn EXCEPT ![c] = NoTxn]
<1> DEFINE t == txn[c]
           unlocked == [j \in JobIds |-> IF j \in t.stale THEN WithoutKey(jobs[j])
                                                          ELSE jobs[j]]
<1>1. t.project \in Projects /\ t.type \in JobTypes
  BY DEF IInv, TypeOK, RefsOK, Transaction
<1>2. \A j \in JobIds : RowOK(unlocked[j])
  <2> TAKE j \in JobIds
  <2>1. jobs[j] \in Row /\ RowOK(jobs[j])
    BY DEF IInv, TypeOK, RowsOK
  <2> QED BY <2>1, WithoutKeyOK
<1>3. /\ nextJob \in JobIds
      /\ jobs' = [unlocked EXCEPT ![nextJob] = QueuedRow(t.project, t.type)]
      /\ nextJob' = nextJob + 1
      /\ tempFiles' = tempFiles \cup {nextJob} \/ UNCHANGED tempFiles
      /\ SetProject(t.project, BusyWith(t.type))
      /\ txn' = [txn EXCEPT ![c] = NoTxn]
  BY DEF EnqueueWrites, InsertJob
<1>4. BusyWith(t.type) \in ProjectStatuses
  BY DEF BusyWith, ProjectStatuses, BusyStatuses
<1>5. RowOK(QueuedRow(t.project, t.type))
  BY <1>1, QueuedRowOK
<1>6. \A j \in JobIds : RowOK(jobs'[j])
  BY <1>2, <1>3, <1>5
<1>7. jobs' \in [JobIds -> Row]
  <2>1. \A row : RowOK(row) => row \in Row
    BY DEF RowOK
  <2>2. DOMAIN jobs' = JobIds /\ jobs' = [j \in JobIds |-> jobs'[j]]
    BY <1>3
  <2> QED BY <1>6, <2>1, <2>2
<1>8. nextJob' \in 1..MaxJobs + 1
  BY <1>3 DEF JobIds
<1>9. projects' \in [Projects -> ProjectStatuses \cup Absent]
  BY <1>3, <1>4 DEF SetProject, IInv, TypeOK
<1>10. tempFiles' \subseteq JobIds
  BY <1>3 DEF IInv, TypeOK
<1> QED BY <1>3, <1>6, <1>7, <1>8, <1>9, <1>10 DEF RowsOK

\* The snapshot of an enqueue is a well-typed transaction.
LEMMA EnqueueSnapshotOK ==
  ASSUME IInv, NEW c \in Callers, NEW p \in Projects, NEW type \in JobTypes,
         EnqueueSnapshot(c, p, type)
  PROVE  /\ txn' \in [Callers -> Transaction]
         /\ txn'[c].kind = "enqueue" /\ txn'[c].project = p
         /\ \A d \in Callers : d # c => txn'[d] = txn[d]
<1> DEFINE new == [kind |-> "enqueue", project |-> p, type |-> type,
                   stale |-> {j \in JobsOf(p) : IsActive(jobs[j])}]
<1>1. new \in Transaction
  BY DEF Transaction, JobsOf
<1>2. txn' = [txn EXCEPT ![c] = new] /\ new.kind = "enqueue" /\ new.project = p
  BY DEF EnqueueSnapshot
<1> HIDE DEF new
<1> QED BY <1>1, <1>2 DEF IInv, TypeOK

\* Queueing the analysis that follows an import.
LEMMA QueueAnalyzeOK ==
  ASSUME IInv, NEW s \in Servers, QueueAnalyze(s) \/ QueueAnalyzeCommit(s) PROVE IInv'
<1>1. CASE QueueAnalyze(s)
  <2>1. exec[s].project \in Projects /\ "analyze" \in JobTypes
    BY <1>1 DEF QueueAnalyze, IInv, RefsOK, JobTypes
  <2>2. CASE EnqueueSnapshot(s, Project(s), "analyze") /\ Goto(s, "queue_commit")
    <3>1. /\ txn' \in [Callers -> Transaction]
          /\ txn'[s].kind = "enqueue" /\ txn'[s].project = exec[s].project
          /\ \A d \in Callers : d # s => txn'[d] = txn[d]
      BY <2>1, <2>2, EnqueueSnapshotOK DEF Project
    <3>2. TypeOK'
      BY <1>1, <2>2, <3>1 DEF QueueAnalyze, Goto, tables, memory, IInv, TypeOK
    <3>3. RefsOK'
      BY <1>1, <2>1, <2>2, <3>1 DEF QueueAnalyze, Goto, memory, IInv, TypeOK, RefsOK
    <3> QED BY <1>1, <3>2, <3>3 DEF QueueAnalyze, tables, IInv, RowsOK
  <2>3. CASE UNCHANGED txn /\ (Goto(s, "cleanup") \/ Goto(s, "failjob"))
    BY <1>1, <2>3, MoveOK, ThreadStepOK DEF QueueAnalyze
  <2> QED BY <1>1, <2>2, <2>3 DEF QueueAnalyze
<1>2. CASE QueueAnalyzeCommit(s)
  <2>1. txn[s].kind = "enqueue"
    BY <1>2 DEF QueueAnalyzeCommit, IInv, RefsOK
  <2>2. CASE EnqueueWrites(s) /\ Goto(s, "cleanup")
    <3>1. /\ jobs' \in [JobIds -> Row] /\ RowsOK'
          /\ nextJob' \in 1..MaxJobs + 1
          /\ projects' \in [Projects -> ProjectStatuses \cup Absent]
          /\ tempFiles' \subseteq JobIds
          /\ txn' = [txn EXCEPT ![s] = NoTxn]
      BY <2>1, <2>2, EnqueueWritesOK
    <3>2. TypeOK'
      BY <1>2, <2>2, <3>1, NothingHeld DEF QueueAnalyzeCommit, Goto, memory, IInv, TypeOK
    <3>3. RefsOK'
      BY <1>2, <2>2, <3>1 DEF QueueAnalyzeCommit, Goto, NoTxn, memory, IInv, TypeOK, RefsOK
    <3> QED BY <3>1, <3>2, <3>3 DEF IInv
  <2>3. CASE /\ txn' = [txn EXCEPT ![s] = NoTxn] /\ UNCHANGED tables
             /\ Goto(s, "cleanup") \/ Goto(s, "failjob")
    <3>1. TypeOK'
      BY <1>2, <2>3, NothingHeld DEF QueueAnalyzeCommit, Goto, tables, memory, IInv, TypeOK
    <3>2. RefsOK'
      BY <1>2, <2>3 DEF QueueAnalyzeCommit, Goto, NoTxn, memory, IInv, TypeOK, RefsOK
    <3> QED BY <2>3, <3>1, <3>2 DEF tables, IInv, RowsOK
  <2> QED BY <1>2, <2>2, <2>3 DEF QueueAnalyzeCommit
<1> QED BY <1>1, <1>2

\* A step that only moves the program counter, out of the thread.
LEMMA LeaveOK ==
  ASSUME IInv, NEW s \in Servers, NEW label \in Pcs \ (ThreadPcs \cup FailPcs),
         Goto(s, label), UNCHANGED <<jobs, nextJob, projects, clock, memory>>,
         tempFiles' \subseteq JobIds,
         UNCHANGED txn \/ txn' = [txn EXCEPT ![s] = NoTxn], faults' \in Nat
  PROVE  IInv'
<1>1. TypeOK'
  BY NothingHeld DEF Goto, memory, IInv, TypeOK
<1>2. RefsOK'
  BY DEF Goto, NoTxn, memory, IInv, TypeOK, RefsOK
<1> QED BY <1>1, <1>2 DEF IInv, RowsOK

\* The removal of the uploaded file and the late failure report.
LEMMA CleaningOK ==
  ASSUME IInv, NEW s \in Servers, Cleanup(s) \/ CleanupError(s) \/ FailClaimed(s)
  PROVE  IInv'
<1>1. CASE Cleanup(s)
  <2>1. tempFiles' \subseteq JobIds
    BY <1>1 DEF Cleanup, RemoveFile, IInv, TypeOK
  <2> QED BY <1>1, <2>1, ParkOK DEF Cleanup, IInv, TypeOK, RowsOK
<1>2. CASE CleanupError(s)
  <2>1. tempFiles' \subseteq JobIds
    BY <1>2 DEF CleanupError, RemoveFile, IInv, TypeOK
  <2> QED BY <1>2, <2>1, LeaveOK DEF CleanupError, IInv, TypeOK
<1>3. CASE FailClaimed(s)
  <2> DEFINE j == own[s].job
             row == jobs[j]
             new == [job |-> j, project |-> row.project, type |-> row.type,
                     owner |-> s, attempt |-> row.attemptCount,
                     file |-> row.type = "import_zip"]
  <2>1. j \in JobIds /\ row \in Row /\ RowOK(row)
    BY DEF IInv, TypeOK, RowsOK, Ownership
  <2>2. CASE IsHeldBy(row, s, own[s].attempt)
    <3>1. new \in Execution
      BY <2>1 DEF Execution, Row
    <3>2. row.status = "running" /\ row.project \in Projects
      BY <2>1, <2>2 DEF IsHeldBy, RowOK
    <3>3. jobs' \in [JobIds -> Row] /\ RowsOK'
      <4>1. RowOK(Finished(row, "failed"))
        BY <2>1, <3>2, FinishedOK DEF TerminalStatuses
      <4>2. SetJob(j, Finished(row, "failed"))
        BY <1>3, <2>2 DEF FailClaimed
      <4> QED BY <2>1, <4>1, <4>2, SetJobOK DEF IInv
    <3>4. /\ exec' = [exec EXCEPT ![s] = new] /\ new.project = row.project
          /\ Goto(s, "pread") /\ after' = [after EXCEPT ![s] = "cleanup"]
          /\ UNCHANGED <<now, cand, own, seen, todo, stuck>>
      BY <1>3, <2>2 DEF FailClaimed
    <3> HIDE DEF new, row, j
    <3>5. TypeOK'
      BY <1>3, <3>1, <3>3, <3>4 DEF FailClaimed, Goto, IInv, TypeOK
    <3>6. RefsOK'
      BY <1>3, <3>2, <3>4 DEF FailClaimed, Goto, IInv, TypeOK, RefsOK
    <3> QED BY <3>3, <3>5, <3>6 DEF IInv
  <2>3. CASE ~IsHeldBy(row, s, own[s].attempt)
    BY <1>3, <2>3, ParkOK DEF FailClaimed, IInv, TypeOK, RowsOK
  <2> QED BY <2>2, <2>3
<1> QED BY <1>1, <1>2, <1>3

-----------------------------------------------------------------------------
(***************************************************************************)
(* Failures, startup recovery and API requests.                            *)
(***************************************************************************)
LEMMA FailingOK ==
  ASSUME IInv, NEW s \in Servers, Failing(s) PROVE IInv'
<1> USE DEF Fault
<1>1. faults + 1 \in Nat
  BY DEF IInv, TypeOK
<1>2. CASE StatementError(s)
  <2>0. /\ faults' = faults + 1 /\ txn' = [txn EXCEPT ![s] = NoTxn]
        /\ UNCHANGED <<jobs, nextJob, projects, tempFiles, clock>>
    BY <1>2 DEF StatementError, tables
  <2>1. CASE Park(s)
    <3>1. jobs' \in [JobIds -> Row] /\ RowsOK' /\ tempFiles' \subseteq JobIds
      BY <2>0 DEF IInv, TypeOK, RowsOK
    <3> QED BY <1>1, <2>0, <2>1, <3>1, ParkOK
  <2>2. CASE UNCHANGED memory /\ (Goto(s, "cleanup") \/ Goto(s, "failclaimed"))
    <3>1. tempFiles' \subseteq JobIds
      BY <2>0 DEF IInv, TypeOK
    <3> QED BY <1>1, <2>0, <2>2, <3>1, LeaveOK
  <2>3. CASE /\ pc[s] \in ThreadPcs \cup FailPcs /\ UNCHANGED memory
             /\ \E label \in {"import_error", "analysis_error", "failjob", "cleanup_err"} : Goto(s, label)
    <3>1. TypeOK'
      BY <1>1, <2>0, <2>3, NothingHeld DEF Goto, memory, IInv, TypeOK
    <3>2. RefsOK'
      BY <2>0, <2>3 DEF Goto, NoTxn, memory, IInv, TypeOK, RefsOK
    <3> QED BY <2>0, <3>1, <3>2 DEF IInv, RowsOK
  <2> QED BY <1>2, <2>1, <2>2, <2>3 DEF StatementError, ImportFails, ImportCatchPcs,
                                                AnalyzeCatchPcs, ThrowingPcs
<1>3. CASE ThreadLost(s)
  BY <1>1, <1>3, LeaveOK DEF ThreadLost, tables, IInv, TypeOK
<1>4. CASE Crash(s)
  <2>1. TypeOK'
    BY <1>1, <1>4, NothingHeld DEF Crash, Goto, tables, IInv, TypeOK, Absent
  <2>2. RowsOK' /\ RefsOK'
    BY <1>4 DEF Crash, Goto, NoTxn, tables, IInv, TypeOK, RowsOK, RefsOK
  <2> QED BY <2>1, <2>2 DEF IInv
<1> QED BY <1>2, <1>3, <1>4 DEF Failing

\* What a starting process reads of the expired jobs is well-typed.
LEMMA RecoverBeginOK ==
  ASSUME IInv, NEW s \in Servers, RecoverBegin(s) PROVE IInv'
<1> DEFINE found == {[job |-> j, lockedBy |-> jobs[j].lockedBy,
                      attemptCount |-> jobs[j].attemptCount] :
                      j \in {k \in JobIds : IsLeaseExpired(jobs[k], clock)}}
<1>1. found \subseteq StaleSighting
  BY DEF IInv, TypeOK, Row, StaleSighting
<1>2. todo' = [todo EXCEPT ![s] = found] /\ Goto(s, "rec_jobs")
  BY DEF RecoverBegin
<1> HIDE DEF found
<1>3. TypeOK'
  BY <1>1, <1>2 DEF RecoverBegin, Goto, tables, IInv, TypeOK
<1>4. RowsOK' /\ RefsOK'
  BY <1>2 DEF RecoverBegin, Goto, tables, IInv, TypeOK, RowsOK, RefsOK
<1> QED BY <1>3, <1>4 DEF IInv

\* Recovery gives back or fails a row only while the fence it read still
\* holds, so only a running one.
LEMMA RecoverJobOK ==
  ASSUME IInv, NEW s \in Servers, RecoverJob(s) PROVE IInv'
<1>1. PICK t \in todo[s] :
        /\ todo' = [todo EXCEPT ![s] = @ \ {t}]
        /\ IF ~IsHeldBy(jobs[t.job], t.lockedBy, t.attemptCount)
             THEN UNCHANGED <<jobs, pc, exec, after>>
           ELSE IF t.attemptCount < MaxAttempts
             THEN SetJob(t.job, Requeued(jobs[t.job])) /\ UNCHANGED <<pc, exec, after>>
           ELSE /\ SetJob(t.job, Finished(jobs[t.job], "failed"))
                /\ exec' = [exec EXCEPT ![s] =
                     [NoExec EXCEPT !.project = jobs[t.job].project,
                                    !.type = jobs[t.job].type]]
                /\ after' = [after EXCEPT ![s] = "rec_jobs"]
                /\ Goto(s, "pread")
  BY DEF RecoverJob
<1> DEFINE row == jobs[t.job]
<1>2. /\ t.job \in JobIds /\ row \in Row /\ RowOK(row)
      /\ todo' \in [Servers -> SUBSET StaleSighting]
  BY <1>1 DEF IInv, TypeOK, RowsOK, StaleSighting
<1>3. CASE ~IsHeldBy(row, t.lockedBy, t.attemptCount)
  BY <1>1, <1>2, <1>3 DEF RecoverJob, IInv, TypeOK, RowsOK, RefsOK
<1>4. CASE IsHeldBy(row, t.lockedBy, t.attemptCount) /\ t.attemptCount < MaxAttempts
  <2>1. RowOK(Requeued(row))
    BY <1>2, <1>4, RequeuedOK DEF IsHeldBy, CanRetry
  <2>2. jobs' \in [JobIds -> Row] /\ RowsOK'
    BY <1>1, <1>2, <1>4, <2>1, SetJobOK DEF IInv
  <2> QED BY <1>1, <1>2, <1>4, <2>2 DEF RecoverJob, IInv, TypeOK, RefsOK
<1>5. CASE IsHeldBy(row, t.lockedBy, t.attemptCount) /\ ~(t.attemptCount < MaxAttempts)
  <2> DEFINE new == [NoExec EXCEPT !.project = row.project, !.type = row.type]
  <2>1. row.status = "running" /\ row.project \in Projects
    BY <1>2, <1>5 DEF IsHeldBy, RowOK
  <2>2. RowOK(Finished(row, "failed"))
    BY <1>2, <2>1, FinishedOK DEF TerminalStatuses
  <2>3. jobs' \in [JobIds -> Row] /\ RowsOK'
    BY <1>1, <1>2, <1>5, <2>2, SetJobOK DEF IInv
  <2>4. new \in Execution /\ new.project = row.project
    BY <1>2, NothingHeld DEF NoExec, Execution, Row
  <2>5. /\ exec' = [exec EXCEPT ![s] = new] /\ Goto(s, "pread")
        /\ after' = [after EXCEPT ![s] = "rec_jobs"]
    BY <1>1, <1>5
  <2> HIDE DEF new, row
  <2>6. TypeOK'
    BY <1>2, <2>3, <2>4, <2>5 DEF RecoverJob, Goto, IInv, TypeOK
  <2>7. RefsOK'
    BY <2>1, <2>4, <2>5 DEF RecoverJob, Goto, IInv, TypeOK, RefsOK
  <2> QED BY <2>3, <2>6, <2>7 DEF IInv
<1> QED BY <1>3, <1>4, <1>5

\* The recovery of a starting process.
LEMMA RecoveringOK ==
  ASSUME IInv, NEW s \in Servers, Recovering(s) PROVE IInv'
<1>1. CASE RecoverJob(s)
  BY <1>1, RecoverJobOK
<1>2. CASE RecoverActive(s)
  BY <1>2 DEF RecoverActive, Goto, tables, IInv, TypeOK, RowsOK, RefsOK
<1>3. CASE RecoverProjects(s)
  BY <1>3 DEF RecoverProjects, Goto, tables, IInv, TypeOK, RowsOK, RefsOK
<1>4. CASE RecoverMark(s)
  <2>1. projects' \in [Projects -> ProjectStatuses \cup Absent]
    BY <1>4 DEF RecoverMark, SetProject, IInv, TypeOK, ProjectStatuses
  <2> QED BY <1>4, <2>1 DEF RecoverMark, IInv, TypeOK, RowsOK, RefsOK
<1>5. CASE RecoverDone(s)
  BY <1>5, ParkOK DEF RecoverDone, tables, IInv, TypeOK, RowsOK
<1> QED BY <1>1, <1>2, <1>3, <1>4, <1>5 DEF Recovering

\* A request leaves the processes alone.
LEMMA ClientOK ==
  ASSUME IInv, ClientStep PROVE IInv'
<1>0. "queue_commit" \in ThreadPcs /\ Clients \cap Servers = {} /\ NewJobTypes \subseteq JobTypes
  BY WorkflowConstants
<1>1. ASSUME NEW p \in Projects, CreateProject(p) PROVE IInv'
  BY <1>1 DEF CreateProject, SetProject, locals, memory, IInv, TypeOK, RowsOK, RefsOK, ProjectStatuses
<1>2. ASSUME NEW p \in Projects, NEW type \in NewJobTypes,
             CreateProjectAndQueuedImportJob(p, type)
      PROVE  IInv'
  <2>1. RowOK(QueuedRow(p, type)) /\ type \in JobTypes
    BY <1>0, QueuedRowOK
  <2>2. SetJob(nextJob, QueuedRow(p, type)) /\ nextJob \in JobIds /\ nextJob' = nextJob + 1
    BY <1>2 DEF CreateProjectAndQueuedImportJob, InsertJob, SetJob
  <2>3. jobs' \in [JobIds -> Row] /\ RowsOK'
    BY <2>1, <2>2, SetJobOK DEF IInv
  <2>4. nextJob' \in 1..MaxJobs + 1
    BY <2>2 DEF JobIds
  <2>5. tempFiles' \subseteq JobIds
    BY <1>2, <2>2 DEF CreateProjectAndQueuedImportJob, InsertJob, IInv, TypeOK
  <2>6. projects' \in [Projects -> ProjectStatuses \cup Absent]
    BY <1>2 DEF CreateProjectAndQueuedImportJob, SetProject, IInv, TypeOK, ProjectStatuses, BusyStatuses
  <2> QED BY <1>2, <2>3, <2>4, <2>5, <2>6
          DEF CreateProjectAndQueuedImportJob, locals, memory, IInv, TypeOK, RefsOK
<1>3. ASSUME NEW c \in Clients, NEW p \in Projects, NEW type \in NewJobTypes,
             EnqueueBegin(c, p, type)
      PROVE  IInv'
  <2>1. /\ txn' \in [Callers -> Transaction]
        /\ txn'[c].kind = "enqueue" /\ txn'[c].project = p
        /\ \A d \in Callers : d # c => txn'[d] = txn[d]
    BY <1>0, <1>3, EnqueueSnapshotOK DEF EnqueueBegin
  <2> QED BY <1>0, <1>3, <2>1 DEF EnqueueBegin, tables, locals, memory, IInv, TypeOK, RowsOK, RefsOK
<1>4. ASSUME NEW c \in Clients, EnqueueCommit(c) PROVE IInv'
  <2>1. /\ jobs' \in [JobIds -> Row] /\ RowsOK'
        /\ nextJob' \in 1..MaxJobs + 1
        /\ projects' \in [Projects -> ProjectStatuses \cup Absent]
        /\ tempFiles' \subseteq JobIds
        /\ txn' = [txn EXCEPT ![c] = NoTxn]
    BY <1>4, EnqueueWritesOK DEF EnqueueCommit
  <2>2. TypeOK'
    BY <1>4, <2>1, NothingHeld DEF EnqueueCommit, locals, memory, IInv, TypeOK
  <2>3. RefsOK'
    BY <1>0, <1>4, <2>1 DEF EnqueueCommit, NoTxn, locals, memory, IInv, TypeOK, RefsOK
  <2> QED BY <2>1, <2>2, <2>3 DEF IInv
<1>5. ASSUME NEW c \in Clients, EnqueueRefused(c) PROVE IInv'
  <2>1. TypeOK'
    BY <1>5, NothingHeld DEF EnqueueRefused, tables, locals, memory, IInv, TypeOK
  <2>2. RefsOK' /\ RowsOK'
    BY <1>0, <1>5 DEF EnqueueRefused, NoTxn, tables, locals, memory, IInv, TypeOK, RowsOK, RefsOK
  <2> QED BY <2>1, <2>2 DEF IInv
<1>6. ASSUME NEW c \in Clients, NEW p \in Projects, DeleteBegin(c, p) PROVE IInv'
  <2> DEFINE new == [NoTxn EXCEPT !.kind = "delete", !.project = p]
  <2>1. new \in Transaction /\ new.project = p
    BY NothingHeld DEF NoTxn, Transaction
  <2>2. txn' = [txn EXCEPT ![c] = new]
    BY <1>6 DEF DeleteBegin
  <2> HIDE DEF new
  <2> QED BY <1>0, <1>6, <2>1, <2>2 DEF DeleteBegin, tables, locals, memory, IInv, TypeOK, RowsOK, RefsOK
<1>7. ASSUME NEW c \in Clients, DeleteCommit(c) PROVE IInv'
  <2>1. \A j \in JobIds : RowOK(jobs'[j])
    BY <1>7, NoRowOK DEF DeleteCommit, IInv, TypeOK, RowsOK
  <2>2. jobs' \in [JobIds -> Row]
    BY <1>7, NoRowOK DEF DeleteCommit, IInv, TypeOK, RowOK
  <2>3. TypeOK'
    BY <1>7, <2>2, NothingHeld DEF DeleteCommit, SetProject, locals, memory, IInv, TypeOK, Absent
  <2>4. RefsOK'
    BY <1>0, <1>7 DEF DeleteCommit, NoTxn, locals, memory, IInv, TypeOK, RefsOK
  <2> QED BY <2>1, <2>3, <2>4 DEF IInv, RowsOK
<1> QED BY <1>1, <1>2, <1>3, <1>4, <1>5, <1>6, <1>7 DEF ClientStep

-----------------------------------------------------------------------------
\* IInv is inductive.
LEMMA NextOK == IInv /\ [Next]_vars => IInv'
<1> SUFFICES ASSUME IInv, [Next]_vars PROVE IInv' OBVIOUS
<1>1. CASE ClientStep
  BY <1>1, ClientOK
<1>2. ASSUME NEW s \in Servers, ServerStep(s) PROVE IInv'
  <2>1. CASE Claiming(s)
    BY <2>1, ClaimingOK
  <2>2. CASE Load(s)
    BY <2>2, LoadOK
  <2>3. CASE Importing(s)
    BY <2>3, ImportingOK, ThreadStepOK
  <2>4. CASE Analyzing(s)
    BY <2>4, AnalyzingOK, ThreadStepOK
  <2>5. CASE Start(s)
    BY <2>5, EndingOK, ThreadStepOK
  <2>6. CASE Finishing(s)
    BY <2>6, EndingOK, ThreadStepOK, QueueAnalyzeOK, CleaningOK DEF Finishing
  <2>7. CASE Recovering(s)
    BY <2>7, RecoveringOK
  <2> QED BY <1>2, <2>1, <2>2, <2>3, <2>4, <2>5, <2>6, <2>7 DEF ServerStep
<1>3. ASSUME NEW s \in Servers, RecoverBegin(s) \/ GuardianRenews(s) \/ Failing(s)
      PROVE  IInv'
  BY <1>3, RecoverBeginOK, GuardianOK, FailingOK
<1>4. CASE Tick
  <2>1. clock + 1 \in Nat
    BY DEF IInv, TypeOK
  <2> QED BY <1>4, <2>1 DEF Tick, tables, locals, memory, IInv, TypeOK, RowsOK, RefsOK
<1>5. CASE UNCHANGED vars
  BY <1>5 DEF vars, tables, locals, memory, IInv, TypeOK, RowsOK, RefsOK
<1> QED BY <1>1, <1>2, <1>3, <1>4, <1>5 DEF Next

\* IInv holds of the initial state.
LEMMA InitOK == Init => IInv
<1> SUFFICES ASSUME Init PROVE IInv OBVIOUS
<1>1. RowsOK /\ jobs \in [JobIds -> Row]
  <2>1. NoRow \in Row
    BY NoRowOK DEF RowOK
  <2> QED BY <2>1, NoRowOK DEF Init, RowsOK
<1>2. TypeOK
  BY <1>1, NothingHeld DEF Init, TypeOK, Absent
<1>3. RefsOK
  BY DEF Init, RefsOK, NoTxn
<1> QED BY <1>1, <1>2, <1>3 DEF IInv

\* IInv is an invariant of the workflow.
LEMMA Invariance == Spec => []IInv
  BY InitOK, NextOK, PTL DEF Spec

\* TypeOK: every column, program counter and saved read stays in its domain;
\* in particular no claim raises attemptCount above the retry budget, although
\* it writes an attempt computed from a row it read before.
THEOREM TypeCorrect == Spec => []TypeOK
<1>1. IInv => TypeOK
  BY DEF IInv
<1> QED BY <1>1, Invariance, PTL

\* JobRowsConsistent: a queued row can be claimed, a running row has an owner
\* and a lease, and a row that has ended holds nothing, whatever interleaving
\* of requests, claims, heartbeats, recoveries and failures led to it.
THEOREM RowsConsistent == Spec => []JobRowsConsistent
<1>1. IInv => JobRowsConsistent
  BY DEF IInv, RowsOK, RowOK, JobRowsConsistent, QueuedIsClaimable, RunningIsOwned,
         TerminalIsReleased
<1> QED BY <1>1, Invariance, PTL

-----------------------------------------------------------------------------
(***************************************************************************)
(* What any step does to the job table: the writes of the source's UPDATE, *)
(* INSERT and DELETE statements, and nothing else.                         *)
(***************************************************************************)
Keeps   == UNCHANGED <<jobs, nextJob>>
Renews  == \E j \in JobIds : SetJob(j, Renewed(jobs[j], clock)) /\ UNCHANGED nextJob
Claims  == \E j \in JobIds, s \in Servers, n \in 1..MaxAttempts :
             /\ IsActive(jobs[j])
             /\ jobs[j].status = "running" =>
                  cand[s].status = "running" /\ jobs[j].leaseUntil = cand[s].leaseUntil
             /\ SetJob(j, Claimed(jobs[j], s, n, now[s])) /\ UNCHANGED nextJob
Ends    == \E j \in JobIds, status \in TerminalStatuses :
             /\ jobs[j].status = "running"
             /\ SetJob(j, Finished(jobs[j], status)) /\ UNCHANGED nextJob
Returns == \E j \in JobIds :
             /\ jobs[j].status = "running" /\ CanRetry(jobs[j])
             /\ SetJob(j, Requeued(jobs[j])) /\ UNCHANGED nextJob
Inserts == \E p \in Projects, type \in JobTypes, stale \in SUBSET JobIds :
             /\ nextJob \in JobIds /\ nextJob' = nextJob + 1
             /\ jobs' = [[j \in JobIds |-> IF j \in stale THEN WithoutKey(jobs[j])
                                                          ELSE jobs[j]]
                           EXCEPT ![nextJob] = QueuedRow(p, type)]
Deletes == \E p \in Projects :
             /\ jobs' = [j \in JobIds |-> IF jobs[j].project = p THEN NoRow ELSE jobs[j]]
             /\ UNCHANGED nextJob

JobsStep == Keeps \/ Renews \/ Claims \/ Ends \/ Returns \/ Inserts \/ Deletes

\* A checkpoint renews one lease or keeps the table.
LEMMA CheckpointJobs ==
  ASSUME IInv, NEW s \in Servers, NEW label, CheckAndRefresh(s, label), UNCHANGED nextJob
  PROVE  Keeps \/ Renews
<1>1. exec[s].job \in JobIds /\ clock \in Nat
  BY DEF IInv, TypeOK, Execution
<1> QED BY <1>1 DEF CheckAndRefresh, Refresh, Job, Keeps, Renews

\* A fenced finalization ends one running job or keeps the table.
LEMMA FinishIfHeldJobs ==
  ASSUME IInv, NEW s \in Servers, pc[s] \in {"finalize", "failwrite"},
         NEW status \in TerminalStatuses, NEW label, FinishIfHeld(s, status, label),
         UNCHANGED nextJob
  PROVE  Keeps \/ Ends
<1>1. exec[s].job \in JobIds /\ exec[s].owner # Nobody
  BY DEF IInv, TypeOK, Execution, RefsOK
<1>2. CASE Holds(s)
  <2>1. jobs[exec[s].job].status = "running"
    BY <1>1, <1>2 DEF Holds, Unfenced, IsHeldBy, Job
  <2> QED BY <1>1, <1>2, <2>1 DEF FinishIfHeld, Job, Ends
<1>3. CASE ~Holds(s)
  BY <1>3 DEF FinishIfHeld, Keeps
<1> QED BY <1>2, <1>3

\* An enqueue inserts one queued job.
LEMMA EnqueueJobs ==
  ASSUME IInv, NEW c \in Callers, txn[c].kind = "enqueue", EnqueueWrites(c)
  PROVE  Inserts
<1>1. txn[c].project \in Projects /\ txn[c].type \in JobTypes /\ txn[c].stale \in SUBSET JobIds
  BY DEF IInv, TypeOK, RefsOK, Transaction
<1> QED BY <1>1 DEF EnqueueWrites, InsertJob, Inserts

\* What the steps of a process do to the job table.
LEMMA ServerJobs ==
  ASSUME IInv, NEW s \in Servers,
         ServerStep(s) \/ RecoverBegin(s) \/ GuardianRenews(s) \/ Failing(s)
  PROVE  JobsStep
<1>1. CASE Claiming(s)
  <2>1. CASE ClaimUpdate(s) /\ CandidateUnchanged(s)
    <3>1. /\ cand[s].job \in JobIds /\ now[s] \in Nat
          /\ cand[s].status \in ActiveStatuses /\ ClaimAttempt(s) \in 1..MaxAttempts
      BY DEF IInv, TypeOK, Sighting, ClaimAttempt
    <3> QED BY <2>1, <3>1 DEF ClaimUpdate, CandidateUnchanged, IsActive, Claims, JobsStep
  <2> QED BY <1>1, <2>1 DEF Claiming, ClaimSelect, ClaimNothing, ClaimUpdate, ClaimVerify,
                            tables, JobsStep, Keeps
<1>2. CASE \/ Start(s) \/ Importing(s) \/ Analyzing(s) \/ FailJob(s)
  <2>1. Keeps \/ ((\E label : CheckAndRefresh(s, label)) /\ UNCHANGED nextJob)
    BY <1>2 DEF Start, Importing, ReadSource, ReadSourceFails, ImportBegin,
       ImportPersistCheck, ImportCommit, ImportErrorUnfenced, Analyzing, Bootstrap,
       BootstrapWrite, Analyze, AnalyzeFails, AnalysisBegin, AnalysisCommit, AnalysisError,
       AnalysisFail, FailJob, tables, Keeps
  <2> QED BY <2>1, CheckpointJobs DEF JobsStep
<1>3. CASE PreFinalize(s)
  <2>1. Keeps \/ (CheckAndRefresh(s, "finalize") /\ UNCHANGED nextJob)
    BY <1>3 DEF PreFinalize, CheckAndRefresh, HoldsLive, Holds, IsOwnershipActive, Keeps
  <2> QED BY <2>1, CheckpointJobs DEF JobsStep
<1>4. CASE Finalize(s) \/ FailWrite(s)
  BY <1>4, FinishIfHeldJobs DEF Finalize, FailWrite, TerminalStatuses, JobsStep
<1>5. CASE QueueAnalyze(s) \/ QueueAnalyzeCommit(s)
  <2>1. pc[s] = "queue_commit" => txn[s].kind = "enqueue"
    BY DEF IInv, RefsOK
  <2> QED BY <1>5, <2>1, EnqueueJobs
          DEF QueueAnalyze, QueueAnalyzeCommit, tables, Keeps, JobsStep
<1>6. CASE FailClaimed(s)
  <2>1. own[s].job \in JobIds
    BY DEF IInv, TypeOK, Ownership
  <2> QED BY <1>6, <2>1 DEF FailClaimed, IsHeldBy, TerminalStatuses, Keeps, Ends, JobsStep
<1>7. CASE RecoverJob(s)
  <2>1. PICK t \in todo[s] :
          \/ UNCHANGED jobs
          \/ /\ IsHeldBy(jobs[t.job], t.lockedBy, t.attemptCount)
             /\ \/ t.attemptCount < MaxAttempts /\ SetJob(t.job, Requeued(jobs[t.job]))
                \/ SetJob(t.job, Finished(jobs[t.job], "failed"))
    BY <1>7 DEF RecoverJob
  <2>2. t.job \in JobIds /\ UNCHANGED nextJob
    BY <1>7 DEF RecoverJob, IInv, TypeOK, StaleSighting
  <2> QED BY <2>1, <2>2 DEF IsHeldBy, CanRetry, TerminalStatuses, Keeps, Returns, Ends, JobsStep
<1>8. CASE GuardianRenews(s)
  <2>1. own[s].job \in JobIds /\ clock \in Nat
    BY DEF IInv, TypeOK, Ownership
  <2> QED BY <1>8, <2>1 DEF GuardianRenews, Renews, JobsStep
<1>9. CASE \/ Load(s) \/ ProjectRead(s) \/ ProjectWrite(s) \/ Cleanup(s) \/ CleanupError(s)
           \/ RecoverBegin(s) \/ RecoverActive(s) \/ RecoverProjects(s) \/ RecoverMark(s)
           \/ RecoverDone(s) \/ Failing(s)
  BY <1>9 DEF Load, ProjectRead, ProjectWrite, Cleanup, CleanupError, RecoverBegin,
     RecoverActive, RecoverProjects, RecoverMark, RecoverDone, Failing, StatementError,
     ThreadLost, Crash, tables, Keeps, JobsStep
<1> QED BY <1>1, <1>2, <1>3, <1>4, <1>5, <1>6, <1>7, <1>8, <1>9
        DEF ServerStep, Finishing, Recovering

\* Every step of the workflow does one of the seven things to the job table.
LEMMA NextJobs == IInv /\ [Next]_vars => JobsStep
<1> SUFFICES ASSUME IInv, [Next]_vars PROVE JobsStep OBVIOUS
<1>1. CASE ClientStep
  <2>1. NewJobTypes \subseteq JobTypes
    BY WorkflowConstants
  <2>2. ASSUME NEW p \in Projects, NEW type \in NewJobTypes,
               CreateProjectAndQueuedImportJob(p, type)
        PROVE  Inserts
    <3>1. /\ nextJob \in JobIds /\ nextJob' = nextJob + 1 /\ type \in JobTypes
          /\ jobs' = [jobs EXCEPT ![nextJob] = QueuedRow(p, type)]
      BY <2>1, <2>2 DEF CreateProjectAndQueuedImportJob, InsertJob
    <3>2. jobs = [j \in JobIds |-> IF j \in {} THEN WithoutKey(jobs[j]) ELSE jobs[j]]
      BY DEF IInv, TypeOK
    <3>3. jobs' = [[j \in JobIds |-> IF j \in {} THEN WithoutKey(jobs[j]) ELSE jobs[j]]
                     EXCEPT ![nextJob] = QueuedRow(p, type)]
      BY <3>1, <3>2
    <3>4. {} \in SUBSET JobIds
      OBVIOUS
    <3> QED BY <3>1, <3>3, <3>4, Zenon DEF Inserts
  <2>3. ASSUME NEW c \in Clients, EnqueueCommit(c) PROVE Inserts
    BY <2>3, EnqueueJobs DEF EnqueueCommit
  <2>4. ASSUME NEW c \in Clients, DeleteCommit(c) PROVE Deletes
    <3>1. txn[c].project \in Projects
      BY <2>4 DEF DeleteCommit, IInv, RefsOK
    <3> QED BY <2>4, <3>1 DEF DeleteCommit, Deletes, locals
  <2>5. ASSUME NEW c \in Clients, NEW p \in Projects, NEW type \in NewJobTypes,
               EnqueueBegin(c, p, type)
        PROVE  Keeps
    BY <2>5 DEF EnqueueBegin, tables, Keeps
  <2>6. ASSUME NEW p \in Projects, CreateProject(p) PROVE Keeps
    BY <2>6 DEF CreateProject, Keeps
  <2>7. ASSUME NEW c \in Clients, NEW p \in Projects, DeleteBegin(c, p) PROVE Keeps
    BY <2>7 DEF DeleteBegin, tables, Keeps
  <2>8. ASSUME NEW c \in Clients, EnqueueRefused(c) PROVE Keeps
    BY <2>8 DEF EnqueueRefused, tables, Keeps
  <2> QED BY <1>1, <2>2, <2>3, <2>4, <2>5, <2>6, <2>7, <2>8 DEF ClientStep, JobsStep
<1>2. ASSUME NEW s \in Servers,
             RecoverBegin(s) \/ ServerStep(s) \/ GuardianRenews(s) \/ Failing(s)
      PROVE  JobsStep
  BY <1>2, ServerJobs
<1>3. CASE Tick
  BY <1>3 DEF Tick, tables, Keeps, JobsStep
<1>4. CASE UNCHANGED vars
  BY <1>4 DEF vars, tables, Keeps, JobsStep
<1> QED BY <1>1, <1>2, <1>3, <1>4 DEF Next

-----------------------------------------------------------------------------
\* Ids are handed out in order: a row the counter has not reached is empty.
FreshOK == \A j \in JobIds : j >= nextJob => jobs[j].status = "none"

\* No write reaches a row before its id has been handed out.
LEMMA FreshStep == IInv /\ IInv' /\ FreshOK /\ JobsStep => FreshOK'
<1> SUFFICES ASSUME IInv, IInv', FreshOK, JobsStep, NEW j \in JobIds, j >= nextJob'
             PROVE  jobs'[j].status = "none"
  BY DEF FreshOK
<1> USE DEF IInv, TypeOK, JobIds, SetJob
<1>0. jobs[j] \in Row /\ nextJob \in Nat /\ j \in Nat
  OBVIOUS
<1>1. CASE Keeps \/ Renews \/ Claims \/ Ends \/ Returns
  <2>1. j >= nextJob
    BY <1>1 DEF Keeps, Renews, Claims, Ends, Returns
  <2>2. jobs[j].status = "none"
    BY <2>1 DEF FreshOK
  <2>3. jobs'[j].status # "none" => jobs'[j] # jobs[j]
    BY <2>2
  <2>4. \A i \in JobIds : \A row : SetJob(i, row) /\ i # j => jobs'[j] = jobs[j]
    OBVIOUS
  <2>5. CASE Renews
    BY <2>2, <2>5 DEF Renews, Renewed, Row
  <2>6. CASE Keeps \/ Claims \/ Ends \/ Returns
    BY <2>2, <2>4, <2>6 DEF Keeps, Claims, IsActive, ActiveStatuses, Ends, Returns
  <2> QED BY <1>1, <2>5, <2>6
<1>2. CASE Inserts
  <2>1. j # nextJob /\ j >= nextJob
    BY <1>0, <1>2 DEF Inserts
  <2>2. jobs'[j] = jobs[j] \/ jobs'[j] = WithoutKey(jobs[j])
    BY <1>2, <2>1 DEF Inserts
  <2>3. jobs[j].status = "none"
    BY <2>1 DEF FreshOK
  <2>4. WithoutKey(jobs[j]).status = jobs[j].status
    BY <1>0 DEF WithoutKey, Row
  <2> QED BY <2>2, <2>3, <2>4
<1>3. CASE Deletes
  BY <1>3 DEF Deletes, NoRow, FreshOK
<1> QED BY <1>1, <1>2, <1>3 DEF JobsStep

\* FreshOK is an invariant of the workflow.
LEMMA Fresh == Spec => []FreshOK
<1>1. Init => FreshOK
  BY DEF Init, FreshOK, NoRow
<1>2. IInv /\ FreshOK /\ [Next]_vars => FreshOK'
  BY NextOK, NextJobs, FreshStep
<1> QED BY <1>1, <1>2, Invariance, PTL DEF Spec

\* No write of the job table starts from a terminal row, but its deletion:
\* an INSERT uses a fresh id and every UPDATE demands an active one.
LEMMA TerminalStep ==
  ASSUME IInv, FreshOK, JobsStep, NEW j \in JobIds, jobs[j].status \in TerminalStatuses
  PROVE  jobs'[j].status \in {jobs[j].status, "none"}
<1> USE DEF IInv, TypeOK, TerminalStatuses
<1>0. jobs[j] \in Row
  OBVIOUS
<1>1. CASE Keeps \/ Renews \/ Claims \/ Ends \/ Returns
  <2>1. CASE Renews
    BY <1>0, <2>1 DEF Renews, Renewed, Row, SetJob
  <2>2. CASE Keeps \/ Claims \/ Ends \/ Returns
    BY <2>2 DEF Keeps, Claims, IsActive, ActiveStatuses, Ends, Returns, SetJob
  <2> QED BY <1>1, <2>1, <2>2
<1>2. CASE Inserts
  <2>1. j # nextJob
    BY <1>2 DEF Inserts, FreshOK, JobIds
  <2>2. jobs'[j] = jobs[j] \/ jobs'[j] = WithoutKey(jobs[j])
    BY <1>2, <2>1 DEF Inserts
  <2> QED BY <1>0, <2>2 DEF WithoutKey, Row
<1>3. CASE Deletes
  BY <1>3 DEF Deletes, NoRow
<1> QED BY <1>1, <1>2, <1>3 DEF JobsStep

\* TerminalIsFinal: whatever stale claim, recovery, finalization or failure
\* report arrives, a job that has completed or failed keeps its end.
THEOREM TerminalStaysFinal == Spec => TerminalIsFinal
<1>1. IInv /\ FreshOK /\ [Next]_vars =>
        [\A j \in JobIds : jobs[j].status \in TerminalStatuses =>
           jobs'[j].status \in {jobs[j].status, "none"}]_vars
  BY NextJobs, TerminalStep
<1> QED BY <1>1, Invariance, Fresh, PTL DEF Spec, TerminalIsFinal

-----------------------------------------------------------------------------
(***************************************************************************)
(* The refinement: every step of the workflow is a step of JobLifecycle or *)
(* leaves what it shows of the jobs alone.                                 *)
(***************************************************************************)
Shown(row) == [state |-> row.status, holder |-> row.lockedBy, attempt |-> row.attemptCount]
ShownJobs  == [j \in JobIds |-> Shown(jobs[j])]

\* What each write shows.
LEMMA ShownWrites ==
  ASSUME NEW row \in Row, NEW s, NEW n, NEW t, NEW status
  PROVE  /\ Shown(Renewed(row, t)) = Shown(row)
         /\ Shown(WithoutKey(row)) = Shown(row)
         /\ Shown(Claimed(row, s, n, t)) = [state |-> "running", holder |-> s, attempt |-> n]
         /\ Shown(Finished(row, status)) =
              [state |-> status, holder |-> Nobody, attempt |-> row.attemptCount]
         /\ Shown(Requeued(row)) =
              [state |-> "queued", holder |-> Nobody, attempt |-> row.attemptCount]
  BY DEF Shown, Renewed, WithoutKey, Claimed, Finished, Requeued, Row

\* Writing a row changes what the table shows at that row only.
LEMMA SetJobShown ==
  ASSUME TypeOK, NEW j \in JobIds, NEW row, SetJob(j, row)
  PROVE  ShownJobs' = [ShownJobs EXCEPT ![j] = Shown(row)]
  BY DEF TypeOK, SetJob, ShownJobs

\* Each of the seven writes is a step of the abstract job life, or shows nothing.
LEMMA LifecycleStep ==
  ASSUME IInv, IInv', JobsStep PROVE [Lifecycle!LifeNext]_(Lifecycle!lifeVars)
<1> DEFINE life == ShownJobs
           issued == nextJob - 1
<1>1. /\ jobs \in [JobIds -> Row] /\ jobs' \in [JobIds -> Row]
      /\ nextJob \in Nat /\ TypeOK
  BY DEF IInv, TypeOK
<1>2. CASE Keeps
  BY <1>2 DEF Keeps, Lifecycle!lifeVars
<1>3. CASE Renews
  <2>1. PICK j \in JobIds : SetJob(j, Renewed(jobs[j], clock)) /\ UNCHANGED nextJob
    BY <1>3 DEF Renews
  <2>2. Shown(Renewed(jobs[j], clock)) = Shown(jobs[j])
    BY <1>1, ShownWrites
  <2>3. life' = life
    <3>1. ShownJobs' = [ShownJobs EXCEPT ![j] = Shown(Renewed(jobs[j], clock))]
      BY <1>1, <2>1, SetJobShown
    <3>2. ShownJobs[j] = Shown(jobs[j])
      BY DEF ShownJobs
    <3>3. ShownJobs' = ShownJobs
      BY <2>2, <3>1, <3>2 DEF ShownJobs
    <3> QED BY <3>3 DEF ShownJobs, Shown
  <2> QED BY <2>1, <2>3 DEF ShownJobs, Shown, Lifecycle!lifeVars
<1>4. CASE Claims
  <2>1. PICK j \in JobIds, s \in Servers, n \in 1..MaxAttempts :
          /\ IsActive(jobs[j])
          /\ SetJob(j, Claimed(jobs[j], s, n, now[s])) /\ UNCHANGED nextJob
    BY <1>4 DEF Claims
  <2>2. Shown(Claimed(jobs[j], s, n, now[s])) = [state |-> "running", holder |-> s, attempt |-> n]
    BY <1>1, ShownWrites
  <2>3. life' = [life EXCEPT ![j] = [state |-> "running", holder |-> s, attempt |-> n]]
    BY <1>1, <2>1, <2>2, SetJobShown
  <2>4. Lifecycle!Hold(j, s)
    BY <2>1, <2>3 DEF Lifecycle!Hold, ShownJobs, Shown, IsActive, ActiveStatuses
  <2> QED BY <2>4 DEF Lifecycle!LifeNext
<1>5. CASE Ends
  <2>1. PICK j \in JobIds, status \in TerminalStatuses :
          /\ jobs[j].status = "running"
          /\ SetJob(j, Finished(jobs[j], status)) /\ UNCHANGED nextJob
    BY <1>5 DEF Ends
  <2>2. Shown(Finished(jobs[j], status)) =
          [state |-> status, holder |-> Nobody, attempt |-> jobs[j].attemptCount]
    BY <1>1, ShownWrites
  <2>3. life' = [life EXCEPT ![j] = [state |-> status, holder |-> Nobody,
                                     attempt |-> jobs[j].attemptCount]]
    BY <1>1, <2>1, <2>2, SetJobShown
  <2>4. Lifecycle!End(j, status)
    BY <2>1, <2>3 DEF Lifecycle!End, Lifecycle!Ended, ShownJobs, Shown, TerminalStatuses
  <2> QED BY <2>1, <2>4 DEF Lifecycle!LifeNext, Lifecycle!Ended, TerminalStatuses
<1>6. CASE Returns
  <2>1. PICK j \in JobIds :
          /\ jobs[j].status = "running" /\ CanRetry(jobs[j])
          /\ SetJob(j, Requeued(jobs[j])) /\ UNCHANGED nextJob
    BY <1>6 DEF Returns
  <2>2. Shown(Requeued(jobs[j])) =
          [state |-> "queued", holder |-> Nobody, attempt |-> jobs[j].attemptCount]
    BY <1>1, ShownWrites
  <2>3. life' = [life EXCEPT ![j] = [state |-> "queued", holder |-> Nobody,
                                     attempt |-> jobs[j].attemptCount]]
    BY <1>1, <2>1, <2>2, SetJobShown
  <2>4. Lifecycle!GiveBack(j)
    BY <2>1, <2>3 DEF Lifecycle!GiveBack, ShownJobs, Shown, CanRetry
  <2>5. \E i \in JobIds : Lifecycle!GiveBack(i)
    BY <2>4, Zenon
  <2> QED BY <2>5 DEF Lifecycle!LifeNext
<1>7. CASE Inserts
  <2>1. PICK p \in Projects, type \in JobTypes, stale \in SUBSET JobIds :
          /\ nextJob \in JobIds /\ nextJob' = nextJob + 1
          /\ jobs' = [[j \in JobIds |-> IF j \in stale THEN WithoutKey(jobs[j])
                                                       ELSE jobs[j]]
                        EXCEPT ![nextJob] = QueuedRow(p, type)]
    BY <1>7 DEF Inserts
  <2>2. Shown(QueuedRow(p, type)) = [state |-> "queued", holder |-> Nobody, attempt |-> 0]
    BY DEF Shown, QueuedRow
  <2>3. \A j \in JobIds : Shown(WithoutKey(jobs[j])) = Shown(jobs[j])
    BY <1>1, ShownWrites
  <2>4. life' = [life EXCEPT ![nextJob] =
                   [state |-> "queued", holder |-> Nobody, attempt |-> 0]]
    BY <2>1, <2>2, <2>3 DEF ShownJobs
  <2>5. PICK i \in JobIds : i = nextJob
    BY <2>1
  <2>6. i = issued + 1 /\ issued' = i
    BY <1>1, <2>1, <2>5
  <2>7. Lifecycle!Submit(i)
    BY <2>4, <2>5, <2>6 DEF Lifecycle!Submit, ShownJobs, Shown
  <2> QED BY <2>7 DEF Lifecycle!LifeNext
<1>8. CASE Deletes
  <2>1. PICK p \in Projects :
          /\ jobs' = [j \in JobIds |-> IF jobs[j].project = p THEN NoRow ELSE jobs[j]]
          /\ UNCHANGED nextJob
    BY <1>8 DEF Deletes
  <2>2. PICK gone \in SUBSET JobIds : gone = {j \in JobIds : jobs[j].project = p}
    OBVIOUS
  <2>3. Shown(NoRow) = [state |-> "none", holder |-> Nobody, attempt |-> 0]
    BY DEF Shown, NoRow
  <2>4. life' = [j \in JobIds |->
                   IF j \in gone THEN [state |-> "none", holder |-> Nobody, attempt |-> 0]
                                 ELSE life[j]]
    BY <2>1, <2>2, <2>3 DEF ShownJobs
  <2>5. Lifecycle!Remove(gone)
    BY <2>1, <2>4 DEF Lifecycle!Remove, Lifecycle!NotSubmitted, ShownJobs, Shown
  <2> QED BY <2>5 DEF Lifecycle!LifeNext
<1> QED BY <1>2, <1>3, <1>4, <1>5, <1>6, <1>7, <1>8 DEF JobsStep

\* ImplementsLifecycle: seen through status, owner and attempt, every
\* behaviour of the workflow is a behaviour of the abstract job life.
THEOREM WorkflowImplementsLifecycle == Spec => ImplementsLifecycle
<1>1. Init => Lifecycle!LifeInit
  BY DEF Init, Lifecycle!LifeInit, Lifecycle!NotSubmitted, NoRow
<1>2. IInv /\ [Next]_vars => [Lifecycle!LifeNext]_(Lifecycle!lifeVars)
  BY NextOK, NextJobs, LifecycleStep
<1> QED BY <1>1, <1>2, Invariance, PTL DEF Spec, ImplementsLifecycle, Lifecycle!LifeSpec

-----------------------------------------------------------------------------
(***************************************************************************)
(* Leases.  A claim counts its lease from a time fixed before the          *)
(* candidate was read; that this lease is none the less later than the     *)
(* one it replaces needs the invariant that an expired candidate had       *)
(* expired by that very time.                                              *)
(***************************************************************************)
\* No lease reaches further than one counted from the present; no process is
\* ahead of the clock, and the running candidate it has read had expired then.
TimesOK ==
  /\ \A j \in JobIds : jobs[j].leaseUntil <= clock + LeaseTicks
  /\ \A s \in Servers :
       /\ now[s] <= clock
       /\ cand[s].status = "running" => cand[s].leaseUntil <= now[s]

\* What a step may do to what a process knows of the time.
Reads(s)   == /\ clock' = clock /\ now'[s] \in {clock, now[s]}
              /\ \E j \in Claimables(now'[s]) : cand'[s] = See(j)
Forgets(s) == now'[s] = 0 /\ cand'[s] = NoSighting
Waits(s)   == now'[s] = now[s] /\ cand'[s] = cand[s]
TimesStep  == /\ clock' \in {clock, clock + 1}
              /\ \A s \in Servers : Waits(s) \/ Forgets(s) \/ Reads(s)

\* Parking forgets the candidate, and touches no other process.
LEMMA ParkTimes ==
  ASSUME IInv, NEW s \in Servers, Park(s), UNCHANGED clock
  PROVE  TimesStep
  BY DEF Park, TimesStep, Waits, Forgets, IInv, TypeOK

\* Only the loop's own steps of claiming touch its candidate.
LEMMA ClaimTimes ==
  ASSUME IInv, NEW s \in Servers, Claiming(s)
  PROVE  TimesStep
<1> USE DEF IInv, TypeOK
<1>1. CASE ClaimSelect(s)
  BY <1>1 DEF ClaimSelect, TimesStep, Waits, Reads
<1>2. CASE ClaimNothing(s)
  BY <1>2, ParkTimes DEF ClaimNothing
<1>3. CASE ClaimUpdate(s)
  BY <1>3 DEF ClaimUpdate, memory, TimesStep, Waits
<1>4. CASE ClaimVerify(s)
  BY <1>4 DEF ClaimVerify, TimesStep, Waits, Forgets
<1> QED BY <1>1, <1>2, <1>3, <1>4 DEF Claiming

\* What the other steps of a process do.
LEMMA ServerTimes ==
  ASSUME IInv, NEW s \in Servers,
         ServerStep(s) \/ RecoverBegin(s) \/ GuardianRenews(s) \/ Failing(s)
  PROVE  TimesStep
<1>1. CASE \/ Load(s) \/ Start(s) \/ Importing(s) \/ Analyzing(s) \/ GuardianRenews(s)
           \/ PreFinalize(s) \/ Finalize(s) \/ QueueAnalyze(s) \/ QueueAnalyzeCommit(s)
           \/ FailJob(s) \/ FailWrite(s) \/ ProjectRead(s) \/ ProjectWrite(s) \/ CleanupError(s)
  <2>1. UNCHANGED <<clock, now, cand>>
    BY <1>1 DEF Load, Start, Importing, ReadSource, ReadSourceFails, ImportBegin,
       ImportPersistCheck, ImportCommit, ImportErrorUnfenced, Analyzing, Bootstrap,
       BootstrapWrite, Analyze, AnalyzeFails, AnalysisBegin, AnalysisCommit, AnalysisError,
       AnalysisFail, GuardianRenews, PreFinalize, Finalize, QueueAnalyze, QueueAnalyzeCommit,
       FailJob, FailWrite, ProjectRead, ProjectWrite, CleanupError, memory, locals
  <2> QED BY <2>1 DEF TimesStep, Waits
<1>2. CASE Cleanup(s) \/ FailClaimed(s)
  <2>1. (Park(s) /\ UNCHANGED clock) \/ UNCHANGED <<clock, now, cand>>
    BY <1>2 DEF Cleanup, FailClaimed
  <2> QED BY <2>1, ParkTimes DEF TimesStep, Waits
<1>3. CASE Recovering(s) \/ RecoverBegin(s)
  <2>1. (Park(s) /\ UNCHANGED clock) \/ UNCHANGED <<clock, now, cand>>
    BY <1>3 DEF Recovering, RecoverBegin, RecoverJob, RecoverActive, RecoverProjects,
       RecoverMark, RecoverDone, memory
  <2> QED BY <2>1, ParkTimes DEF TimesStep, Waits
<1>4. CASE Failing(s)
  <2>1. CASE StatementError(s) \/ ThreadLost(s)
    <3>1. (Park(s) /\ UNCHANGED clock) \/ UNCHANGED <<clock, now, cand>>
      BY <2>1 DEF StatementError, ThreadLost, memory
    <3> QED BY <3>1, ParkTimes DEF TimesStep, Waits
  <2>2. CASE Crash(s)
    BY <2>2 DEF Crash, TimesStep, Waits, Forgets, IInv, TypeOK
  <2> QED BY <1>4, <2>1, <2>2 DEF Failing
<1>5. CASE Claiming(s)
  BY <1>5, ClaimTimes
<1> QED BY <1>1, <1>2, <1>3, <1>4, <1>5 DEF ServerStep, Finishing

\* Every step of the workflow is such a step.
LEMMA NextTimes == IInv /\ [Next]_vars => TimesStep
<1> SUFFICES ASSUME IInv, [Next]_vars PROVE TimesStep OBVIOUS
<1>1. CASE ClientStep
  <2>1. UNCHANGED <<clock, now, cand>>
    BY <1>1 DEF ClientStep, CreateProject, CreateProjectAndQueuedImportJob, EnqueueBegin,
       DeleteBegin, EnqueueCommit, EnqueueRefused, DeleteCommit, locals, memory
  <2> QED BY <2>1 DEF TimesStep, Waits
<1>2. ASSUME NEW s \in Servers,
             RecoverBegin(s) \/ ServerStep(s) \/ GuardianRenews(s) \/ Failing(s)
      PROVE  TimesStep
  BY <1>2, ServerTimes
<1>3. CASE Tick \/ UNCHANGED vars
  BY <1>3 DEF Tick, vars, locals, memory, TimesStep, Waits
<1> QED BY <1>1, <1>2, <1>3 DEF Next

\* The leases and the times of the types they are compared by.
LEMMA Comparable ==
  ASSUME IInv
  PROVE  /\ clock \in Nat /\ LeaseTicks \in Nat
         /\ \A j \in JobIds : jobs[j] \in Row /\ jobs[j].leaseUntil \in Nat
         /\ \A s \in Servers : now[s] \in Nat /\ cand[s].leaseUntil \in Nat
  BY JobConstants DEF IInv, TypeOK, Row, Sighting

\* An insert keeps the lease of every row but the new one, which has none.
LEMMA InsertedRows ==
  ASSUME IInv, Inserts, NEW j \in JobIds
  PROVE  \/ jobs'[j].leaseUntil = jobs[j].leaseUntil
         \/ jobs'[j].leaseUntil = 0 /\ jobs'[j].status = "queued"
<1> DEFINE old(stale) == [i \in JobIds |-> IF i \in stale THEN WithoutKey(jobs[i]) ELSE jobs[i]]
<1>1. PICK p \in Projects, type \in JobTypes, stale \in SUBSET JobIds :
        jobs' = [old(stale) EXCEPT ![nextJob] = QueuedRow(p, type)]
  BY DEF Inserts
<1>2. CASE j = nextJob
  <2>1. jobs'[j] = QueuedRow(p, type)
    BY <1>1, <1>2
  <2> QED BY <2>1 DEF QueuedRow
<1>3. CASE j # nextJob
  <2>1. jobs'[j] = jobs[j] \/ jobs'[j] = WithoutKey(jobs[j])
    BY <1>1, <1>3
  <2>2. WithoutKey(jobs[j]).leaseUntil = jobs[j].leaseUntil
    BY Comparable DEF WithoutKey, Row
  <2> QED BY <2>1, <2>2
<1> QED BY <1>2, <1>3

\* No write makes a lease longer than one counted from the present.
LEMMA LeasesBounded ==
  ASSUME IInv, TimesOK, JobsStep, NEW j \in JobIds
  PROVE  jobs'[j].leaseUntil <= clock + LeaseTicks
<1> USE Comparable DEF TimesOK
<1>0. jobs[j].leaseUntil <= clock + LeaseTicks /\ 0 <= clock + LeaseTicks
  OBVIOUS
<1>1. CASE Keeps
  BY <1>0, <1>1 DEF Keeps
<1>2. CASE Renews
  BY <1>0, <1>2 DEF Renews, Renewed, SetJob, Row, IInv, TypeOK
<1>3. CASE Claims
  <2>1. PICK i \in JobIds, s \in Servers, n \in 1..MaxAttempts :
          SetJob(i, Claimed(jobs[i], s, n, now[s]))
    BY <1>3 DEF Claims
  <2>2. Claimed(jobs[i], s, n, now[s]).leaseUntil = now[s] + LeaseTicks
    BY DEF Claimed, Row
  <2>3. now[s] + LeaseTicks <= clock + LeaseTicks
    OBVIOUS
  <2> QED BY <1>0, <2>1, <2>2, <2>3 DEF SetJob, IInv, TypeOK
<1>4. CASE Ends
  <2>1. PICK i \in JobIds, status \in TerminalStatuses :
          SetJob(i, Finished(jobs[i], status))
    BY <1>4 DEF Ends
  <2>2. Finished(jobs[i], status).leaseUntil = 0
    BY Comparable DEF Finished, Row
  <2> QED BY <1>0, <2>1, <2>2 DEF SetJob, IInv, TypeOK
<1>5. CASE Returns
  <2>1. PICK i \in JobIds : SetJob(i, Requeued(jobs[i]))
    BY <1>5 DEF Returns
  <2>2. Requeued(jobs[i]).leaseUntil = 0
    BY Comparable DEF Requeued, Row
  <2> QED BY <1>0, <2>1, <2>2 DEF SetJob, IInv, TypeOK
<1>6. CASE Inserts
  <2>1. jobs'[j].leaseUntil = jobs[j].leaseUntil \/ jobs'[j].leaseUntil = 0
    BY <1>6, InsertedRows
  <2> QED BY <1>0, <2>1
<1>7. CASE Deletes
  BY <1>0, <1>7 DEF Deletes, NoRow
<1> QED BY <1>1, <1>2, <1>3, <1>4, <1>5, <1>6, <1>7 DEF JobsStep

\* TimesOK is kept by every step.
LEMMA TimesKept == IInv /\ TimesOK /\ [Next]_vars => TimesOK'
<1> SUFFICES ASSUME IInv, TimesOK, [Next]_vars PROVE TimesOK' OBVIOUS
<1>1. JobsStep /\ TimesStep
  BY NextJobs, NextTimes
<1>2. clock \in Nat /\ LeaseTicks \in Nat /\ clock <= clock' /\ clock' \in Nat
  BY <1>1, Comparable DEF TimesStep
<1>3. ASSUME NEW j \in JobIds PROVE jobs'[j].leaseUntil <= clock' + LeaseTicks
  <2>1. IInv' /\ jobs'[j].leaseUntil \in Nat
    BY NextOK DEF IInv, TypeOK, Row
  <2> QED BY <1>1, <1>2, <2>1, LeasesBounded
<1>4. ASSUME NEW s \in Servers
      PROVE  /\ now'[s] <= clock'
             /\ cand'[s].status = "running" => cand'[s].leaseUntil <= now'[s]
  <2>1. now[s] \in Nat /\ now[s] <= clock
    BY Comparable DEF TimesOK
  <2>2. CASE Waits(s)
    BY <1>2, <2>1, <2>2 DEF Waits, TimesOK
  <2>3. CASE Forgets(s)
    BY <1>2, <2>3 DEF Forgets, NoSighting
  <2>4. CASE Reads(s)
    <3>1. now'[s] <= clock'
      BY <1>2, <2>1, <2>4 DEF Reads
    <3>2. PICK j \in Claimables(now'[s]) : cand'[s] = See(j)
      BY <2>4 DEF Reads
    <3>3. cand'[s].status = "running" => cand'[s].leaseUntil <= now'[s]
      BY <3>2 DEF See, Claimables, IsClaimable, IsLeaseExpired
    <3> QED BY <3>1, <3>3
  <2> QED BY <1>1, <2>2, <2>3, <2>4 DEF TimesStep
<1> QED BY <1>3, <1>4 DEF TimesOK

\* TimesOK is an invariant of the workflow.
LEMMA Times == Spec => []TimesOK
<1>1. Init => TimesOK
  BY JobConstants DEF Init, TimesOK, NoRow, NoSighting
<1>2. IInv /\ TimesOK /\ [Next]_vars => TimesOK'
  BY TimesKept
<1> QED BY <1>1, <1>2, Invariance, PTL DEF Spec

\* A row that is still held by the same owner for the same attempt has kept its
\* lease, or had it renewed, or has been claimed once more by that owner.
LEMMA LeaseStep ==
  ASSUME IInv, TimesOK, JobsStep, NEW j \in JobIds,
         jobs[j].status = "running", jobs'[j].status = "running"
  PROVE  jobs'[j].leaseUntil >= jobs[j].leaseUntil
<1> USE Comparable
<1>1. CASE Keeps
  BY <1>1 DEF Keeps
<1>2. CASE Renews
  BY <1>2 DEF Renews, Renewed, SetJob, Row, TimesOK, IInv, TypeOK
<1>3. CASE Claims
  <2>1. PICK i \in JobIds, s \in Servers, n \in 1..MaxAttempts :
          /\ jobs[i].status = "running" =>
               cand[s].status = "running" /\ jobs[i].leaseUntil = cand[s].leaseUntil
          /\ SetJob(i, Claimed(jobs[i], s, n, now[s]))
    BY <1>3 DEF Claims
  <2>2. CASE i = j
    <3>1. jobs[j].leaseUntil <= now[s]
      BY <2>1, <2>2 DEF TimesOK
    <3>2. jobs'[j].leaseUntil = now[s] + LeaseTicks
      BY <2>1, <2>2 DEF SetJob, Claimed, Row, IInv, TypeOK
    <3> QED BY <3>1, <3>2
  <2>3. CASE i # j
    BY <2>1, <2>3 DEF SetJob, IInv, TypeOK
  <2> QED BY <2>2, <2>3
<1>4. CASE Ends
  <2>1. PICK i \in JobIds, status \in TerminalStatuses :
          SetJob(i, Finished(jobs[i], status))
    BY <1>4 DEF Ends
  <2>2. Finished(jobs[i], status).status # "running"
    BY Comparable DEF Finished, Row, TerminalStatuses
  <2> QED BY <2>1, <2>2 DEF SetJob, IInv, TypeOK
<1>5. CASE Returns
  <2>1. PICK i \in JobIds : SetJob(i, Requeued(jobs[i]))
    BY <1>5 DEF Returns
  <2>2. Requeued(jobs[i]).status # "running"
    BY Comparable DEF Requeued, Row
  <2> QED BY <2>1, <2>2 DEF SetJob, IInv, TypeOK
<1>6. CASE Inserts
  <2>1. jobs'[j].leaseUntil = jobs[j].leaseUntil \/ jobs'[j].status = "queued"
    BY <1>6, InsertedRows
  <2> QED BY <2>1
<1>7. CASE Deletes
  BY <1>7 DEF Deletes, NoRow
<1> QED BY <1>1, <1>2, <1>3, <1>4, <1>5, <1>6, <1>7 DEF JobsStep

\* LeaseNeverShrinks: a heartbeat of the guardian or the thread, and a claim
\* counted from an older time, never move a lease back.
THEOREM LeasesMoveForward == Spec => LeaseNeverShrinks
<1>1. IInv /\ TimesOK /\ [Next]_vars =>
        [\A j \in JobIds :
           /\ IsHeldBy(jobs[j], jobs[j].lockedBy, jobs[j].attemptCount)
           /\ IsHeldBy(jobs'[j], jobs[j].lockedBy, jobs[j].attemptCount)
           => jobs'[j].leaseUntil >= jobs[j].leaseUntil]_vars
  BY NextJobs, LeaseStep DEF IsHeldBy
<1> QED BY <1>1, Invariance, Times, PTL DEF Spec, LeaseNeverShrinks

-----------------------------------------------------------------------------
(***************************************************************************)
(* Superseded threads.  The statements of a thread are fenced, but for the *)
(* enqueueing of the next analysis, which clears the key of every job that *)
(* it has found stale and inserts a new row: that neither of them is the   *)
(* thread's own job needs an invariant.                                    *)
(***************************************************************************)
QueuePcs == {"queue", "queue_commit"}

\* A row that is gone holds no key; what a process executes has been inserted;
\* a thread that enqueues the next analysis has ended its own job.
FencesOK ==
  /\ \A j \in JobIds : jobs[j].status = "none" => ~jobs[j].activeKey
  /\ \A s \in Servers :
       /\ exec[s].project # NoProject => exec[s].job < nextJob
       /\ pc[s] \in QueuePcs => ~IsActive(jobs[exec[s].job])

-----------------------------------------------------------------------------
\* No job that is not active becomes active, once it has been inserted.
LEMMA EndedStays ==
  ASSUME IInv, FreshOK, JobsStep, NEW j \in JobIds, j < nextJob, ~IsActive(jobs[j])
  PROVE  ~IsActive(jobs'[j])
<1> USE DEF IInv, TypeOK
<1>0. jobs[j] \in Row /\ nextJob \in Nat /\ j \in Nat
  BY JobConstants DEF JobIds
<1>1. CASE Keeps \/ Claims \/ Ends \/ Returns
  BY <1>1 DEF Keeps, Claims, Ends, Returns, IsActive, ActiveStatuses, SetJob
<1>2. CASE Renews
  BY <1>0, <1>2 DEF Renews, Renewed, Row, SetJob, IsActive
<1>3. CASE Inserts
  <2>1. jobs'[j] = jobs[j] \/ jobs'[j] = WithoutKey(jobs[j])
    BY <1>0, <1>3 DEF Inserts
  <2> QED BY <1>0, <2>1 DEF WithoutKey, Row, IsActive
<1>4. CASE Deletes
  BY <1>4 DEF Deletes, NoRow, IsActive, ActiveStatuses
<1> QED BY <1>1, <1>2, <1>3, <1>4 DEF JobsStep

\* A row that is gone holds no key.
LEMMA GoneHoldsNoKey ==
  ASSUME IInv, JobsStep, NEW j \in JobIds,
         jobs[j].status = "none" => ~jobs[j].activeKey, jobs'[j].status = "none"
  PROVE  ~jobs'[j].activeKey
<1> USE DEF IInv, TypeOK
<1>0. jobs[j] \in Row
  OBVIOUS
<1>1. CASE Keeps
  BY <1>1 DEF Keeps
<1>2. CASE Renews
  BY <1>0, <1>2 DEF Renews, Renewed, Row, SetJob
<1>3. CASE Claims
  BY <1>0, <1>3 DEF Claims, Claimed, Row, SetJob
<1>4. CASE Ends
  BY <1>0, <1>4 DEF Ends, Finished, Row, SetJob
<1>5. CASE Returns
  BY <1>0, <1>5 DEF Returns, Requeued, Row, SetJob
<1>6. CASE Inserts
  <2>1. CASE j = nextJob
    BY <1>6, <2>1 DEF Inserts, QueuedRow
  <2>2. CASE j # nextJob
    <3>1. jobs'[j] = jobs[j] \/ jobs'[j] = WithoutKey(jobs[j])
      BY <1>6, <2>2 DEF Inserts
    <3> QED BY <1>0, <3>1 DEF WithoutKey, Row
  <2> QED BY <2>1, <2>2
<1>7. CASE Deletes
  BY <1>7 DEF Deletes, NoRow
<1> QED BY <1>1, <1>2, <1>3, <1>4, <1>5, <1>6, <1>7 DEF JobsStep

\* The counter of the ids never goes back.
LEMMA IdsGrow == ASSUME IInv, JobsStep PROVE nextJob \in Nat /\ nextJob' \in Nat /\ nextJob' >= nextJob
  BY DEF IInv, TypeOK, JobsStep, Keeps, Renews, Claims, Ends, Returns, Inserts, Deletes

-----------------------------------------------------------------------------
(***************************************************************************)
(* What a step may do to what a process executes, and how it comes to      *)
(* enqueue the next analysis.                                              *)
(***************************************************************************)
\* It is kept, forgotten, or taken from a row that exists.
Executes(s) == \/ exec'[s] = exec[s]
               \/ exec'[s].project = NoProject
               \/ \E j \in JobIds : jobs[j].status # "none" /\ exec'[s].job <= j

\* A process enqueues after its own fenced finalization.
Enqueues(s) ==
  pc'[s] \in QueuePcs =>
    /\ exec'[s] = exec[s] /\ exec[s].project # NoProject
    /\ pc[s] \in QueuePcs \/ ~IsActive(jobs'[exec[s].job])

Settles == \A s \in Servers : Executes(s) /\ Enqueues(s)

\* A step that leaves program counters and executions alone.
LEMMA KeepSettles == IInv /\ UNCHANGED <<pc, exec>> => Settles
  BY JobConstants DEF Settles, Executes, Enqueues, QueuePcs, ThreadPcs, IInv, RefsOK

\* A step that goes anywhere but to the enqueueing.
LEMMA GotoSettles ==
  ASSUME IInv, NEW s \in Servers, NEW label, label \notin QueuePcs, Goto(s, label),
         \/ UNCHANGED exec
         \/ \E e \in Execution :
              /\ exec' = [exec EXCEPT ![s] = e]
              /\ \/ e.project = NoProject
                 \/ \E j \in JobIds : jobs[j].status # "none" /\ e.job <= j
  PROVE  Settles
<1>1. ASSUME NEW t \in Servers, t # s PROVE Executes(t) /\ Enqueues(t)
  <2>1. pc'[t] = pc[t] /\ exec'[t] = exec[t]
    BY <1>1 DEF Goto, IInv, TypeOK
  <2> QED BY <2>1, JobConstants DEF Executes, Enqueues, QueuePcs, ThreadPcs, IInv, RefsOK
<1>2. pc'[s] = label
  BY DEF Goto, IInv, TypeOK
<1>3. Executes(s)
  BY DEF Executes, IInv, TypeOK
<1> QED BY <1>1, <1>2, <1>3 DEF Settles, Enqueues

\* Parking, and a crash.
LEMMA ParkSettles == ASSUME IInv, NEW s \in Servers, Park(s) \/ Crash(s) PROVE Settles
<1>1. exec' = [exec EXCEPT ![s] = NoExec] /\ NoExec \in Execution /\ NoExec.project = NoProject
  BY JobConstants DEF Park, Crash, NoExec, Execution, JobIds, JobTypes
<1>2. \E label : label \notin QueuePcs /\ Goto(s, label)
  BY DEF Park, Crash, QueuePcs
<1> QED BY <1>1, <1>2, GotoSettles

\* The steps that lead to the enqueueing.
LEMMA QueueSettles ==
  ASSUME IInv, NEW s \in Servers, Finalize(s) \/ QueueAnalyze(s)
  PROVE  Settles
<1>1. UNCHANGED exec /\ exec[s].project # NoProject /\ exec[s].job \in JobIds
  BY JobConstants
     DEF Finalize, QueueAnalyze, memory, ThreadPcs, IInv, RefsOK, TypeOK, Execution
<1>2. CASE \E label \in {"cleanup", "failjob"} : Goto(s, label)
  BY <1>1, <1>2, GotoSettles DEF QueuePcs
<1>3. CASE \E label \in QueuePcs : Goto(s, label) /\ (pc[s] \in QueuePcs \/ ~IsActive(jobs'[exec[s].job]))
  <2>1. ASSUME NEW t \in Servers, t # s PROVE Executes(t) /\ Enqueues(t)
    <3>1. pc'[t] = pc[t] /\ exec'[t] = exec[t]
      BY <1>1, <1>3, <2>1 DEF Goto, IInv, TypeOK
    <3> QED BY <3>1, JobConstants DEF Executes, Enqueues, QueuePcs, ThreadPcs, IInv, RefsOK
  <2>2. Executes(s) /\ Enqueues(s)
    BY <1>1, <1>3 DEF Executes, Enqueues
  <2> QED BY <2>1, <2>2 DEF Settles
<1>4. CASE Finalize(s) /\ Holds(s) /\ exec[s].type \in ImportTypes
  <2>1. jobs' = [jobs EXCEPT ![exec[s].job] = Finished(jobs[exec[s].job], "completed")]
        /\ Goto(s, "queue")
    BY <1>4 DEF Finalize, FinishIfHeld, Job, SetJob
  <2>2. jobs[exec[s].job] \in Row
    BY <1>1 DEF IInv, TypeOK
  <2>3. ~IsActive(jobs'[exec[s].job])
    BY <1>1, <2>1, <2>2 DEF Finished, Row, IsActive, ActiveStatuses, IInv, TypeOK
  <2> QED BY <1>3, <2>1, <2>3 DEF QueuePcs
<1> QED BY <1>2, <1>3, <1>4 DEF Finalize, QueueAnalyze, FinishIfHeld, QueuePcs

\* The steps that take up a job.
LEMMA TakeSettles ==
  ASSUME IInv, NEW s \in Servers, Load(s) \/ FailClaimed(s) \/ RecoverJob(s)
  PROVE  Settles
<1>1. CASE Load(s)
  <2>1. own[s].job \in JobIds /\ jobs[own[s].job] \in Row
    BY DEF IInv, TypeOK, Ownership
  <2> DEFINE row == jobs[own[s].job]
             e   == [job |-> own[s].job, project |-> row.project, type |-> row.type,
                     owner |-> row.lockedBy, attempt |-> row.attemptCount,
                     file |-> row.payload /\ row.type = "import_zip"]
  <2>2. e \in Execution /\ e.job = own[s].job
    BY <2>1 DEF Row, Execution
  <2>3. CASE row.status = "none"
    BY <1>1, <2>3, GotoSettles DEF Load, QueuePcs
  <2>4. CASE row.status # "none"
    <3>1. exec' = [exec EXCEPT ![s] = e] /\ \E label \in {"start", "failjob"} : Goto(s, label)
      BY <1>1, <2>4 DEF Load
    <3>2. e.job <= own[s].job
      BY <2>1, <2>2 DEF JobIds
    <3> HIDE DEF e
    <3> QED BY <2>1, <2>2, <2>4, <3>1, <3>2, GotoSettles DEF QueuePcs
  <2> QED BY <2>3, <2>4
<1>2. CASE FailClaimed(s)
  <2>1. own[s].job \in JobIds /\ jobs[own[s].job] \in Row
    BY DEF IInv, TypeOK, Ownership
  <2> DEFINE row == jobs[own[s].job]
             e   == [job |-> own[s].job, project |-> row.project, type |-> row.type,
                     owner |-> s, attempt |-> row.attemptCount,
                     file |-> row.type = "import_zip"]
  <2>2. e \in Execution /\ e.job = own[s].job
    BY <2>1 DEF Row, Execution
  <2>3. CASE IsHeldBy(row, s, own[s].attempt)
    <3>1. exec' = [exec EXCEPT ![s] = e] /\ Goto(s, "pread") /\ row.status = "running"
      BY <1>2, <2>3 DEF FailClaimed, IsHeldBy
    <3>2. e.job <= own[s].job
      BY <2>1, <2>2 DEF JobIds
    <3> HIDE DEF e
    <3> QED BY <2>1, <2>2, <3>1, <3>2, GotoSettles DEF QueuePcs
  <2>4. CASE ~IsHeldBy(row, s, own[s].attempt)
    BY <1>2, <2>4, ParkSettles DEF FailClaimed
  <2> QED BY <2>3, <2>4
<1>3. CASE RecoverJob(s)
  <2>1. PICK t \in todo[s] :
          \/ UNCHANGED <<pc, exec>>
          \/ /\ IsHeldBy(jobs[t.job], t.lockedBy, t.attemptCount)
             /\ exec' = [exec EXCEPT ![s] = [NoExec EXCEPT !.project = jobs[t.job].project,
                                                           !.type = jobs[t.job].type]]
             /\ Goto(s, "pread")
    BY <1>3 DEF RecoverJob
  <2>2. t.job \in JobIds /\ jobs[t.job] \in Row
    BY DEF IInv, TypeOK, StaleSighting
  <2> DEFINE e == [NoExec EXCEPT !.project = jobs[t.job].project, !.type = jobs[t.job].type]
  <2>3. e \in Execution /\ e.job = 1
    <3>1. NoExec \in Execution /\ NoExec.job = 1
      BY JobConstants DEF NoExec, Execution, JobIds, JobTypes
    <3>2. jobs[t.job].project \in Projects \cup {NoProject} /\ jobs[t.job].type \in JobTypes
      BY <2>2 DEF Row
    <3> QED BY <3>1, <3>2 DEF Execution
  <2>4. CASE UNCHANGED <<pc, exec>>
    BY <2>4, KeepSettles
  <2>5. CASE ~UNCHANGED <<pc, exec>>
    <3>1. /\ exec' = [exec EXCEPT ![s] = e] /\ Goto(s, "pread")
          /\ jobs[t.job].status # "none" /\ e.job <= t.job
      BY <2>1, <2>2, <2>3, <2>5 DEF IsHeldBy, JobIds
    <3> HIDE DEF e
    <3> QED BY <2>2, <2>3, <3>1, GotoSettles DEF QueuePcs
  <2> QED BY <2>4, <2>5
<1> QED BY <1>1, <1>2, <1>3

\* Every step of a process.
LEMMA ServerSettles ==
  ASSUME IInv, NEW s \in Servers,
         ServerStep(s) \/ RecoverBegin(s) \/ GuardianRenews(s) \/ Failing(s)
  PROVE  Settles
<1>0. /\ \A t \in Servers : after[t] \notin QueuePcs
      /\ \A label \in Pcs \ QueuePcs : label \notin QueuePcs
  BY DEF IInv, TypeOK, QueuePcs
<1>1. CASE Importing(s) \/ Analyzing(s) \/ Start(s)
  <2>1. UNCHANGED exec /\ \E label : label \notin QueuePcs /\ Goto(s, label)
    BY <1>1 DEF Start, Importing, ReadSource, ReadSourceFails, ImportFails, ImportBegin,
       ImportPersistCheck, ImportCommit, ImportErrorUnfenced, Analyzing, Bootstrap,
       BootstrapWrite, Analyze, AnalyzeFails, AnalysisBegin, AnalysisCommit, AnalysisError,
       AnalysisFail, CheckAndRefresh, memory, QueuePcs
  <2> QED BY <2>1, GotoSettles
<1>2. CASE \/ PreFinalize(s) \/ QueueAnalyzeCommit(s) \/ FailJob(s) \/ FailWrite(s)
           \/ ProjectRead(s) \/ ProjectWrite(s) \/ CleanupError(s)
  <2>1. UNCHANGED exec /\ \E label : label \notin QueuePcs /\ Goto(s, label)
    BY <1>0, <1>2 DEF PreFinalize, QueueAnalyzeCommit, FailJob, FailWrite, ProjectRead,
       ProjectWrite, CleanupError, CheckAndRefresh, FinishIfHeld, memory, QueuePcs
  <2> QED BY <2>1, GotoSettles
<1>3. CASE Claiming(s) \/ Cleanup(s) \/ RecoverDone(s)
  <2>1. Park(s) \/ (UNCHANGED exec /\ \E label : label \notin QueuePcs /\ Goto(s, label))
    BY <1>3 DEF Claiming, ClaimSelect, ClaimNothing, ClaimUpdate, ClaimVerify, Cleanup,
       RecoverDone, memory, QueuePcs
  <2> QED BY <2>1, GotoSettles, ParkSettles
<1>4. CASE Finalize(s) \/ QueueAnalyze(s)
  BY <1>4, QueueSettles
<1>5. CASE Load(s) \/ FailClaimed(s) \/ RecoverJob(s)
  BY <1>5, TakeSettles
<1>6. CASE RecoverBegin(s) \/ RecoverActive(s) \/ RecoverProjects(s)
  <2>1. UNCHANGED exec /\ \E label : label \notin QueuePcs /\ Goto(s, label)
    BY <1>6 DEF RecoverBegin, RecoverActive, RecoverProjects, QueuePcs
  <2> QED BY <2>1, GotoSettles
<1>7. CASE RecoverMark(s) \/ GuardianRenews(s)
  BY <1>7, KeepSettles DEF RecoverMark, GuardianRenews, locals, memory
<1>8. CASE StatementError(s) \/ ThreadLost(s)
  <2>1. Park(s) \/ (UNCHANGED exec /\ \E label : label \notin QueuePcs /\ Goto(s, label))
    BY <1>8 DEF StatementError, ThreadLost, ImportFails, memory, QueuePcs
  <2> QED BY <2>1, GotoSettles, ParkSettles
<1>9. CASE Crash(s)
  BY <1>9, ParkSettles
<1> QED BY <1>1, <1>2, <1>3, <1>4, <1>5, <1>6, <1>7, <1>8, <1>9
        DEF ServerStep, Finishing, Recovering, Failing

\* Every step of the workflow.
LEMMA NextSettles == IInv /\ [Next]_vars => Settles
<1> SUFFICES ASSUME IInv, [Next]_vars PROVE Settles OBVIOUS
<1>1. CASE ClientStep \/ Tick \/ UNCHANGED vars
  <2>1. UNCHANGED <<pc, exec>>
    BY <1>1 DEF ClientStep, CreateProject, CreateProjectAndQueuedImportJob, EnqueueBegin,
       DeleteBegin, EnqueueCommit, EnqueueRefused, DeleteCommit, Tick, vars, locals, memory
  <2> QED BY <2>1, KeepSettles
<1>2. ASSUME NEW s \in Servers,
             RecoverBegin(s) \/ ServerStep(s) \/ GuardianRenews(s) \/ Failing(s)
      PROVE  Settles
  BY <1>2, ServerSettles
<1> QED BY <1>1, <1>2 DEF Next

-----------------------------------------------------------------------------
\* FencesOK is kept by every step.
LEMMA FencesKept == IInv /\ FreshOK /\ FencesOK /\ [Next]_vars => FencesOK'
<1> SUFFICES ASSUME IInv, FreshOK, FencesOK, [Next]_vars PROVE FencesOK' OBVIOUS
<1>1. JobsStep /\ Settles /\ IInv'
  BY NextJobs, NextSettles, NextOK
<1>2. nextJob \in Nat /\ nextJob' \in Nat /\ nextJob' >= nextJob
  BY <1>1, IdsGrow
<1>3. ASSUME NEW j \in JobIds, jobs'[j].status = "none" PROVE ~jobs'[j].activeKey
  BY <1>1, <1>3, GoneHoldsNoKey DEF FencesOK
<1>4. ASSUME NEW s \in Servers, exec'[s].project # NoProject
      PROVE  exec'[s].job < nextJob'
  <2>1. exec'[s].job \in Nat /\ exec[s].job \in Nat
    BY <1>1 DEF IInv, TypeOK, Execution, JobIds
  <2>2. CASE exec'[s] = exec[s]
    BY <1>2, <1>4, <2>1, <2>2 DEF FencesOK
  <2>3. CASE \E j \in JobIds : jobs[j].status # "none" /\ exec'[s].job <= j
    <3>1. PICK j \in JobIds : jobs[j].status # "none" /\ exec'[s].job <= j
      BY <2>3
    <3>2. j < nextJob /\ j \in Nat
      BY <1>2, <3>1 DEF FreshOK, JobIds
    <3> QED BY <1>2, <2>1, <3>1, <3>2
  <2> QED BY <1>1, <1>4, <2>2, <2>3 DEF Settles, Executes
<1>5. ASSUME NEW s \in Servers, pc'[s] \in QueuePcs
      PROVE  ~IsActive(jobs'[exec'[s].job])
  <2>1. /\ exec'[s] = exec[s] /\ exec[s].job \in JobIds /\ exec[s].job < nextJob
        /\ pc[s] \in QueuePcs \/ ~IsActive(jobs'[exec[s].job])
    BY <1>1, <1>5 DEF Settles, Enqueues, FencesOK, IInv, TypeOK, Execution
  <2> QED BY <1>1, <2>1, EndedStays DEF FencesOK
<1> QED BY <1>3, <1>4, <1>5 DEF FencesOK

\* FencesOK is an invariant of the workflow.
LEMMA Fences == Spec => []FencesOK
<1>1. Init => FencesOK
  BY DEF Init, FencesOK, NoRow, NoExec, QueuePcs
<1>2. IInv /\ FreshOK /\ FencesOK /\ [Next]_vars => FencesOK'
  BY FencesKept
<1> QED BY <1>1, <1>2, Invariance, Fresh, PTL DEF Spec

-----------------------------------------------------------------------------
\* What a superseded thread writes: nothing, or the next analysis.
LEMMA SupersededWrites ==
  ASSUME IInv, NEW s \in Servers, pc[s] \in ThreadPcs, ~Unfenced(s), ~Holds(s),
         ServerStep(s) \/ RecoverBegin(s) \/ Failing(s)
  PROVE  UNCHANGED jobs \/ (pc[s] = "queue_commit" /\ EnqueueWrites(s))
<1>0. ~HoldsLive(s)
  BY DEF HoldsLive, Holds, IsOwnershipActive
<1>1. CASE Importing(s) \/ Analyzing(s) \/ Start(s)
  BY <1>1 DEF Start, Importing, ReadSource, ReadSourceFails, ImportFails, ImportBegin,
     ImportPersistCheck, ImportCommit, ImportErrorUnfenced, Analyzing, Bootstrap,
     BootstrapWrite, Analyze, AnalyzeFails, AnalysisBegin, AnalysisCommit, AnalysisError,
     AnalysisFail, CheckAndRefresh, tables
<1>2. CASE Finishing(s)
  BY <1>0, <1>2 DEF Finishing, PreFinalize, Finalize, QueueAnalyze, QueueAnalyzeCommit,
     FailJob, FailWrite, ProjectRead, ProjectWrite, Cleanup, CleanupError, FailClaimed,
     CheckAndRefresh, FinishIfHeld, ThreadPcs, ImportPcs, AnalyzePcs, tables
<1>3. CASE Claiming(s) \/ Load(s) \/ Recovering(s) \/ RecoverBegin(s) \/ Failing(s)
  BY <1>3 DEF Claiming, ClaimSelect, ClaimNothing, ClaimUpdate, ClaimVerify, Load, Recovering,
     RecoverJob, RecoverActive, RecoverProjects, RecoverMark, RecoverDone, RecoverBegin,
     Failing, StatementError, ThreadLost, Crash, ThreadPcs, ImportPcs, AnalyzePcs, tables
<1> QED BY <1>1, <1>2, <1>3 DEF ServerStep

\* Only the steps of a process move its program counter.
LEMMA OwnMoves ==
  ASSUME IInv, [Next]_vars, NEW s \in Servers, pc'[s] # pc[s]
  PROVE  ServerStep(s) \/ RecoverBegin(s) \/ Failing(s)
<1>1. ~UNCHANGED pc
  OBVIOUS
<1>2. ~ClientStep /\ ~Tick /\ ~UNCHANGED vars
  BY <1>1 DEF ClientStep, CreateProject, CreateProjectAndQueuedImportJob, EnqueueBegin,
     DeleteBegin, EnqueueCommit, EnqueueRefused, DeleteCommit, Tick, vars, locals, memory
<1>3. PICK t \in Servers : RecoverBegin(t) \/ ServerStep(t) \/ GuardianRenews(t) \/ Failing(t)
  BY <1>2 DEF Next
<1>4. ~GuardianRenews(t)
  BY <1>1 DEF GuardianRenews, locals, memory
<1>5. \E label : Goto(t, label)
  BY <1>1, <1>3, <1>4 DEF RecoverBegin, ServerStep, Failing, Claiming, ClaimSelect,
     ClaimNothing, ClaimUpdate, ClaimVerify, Load, Start, Importing, ReadSource,
     ReadSourceFails, ImportFails, ImportBegin, ImportPersistCheck, ImportCommit,
     ImportErrorUnfenced, Analyzing, Bootstrap, BootstrapWrite, Analyze, AnalyzeFails,
     AnalysisBegin, AnalysisCommit, AnalysisError, AnalysisFail, CheckAndRefresh, Finishing,
     PreFinalize, Finalize, QueueAnalyze, QueueAnalyzeCommit, FailJob, FailWrite,
     FinishIfHeld, ProjectRead, ProjectWrite, Cleanup, CleanupError, FailClaimed, Park,
     Recovering, RecoverJob, RecoverActive, RecoverProjects, RecoverMark, RecoverDone,
     StatementError, ThreadLost, Crash
<1>6. t = s
  BY <1>5 DEF Goto, IInv, TypeOK
<1> QED BY <1>3, <1>4, <1>6

\* The enqueueing of the next analysis does not change the thread's own job.
LEMMA EnqueueLeavesOwnJob ==
  ASSUME IInv, FencesOK, NEW s \in Servers, pc[s] = "queue_commit", EnqueueWrites(s)
  PROVE  jobs'[exec[s].job] = jobs[exec[s].job]
<1> DEFINE j == exec[s].job
<1>1. /\ j \in JobIds /\ jobs[j] \in Row /\ RowOK(jobs[j])
      /\ exec[s].project # NoProject
  BY JobConstants DEF IInv, TypeOK, Execution, RefsOK, RowsOK, ThreadPcs
<1>2. ~IsActive(jobs[j]) /\ j # nextJob
  BY <1>1 DEF FencesOK, QueuePcs, JobIds, IInv, TypeOK
<1>3. ~jobs[j].activeKey
  BY <1>1, <1>2 DEF FencesOK, RowOK, Row, JobStatuses, IsActive
<1>4. WithoutKey(jobs[j]) = jobs[j]
  BY <1>1, <1>3 DEF WithoutKey, Row
<1>5. jobs'[j] = jobs[j] \/ jobs'[j] = WithoutKey(jobs[j])
  BY <1>1, <1>2 DEF EnqueueWrites, InsertJob
<1> QED BY <1>4, <1>5

\* StaleThreadLeavesJobAlone: README's "stale worker finalization is rejected",
\* of every statement of the thread.
THEOREM StaleThreadsAreFenced == Spec => StaleThreadLeavesJobAlone
<1>1. IInv /\ FencesOK /\ [Next]_vars =>
        [\A s \in Servers :
           pc[s] \in ThreadPcs /\ pc'[s] # pc[s] /\ ~Unfenced(s) /\ ~Holds(s)
           => jobs'[exec[s].job] = jobs[exec[s].job]]_vars
  BY OwnMoves, SupersededWrites, EnqueueLeavesOwnJob
<1> QED BY <1>1, Invariance, Fences, PTL DEF Spec, StaleThreadLeavesJobAlone
=============================================================================
