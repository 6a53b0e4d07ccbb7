-------------------------------- MODULE Uploads --------------------------------
(***************************************************************************)
(* The temporary files of uploaded archives: the requests of               *)
(* projectUploadRoute.ts that write them, the jobs that read and remove    *)
(* them, the sweep that removes what both have left behind, and the crash  *)
(* of the server between any two steps.  Each request has a file of its    *)
(* own.  A file is old when its age has reached the TTL; the TTL, a day    *)
(* unless configured, is taken to be longer than a request.  One server    *)
(* process runs the jobs; it waits for the thread of a job before it takes *)
(* the job again.                                                          *)
(***************************************************************************)
EXTENDS Naturals, FiniteSets

CONSTANTS Uploads,   \* the requests, and the files they write
          Sweeps,    \* sweeps that may run at once: at startup and by the timer
          MaxAttempts, \* maxAttempts of a job
          MaxFaults  \* bound on crashes, stalls, lost threads, failing statements and lost tables

ASSUME UploadConstants == MaxFaults \in Nat /\ MaxAttempts \in Nat \ {0}

VARIABLES
  request, \* where the handler of the request is
  disk,    \* the files in uploadTempDir
  old,     \* those older than the TTL
  job,     \* the import job of the file
  worker,  \* the thread of the job: none, running, or leaving with its finally block to come
  attempts, \* attemptCount
  lapsed,  \* the running jobs whose lease has expired
  stale,   \* the running jobs that the recovery at startup has still to look at
  sweep,   \* what a sweep has read so far
  faults

vars == <<request, disk, old, job, worker, attempts, lapsed, stale, sweep, faults>>
lease == <<attempts, lapsed, stale>>
jobs == <<job, worker, lease>>

RequestStages == {"new", "receiving", "stored", "committed", "done"}
JobStatuses   == {"none", "queued", "running", "ended"}
Active(j)     == j \in {"queued", "running"}

\* at: where the sweep is; expired: the files whose time is before expiresBefore;
\* kept: activeTempPaths; left: the entries to look at; blind: the table was away.
NoSweep == [at |-> "idle", expired |-> {}, kept |-> {}, left |-> {}, blind |-> FALSE]

TypeOK ==
  /\ request \in [Uploads -> RequestStages] /\ job \in [Uploads -> JobStatuses]
  /\ disk \subseteq Uploads /\ old \subseteq Uploads
  /\ worker \in [Uploads -> {"none", "running", "leaving"}] /\ attempts \in [Uploads -> 0..MaxAttempts]
  /\ lapsed \subseteq Uploads /\ stale \subseteq Uploads
  /\ sweep \in [Sweeps -> [at : {"idle", "begun", "listed", "reading"}, expired : SUBSET Uploads,
                           kept : SUBSET Uploads, left : SUBSET Uploads, blind : BOOLEAN]]
  /\ faults \in 0..MaxFaults

Init ==
  /\ request = [u \in Uploads |-> "new"] /\ job = [u \in Uploads |-> "none"]
  /\ disk = {} /\ old = {} /\ lapsed = {} /\ stale = {}
  /\ worker = [u \in Uploads |-> "none"] /\ attempts = [u \in Uploads |-> 0]
  /\ sweep = [s \in Sweeps |-> NoSweep] /\ faults = 0

Fault == faults < MaxFaults /\ faults' = faults + 1
Goes(u, from, to) == request[u] = from /\ request' = [request EXCEPT ![u] = to]
Remove(u) == disk' = disk \ {u} /\ old' = old \ {u}
KeepFiles == UNCHANGED <<disk, old>>

(***************************************************************************)
(* The handlers of /api/projects/import and /api/projects/:projectId/upload. *)
(***************************************************************************)
\* No session, over the rate limit, or no file in it.
Refuse(u) == Goes(u, "new", "done") /\ KeepFiles /\ UNCHANGED <<jobs, sweep, faults>>

Receive(u) ==
  /\ Goes(u, "new", "receiving")
  /\ disk' = disk \cup {u}
  /\ UNCHANGED <<old, jobs, sweep, faults>>

Received(u) == Goes(u, "receiving", "stored") /\ KeepFiles /\ UNCHANGED <<jobs, sweep, faults>>

\* The upload breaks off or is too large, the form is not valid, or the job
\* cannot be queued: the file is removed.
RemoveUnused(u) ==
  /\ Goes(u, "receiving", "done") \/ Goes(u, "stored", "done")
  /\ Remove(u)
  /\ UNCHANGED <<jobs, sweep, faults>>

\* createProjectWithQueuedZipImport or queueImportProjectZipFromTempFile commits.
QueueImport(u) ==
  /\ Goes(u, "stored", "committed")
  /\ job' = [job EXCEPT ![u] = "queued"]
  /\ KeepFiles /\ UNCHANGED <<worker, lease, sweep, faults>>

\* The call fails after it has committed, and the handler removes the file.
CallFails(u) ==
  /\ Fault /\ Goes(u, "committed", "done")
  /\ Remove(u)
  /\ UNCHANGED <<jobs, sweep>>

Respond(u) == Goes(u, "committed", "done") /\ KeepFiles /\ UNCHANGED <<jobs, sweep, faults>>

(***************************************************************************)
(* The job.                                                                *)
(***************************************************************************)
JobOnly == KeepFiles /\ UNCHANGED <<request, sweep>>

\* claimNextQueuedProjectJob, once the recovery is through: a job that waits, or
\* one whose lease has expired, with an attempt left.
TakeJob(u) ==
  /\ stale = {} /\ worker[u] = "none" /\ attempts[u] < MaxAttempts
  /\ job[u] = "queued" \/ (job[u] = "running" /\ u \in lapsed)
  /\ job' = [job EXCEPT ![u] = "running"] /\ worker' = [worker EXCEPT ![u] = "running"]
  /\ attempts' = [attempts EXCEPT ![u] = @ + 1] /\ lapsed' = lapsed \ {u}
  /\ JobOnly /\ UNCHANGED <<stale, faults>>

Leaves(u) == worker[u] = "running" /\ worker' = [worker EXCEPT ![u] = "leaving"]

\* The job is finalized, by its thread or, when the thread has run into the time
\* limit or died, by failClaimedProjectJobBestEffort; the file is removed later.
EndJob(u) ==
  /\ Leaves(u) /\ job' = [job EXCEPT ![u] = "ended"] /\ lapsed' = lapsed \ {u}
  /\ JobOnly /\ UNCHANGED <<attempts, stale, faults>>

\* A checkpoint finds that the lease has expired, or the statement of a checkpoint
\* or of the finalization fails: the thread leaves a job that is still running.
Abort(u) ==
  /\ Leaves(u)
  /\ (u \in lapsed /\ UNCHANGED faults) \/ Fault
  /\ JobOnly /\ UNCHANGED <<job, lease>>

\* The finally block, whatever has become of the job.
RemoveImported(u) ==
  /\ worker[u] = "leaving" /\ worker' = [worker EXCEPT ![u] = "none"]
  /\ Remove(u)
  /\ UNCHANGED <<request, job, lease, sweep, faults>>

\* The thread dies and the statement that would fail its job fails as well.
LoseThread(u) ==
  /\ Fault /\ worker[u] # "none" /\ worker' = [worker EXCEPT ![u] = "none"]
  /\ JobOnly /\ UNCHANGED <<job, lease>>

\* The lease of a running job expires: nobody renews it, or a stall keeps its thread from it.
Lapse(u) ==
  /\ job[u] = "running" /\ u \notin lapsed /\ lapsed' = lapsed \cup {u}
  /\ IF worker[u] = "running" THEN Fault ELSE UNCHANGED faults
  /\ JobOnly /\ UNCHANGED <<job, worker, attempts, stale>>

\* Recovery at startup: a job within its lease is skipped; another is given back
\* if it has an attempt left and otherwise failed, and its file stays.
Recover(u) ==
  /\ u \in stale /\ stale' = stale \ {u}
  /\ job' = IF u \notin lapsed THEN job
            ELSE [job EXCEPT ![u] = IF attempts[u] < MaxAttempts THEN "queued" ELSE "ended"]
  /\ lapsed' = lapsed \ {u}
  /\ JobOnly /\ UNCHANGED <<worker, attempts, faults>>

(***************************************************************************)
(* cleanupExpiredUploadTempFiles.                                          *)
(***************************************************************************)
Sees(s, from, read) == sweep[s].at = from /\ sweep' = [sweep EXCEPT ![s] = read]

SweepOnly == KeepFiles /\ UNCHANGED <<request, jobs>>

\* The age of a file is measured against the time the sweep began.
BeginSweep(s) ==
  /\ Sees(s, "idle", [NoSweep EXCEPT !.at = "begun", !.expired = old])
  /\ SweepOnly /\ UNCHANGED faults

\* getActiveImportZipTempFilePaths, or no path when the table cannot be read.
ListActive(s) ==
  /\ \/ /\ Sees(s, "begun", [sweep[s] EXCEPT !.at = "listed", !.kept = {u \in Uploads : Active(job[u])}])
        /\ UNCHANGED faults
     \/ Fault /\ Sees(s, "begun", [sweep[s] EXCEPT !.at = "listed", !.blind = TRUE])
  /\ SweepOnly

ReadDirectory(s) ==
  /\ Sees(s, "listed", [sweep[s] EXCEPT !.at = "reading", !.left = disk])
  /\ SweepOnly /\ UNCHANGED faults

\* Variant for the mutants: the age of a file is measured when it is looked at.
IsOldNow(read, u) == u \in old
HasExpired(read, u) == u \in read.expired

SweepFile(s, u) ==
  /\ u \in sweep[s].left
  /\ Sees(s, "reading", [sweep[s] EXCEPT !.left = @ \ {u}])
  /\ IF HasExpired(sweep[s], u) /\ u \notin sweep[s].kept THEN Remove(u) ELSE KeepFiles
  /\ UNCHANGED <<request, jobs, faults>>

\* Variant for the mutants: a sweep that never starts anew.
SweptOnce(s) == [NoSweep EXCEPT !.at = "begun"]
SweepOver(s) == NoSweep

EndSweep(s) ==
  /\ sweep[s].left = {} /\ Sees(s, "reading", SweepOver(s))
  /\ SweepOnly /\ UNCHANGED faults

-----------------------------------------------------------------------------
\* Time passes; a file outlives its request by less than the TTL.
Age(u) ==
  /\ u \in disk \ old /\ request[u] = "done"
  /\ old' = old \cup {u}
  /\ UNCHANGED <<disk, request, jobs, sweep, faults>>

\* The process stops and is started again: handlers, workers and sweeps are gone.
Restart ==
  /\ Fault
  /\ request' = [u \in Uploads |-> IF request[u] = "new" THEN "new" ELSE "done"]
  /\ worker' = [u \in Uploads |-> "none"] /\ sweep' = [s \in Sweeps |-> NoSweep]
  /\ stale' = {u \in Uploads : job[u] = "running"}
  /\ KeepFiles /\ UNCHANGED <<job, attempts, lapsed>>

RequestStep(u) == Receive(u) \/ Received(u) \/ RemoveUnused(u) \/ QueueImport(u) \/ Respond(u)
JobStep(u)     == TakeJob(u) \/ EndJob(u) \/ RemoveImported(u) \/ Recover(u)
SweepStep(s)   == BeginSweep(s) \/ ListActive(s) \/ ReadDirectory(s) \/ (\E u \in Uploads : SweepFile(s, u)) \/ EndSweep(s)

Next ==
  \/ \E u \in Uploads : Refuse(u) \/ RequestStep(u) \/ CallFails(u) \/ Age(u)
  \/ \E u \in Uploads : JobStep(u) \/ Abort(u) \/ LoseThread(u) \/ Lapse(u)
  \/ \E s \in Sweeps : SweepStep(s)
  \/ Restart

\* A handler goes on, the job of a living thread ends, the server claims and
\* recovers what it may, time passes, and the timer fires again and again.
Fairness ==
  /\ \A u \in Uploads : WF_vars(RequestStep(u)) /\ WF_vars(JobStep(u)) /\ WF_vars(Lapse(u)) /\ WF_vars(Age(u))
  /\ \A s \in Sweeps : WF_vars(SweepStep(s))

Spec == Init /\ [][Next]_vars /\ Fairness

-----------------------------------------------------------------------------
(***************************************************************************)
(* Properties.                                                             *)
(***************************************************************************)
\* The archive of a job that waits or runs stays.  It goes only with the call that
\* failed after it had committed, in a sweep that could not read which jobs there
\* are, or with the thread of the job itself, which has given the job up; the
\* archive of a job that waits goes with no thread.  A job may be queued, end, be
\* given back or taken again between any two reads of the sweep
\* (projectUploadRoute.ts 64-98).
ActiveUploadsStay ==
  [][\A u \in disk \ disk' :
       Active(job[u]) => \/ request[u] = "committed" /\ request'[u] = "done"
                         \/ job[u] = "running" /\ worker[u] = "leaving" /\ worker'[u] = "none"
                         \/ \E s \in Sweeps : sweep[s].blind /\ u \in sweep[s].left \ sweep'[s].left]_vars

\* A job that no thread runs, no recovery looks at and no claim may take: its last
\* attempt was within its lease when the server came up (projectJobRecovery.ts 102).
Stuck(u) == job[u] = "running" /\ worker[u] = "none" /\ attempts[u] = MaxAttempts /\ u \notin stale

\* Whatever becomes of a request, its job and the server, in the end the uploaded
\* file is removed for good, unless the last attempt of its job was lost without
\* the job being ended; such a job counts as active, and keeps its file, until the
\* server starts again (projectUploadRoute.ts 136-142, projectWorkflow.ts 1458-1462).
UploadsEnd == \A u \in Uploads : <>[](u \notin disk) \/ <>[]Stuck(u)
=============================================================================
