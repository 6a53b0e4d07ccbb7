---------------------------- MODULE Uploads_proofs ----------------------------
(***************************************************************************)
(* Proofs about Uploads, for every set of requests, any number of sweeps   *)
(* at once and every number of faults.  IInv is the inductive invariant:   *)
(* it says why the order of the three reads of a sweep matters.  A file    *)
(* that had expired when the sweep began belongs to a finished request, so *)
(* that its job was queued before the list of active jobs was read, and is *)
(* in that list for as long as it is active.  That a thread never removes  *)
(* the file of a job that waits follows from how threads and jobs fit:     *)
(* recovery gives a job back only when no thread of the process has it.    *)
(***************************************************************************)
EXTENDS Uploads, TLAPS

\* A job exists only once its request has committed it.
QueuedLate == \A u \in Uploads : request[u] \in {"new", "receiving", "stored"} => job[u] = "none"

\* What has expired, for the disk or for a sweep, has a finished request.
ExpiredIsDone ==
  \A u \in Uploads : (u \in old \/ \E s \in Sweeps : u \in sweep[s].expired) => request[u] = "done"

\* A sweep that has read the table knows every active job of an expired file.
KeptIsComplete ==
  \A s \in Sweeps, u \in Uploads :
    (sweep[s].at \in {"listed", "reading"} /\ ~sweep[s].blind /\ u \in sweep[s].expired /\ Active(job[u]))
      => u \in sweep[s].kept

\* What a thread, a lease and the recovery say of a job.
ThreadsFitJobs ==
  \A u \in Uploads :
    /\ worker[u] = "running" => job[u] = "running"
    /\ worker[u] = "leaving" => job[u] \in {"running", "ended"}
    /\ u \in lapsed => job[u] = "running"
    /\ u \in stale => worker[u] = "none"

IInv == TypeOK /\ QueuedLate /\ ExpiredIsDone /\ KeptIsComplete /\ ThreadsFitJobs

USE UploadConstants

\* The invariant holds at the start.
LEMMA InitOK == Init => IInv
  BY DEF Init, IInv, TypeOK, QueuedLate, ExpiredIsDone, KeptIsComplete, ThreadsFitJobs, NoSweep, RequestStages, JobStatuses

\* Requests: none that is done moves, and jobs appear only as they commit.
LEMMA RequestsOK ==
  ASSUME IInv, NEW u \in Uploads, Refuse(u) \/ RequestStep(u) \/ CallFails(u)
  PROVE  IInv'
<1> USE DEF IInv, TypeOK, RequestStages, JobStatuses, Goes, KeepFiles, Remove, Fault, jobs, lease, ThreadsFitJobs
<1>1. CASE Refuse(u)
  BY <1>1 DEF Refuse, QueuedLate, ExpiredIsDone, KeptIsComplete
<1>2. CASE Receive(u)
  BY <1>2 DEF Receive, QueuedLate, ExpiredIsDone, KeptIsComplete
<1>3. CASE Received(u)
  BY <1>3 DEF Received, QueuedLate, ExpiredIsDone, KeptIsComplete
<1>4. CASE RemoveUnused(u)
  BY <1>4 DEF RemoveUnused, QueuedLate, ExpiredIsDone, KeptIsComplete
<1>5. CASE QueueImport(u)
  <2>1. \A s \in Sweeps : u \notin sweep[s].expired
    BY <1>5 DEF QueueImport, ExpiredIsDone
  <2>2. job[u] = "none"
    BY <1>5 DEF QueueImport, QueuedLate
  <2>3. worker[u] = "none" /\ u \notin lapsed
    BY <2>2
  <2> QED BY <1>5, <2>1, <2>3 DEF QueueImport, QueuedLate, ExpiredIsDone, KeptIsComplete, Active
<1>6. CASE Respond(u)
  BY <1>6 DEF Respond, QueuedLate, ExpiredIsDone, KeptIsComplete
<1>7. CASE CallFails(u)
  BY <1>7 DEF CallFails, QueuedLate, ExpiredIsDone, KeptIsComplete
<1> QED BY <1>1, <1>2, <1>3, <1>4, <1>5, <1>6, <1>7 DEF RequestStep

\* Jobs: none becomes active that was not.
LEMMA JobsOK ==
  ASSUME IInv, NEW u \in Uploads, JobStep(u) \/ Abort(u) \/ LoseThread(u) \/ Lapse(u)
  PROVE  IInv'
<1> USE DEF IInv, TypeOK, RequestStages, JobStatuses, KeepFiles, Remove, QueuedLate, ExpiredIsDone,
            KeptIsComplete, Active, ThreadsFitJobs, JobOnly, lease, Leaves, Fault
<1>1. CASE TakeJob(u)
  BY <1>1 DEF TakeJob
<1>2. CASE EndJob(u)
  BY <1>2 DEF EndJob
<1>3. CASE RemoveImported(u)
  BY <1>3 DEF RemoveImported
<1>4. CASE Recover(u)
  BY <1>4 DEF Recover
<1>5. CASE Abort(u)
  BY <1>5 DEF Abort
<1>6. CASE LoseThread(u)
  BY <1>6 DEF LoseThread
<1>7. CASE Lapse(u)
  BY <1>7 DEF Lapse
<1> QED BY <1>1, <1>2, <1>3, <1>4, <1>5, <1>6, <1>7 DEF JobStep

SweepType == [at : {"idle", "begun", "listed", "reading"}, expired : SUBSET Uploads,
              kept : SUBSET Uploads, left : SUBSET Uploads, blind : BOOLEAN]

LEMMA SweepTyped ==
  ASSUME TypeOK, NEW s \in Sweeps, NEW x \in SweepType, sweep' = [sweep EXCEPT ![s] = x],
         UNCHANGED <<request, disk, old, jobs>>, faults' \in 0..MaxFaults
  PROVE  TypeOK'
  BY DEF TypeOK, SweepType, jobs, lease

\* Sweeps: each read keeps what the earlier ones have established.
LEMMA SweepsOK ==
  ASSUME IInv, NEW s \in Sweeps, SweepStep(s)
  PROVE  IInv'
<1> USE DEF IInv, TypeOK, RequestStages, JobStatuses, KeepFiles, Remove, Sees, SweepOnly, Fault, jobs, lease
<1>1. CASE BeginSweep(s)
  BY <1>1 DEF BeginSweep, NoSweep, QueuedLate, ExpiredIsDone, KeptIsComplete, ThreadsFitJobs
<1>2. CASE ListActive(s)
  <2>1. PICK kept \in SUBSET Uploads, blind \in BOOLEAN :
          /\ sweep' = [sweep EXCEPT ![s] = [sweep[s] EXCEPT !.at = "listed", !.kept = kept, !.blind = blind]]
          /\ ~blind => kept = {u \in Uploads : Active(job[u])}
    <3>1. sweep[s].blind \in BOOLEAN /\ sweep[s].kept \in SUBSET Uploads /\ s \in DOMAIN sweep
      OBVIOUS
    <3>2. CASE Sees(s, "begun", [sweep[s] EXCEPT !.at = "listed", !.blind = TRUE])
      BY <3>1, <3>2
    <3>3. CASE Sees(s, "begun", [sweep[s] EXCEPT !.at = "listed", !.kept = {u \in Uploads : Active(job[u])}])
      <4> DEFINE active == {u \in Uploads : Active(job[u])}
      <4>1. active \in SUBSET Uploads /\ sweep' = [sweep EXCEPT ![s] = [sweep[s] EXCEPT !.at = "listed", !.kept = active]]
        BY <3>3
      <4> HIDE DEF active
      <4>2. [sweep[s] EXCEPT !.at = "listed", !.kept = active] = [sweep[s] EXCEPT !.at = "listed", !.kept = active, !.blind = sweep[s].blind]
        BY <3>1
      <4>3. sweep' = [sweep EXCEPT ![s] = [sweep[s] EXCEPT !.at = "listed", !.kept = active, !.blind = sweep[s].blind]]
        BY <4>1, <4>2
      <4> QED BY <3>1, <4>1, <4>3 DEF active
    <3> QED BY <1>2, <3>2, <3>3 DEF ListActive
  <2>2. UNCHANGED <<request, disk, old, jobs>> /\ faults' \in 0..MaxFaults
    BY <1>2 DEF ListActive
  <2>3. TypeOK'
    <3> DEFINE x == [sweep[s] EXCEPT !.at = "listed", !.kept = kept, !.blind = blind]
    <3>1. x \in SweepType
      BY <2>1 DEF SweepType
    <3>2. sweep' = [sweep EXCEPT ![s] = x]
      BY <2>1
    <3> HIDE DEF x
    <3> QED BY <2>2, <3>1, <3>2, SweepTyped
  <2>4. QueuedLate' /\ ExpiredIsDone' /\ ThreadsFitJobs'
    BY <2>1, <2>2 DEF QueuedLate, ExpiredIsDone, ThreadsFitJobs
  <2>5. KeptIsComplete'
    BY <2>1, <2>2 DEF KeptIsComplete, Active
  <2> QED BY <2>3, <2>4, <2>5
<1>3. CASE ReadDirectory(s)
  <2>1. /\ sweep' = [sweep EXCEPT ![s] = [sweep[s] EXCEPT !.at = "reading", !.left = disk]]
        /\ sweep[s].at = "listed" /\ UNCHANGED <<request, disk, old, jobs, faults>>
    BY <1>3 DEF ReadDirectory
  <2>2. TypeOK'
    <3> DEFINE x == [sweep[s] EXCEPT !.at = "reading", !.left = disk]
    <3>1. x \in SweepType
      BY <2>1 DEF SweepType
    <3>2. sweep' = [sweep EXCEPT ![s] = x]
      BY <2>1
    <3> HIDE DEF x
    <3> QED BY <2>1, <3>1, <3>2, SweepTyped
  <2>3. QueuedLate' /\ ExpiredIsDone' /\ ThreadsFitJobs'
    BY <2>1 DEF QueuedLate, ExpiredIsDone, ThreadsFitJobs
  <2>4. KeptIsComplete'
    BY <2>1 DEF KeptIsComplete, Active
  <2> QED BY <2>2, <2>3, <2>4
<1>4. ASSUME NEW u \in Uploads, SweepFile(s, u) PROVE IInv'
  <2>1. /\ sweep' = [sweep EXCEPT ![s] = [sweep[s] EXCEPT !.left = sweep[s].left \ {u}]]
        /\ sweep[s].at = "reading" /\ UNCHANGED <<request, jobs, faults>>
        /\ disk' \subseteq disk /\ old' \subseteq old
    BY <1>4 DEF SweepFile
  <2>2. TypeOK'
    BY <2>1
  <2>3. QueuedLate' /\ ExpiredIsDone' /\ ThreadsFitJobs'
    BY <2>1 DEF QueuedLate, ExpiredIsDone, ThreadsFitJobs
  <2>4. KeptIsComplete'
    BY <2>1 DEF KeptIsComplete, Active
  <2> QED BY <2>1, <2>2, <2>3, <2>4
<1>5. CASE EndSweep(s)
  BY <1>5 DEF EndSweep, SweepOver, NoSweep, QueuedLate, ExpiredIsDone, KeptIsComplete, ThreadsFitJobs
<1> QED BY <1>1, <1>2, <1>3, <1>4, <1>5 DEF SweepStep

\* Time, a restart and a step of something else.
LEMMA OthersOK ==
  ASSUME IInv, (\E u \in Uploads : Age(u)) \/ Restart \/ UNCHANGED vars
  PROVE  IInv'
<1> USE DEF IInv, TypeOK, RequestStages, JobStatuses, KeepFiles, Fault, jobs, lease, ThreadsFitJobs
<1>1. ASSUME NEW u \in Uploads, Age(u) PROVE IInv'
  BY <1>1 DEF Age, QueuedLate, ExpiredIsDone, KeptIsComplete
<1>2. CASE Restart
  BY <1>2 DEF Restart, NoSweep, QueuedLate, ExpiredIsDone, KeptIsComplete
<1>3. CASE UNCHANGED vars
  BY <1>3 DEF vars, QueuedLate, ExpiredIsDone, KeptIsComplete, Active
<1> QED BY <1>1, <1>2, <1>3

LEMMA NextOK == IInv /\ [Next]_vars => IInv'
<1> SUFFICES ASSUME IInv, [Next]_vars PROVE IInv'
  OBVIOUS
<1>1. CASE \E u \in Uploads : Refuse(u) \/ RequestStep(u) \/ CallFails(u) \/ Age(u)
  BY <1>1, RequestsOK, OthersOK
<1>4. CASE \E u \in Uploads : JobStep(u) \/ Abort(u) \/ LoseThread(u) \/ Lapse(u)
  BY <1>4, JobsOK
<1>2. CASE \E s \in Sweeps : SweepStep(s)
  BY <1>2, SweepsOK
<1>3. CASE Restart \/ UNCHANGED vars
  BY <1>3, OthersOK
<1> QED BY <1>1, <1>2, <1>3, <1>4 DEF Next

\* Type correctness, with the strengthening.
THEOREM UploadsInvariance == Spec => []IInv
  BY InitOK, NextOK, PTL DEF Spec

\* The archive of an active job goes only with the failed call, with the thread that
\* gave the job up, or in a blind sweep.
StaysNow ==
  \A u \in disk \ disk' :
    Active(job[u]) => \/ request[u] = "committed" /\ request'[u] = "done"
                      \/ job[u] = "running" /\ worker[u] = "leaving" /\ worker'[u] = "none"
                      \/ \E s \in Sweeps : sweep[s].blind /\ u \in sweep[s].left \ sweep'[s].left

\* Only four actions remove a file.
LEMMA StepStays == IInv /\ Next => StaysNow
<1> SUFFICES ASSUME IInv, Next, NEW f \in disk \ disk', Active(job[f])
             PROVE  \/ request[f] = "committed" /\ request'[f] = "done"
                    \/ job[f] = "running" /\ worker[f] = "leaving" /\ worker'[f] = "none"
                    \/ \E s \in Sweeps : sweep[s].blind /\ f \in sweep[s].left \ sweep'[s].left
  BY DEF StaysNow
<1>1. f \in Uploads
  BY DEF IInv, TypeOK
<1>2. PICK u \in Uploads : RemoveUnused(u) \/ CallFails(u) \/ RemoveImported(u) \/ (\E s \in Sweeps : SweepFile(s, u))
  BY DEF Next, RequestStep, JobStep, SweepStep, Refuse, Receive, Received, QueueImport, Respond, TakeJob, EndJob,
         Recover, Abort, LoseThread, Lapse, JobOnly, BeginSweep, ListActive, ReadDirectory, EndSweep, Age, Restart, KeepFiles, SweepOnly
<1>3. f = u
  BY <1>2 DEF RemoveUnused, CallFails, RemoveImported, SweepFile, Remove, KeepFiles
<1>4. CASE RemoveUnused(u)
  BY <1>1, <1>3, <1>4 DEF RemoveUnused, Goes, IInv, QueuedLate, Active
<1>5. CASE CallFails(u)
  BY <1>1, <1>3, <1>5 DEF CallFails, Goes, IInv, TypeOK
<1>6. CASE RemoveImported(u)
  BY <1>1, <1>3, <1>6 DEF RemoveImported, Active, IInv, TypeOK, ThreadsFitJobs
<1>7. ASSUME NEW s \in Sweeps, SweepFile(s, u) PROVE sweep[s].blind /\ f \in sweep[s].left \ sweep'[s].left
  <2>1. f \in sweep[s].expired /\ f \notin sweep[s].kept /\ sweep[s].at = "reading"
    BY <1>3, <1>7 DEF SweepFile, HasExpired, KeepFiles, Sees
  <2>2. sweep[s].blind
    BY <1>1, <2>1 DEF IInv, KeptIsComplete, TypeOK
  <2>3. f \in sweep[s].left /\ f \notin sweep'[s].left
    BY <1>3, <1>7 DEF SweepFile, Sees, IInv, TypeOK
  <2> QED BY <2>2, <2>3
<1> QED BY <1>2, <1>4, <1>5, <1>6, <1>7

\* ActiveUploadsStay: of every behaviour, for any number of uploads and sweeps.
THEOREM ActiveUploadsAreKept == Spec => ActiveUploadsStay
<1>1. IInv /\ [Next]_vars => [StaysNow]_vars
  BY StepStays
<1> QED BY <1>1, UploadsInvariance, PTL DEF Spec, ActiveUploadsStay, StaysNow
=============================================================================
