-------------------------- MODULE WorkerServer_proofs --------------------------
(***************************************************************************)
(* Proofs about WorkerServer, for any number of jobs, threads and faults.  *)
(***************************************************************************)
EXTENDS WorkerServer, TLAPS, WellFoundedInduction

Over       == {"done", "failed", "lost"}
JobType    == [type : {"import", "analyze"}, by : Instances,
               status : {"none", "queued", "running"} \cup Over]
HoldsJob   == {"worker", "ready", "posted", "report"}
ThreadType == [state : {"unused", "starting", "up", "dead"}, parent : Instances,
               tasks : SUBSET JobIds]
Event      == [type : {"ready", "error"}] \cup [type : {"exit"}, code : {0, 1}]
              \cup [type : {"result"}, job : JobIds, ok : BOOLEAN]

ServerTypeOK ==
  /\ jobs \in [JobIds -> JobType]
  /\ loop \in [Instances -> {"none", "claim"} \cup HoldsJob]
  /\ mine \in [Instances -> JobIds \cup {NoJob}]
  /\ worker \in [Instances -> Threads \cup {NoThread}]
  /\ awaited \in [Instances -> Threads \cup {NoThread}]
  /\ pending \in [Instances -> BOOLEAN] /\ retry \in [Instances -> BOOLEAN]
  /\ thread \in [Threads -> ThreadType]
  /\ ready \in [Threads -> {"open", "ok", "failed"}]
  /\ events \in [Threads -> Seq(Event)]
  /\ polling \in BOOLEAN /\ stopping \in BOOLEAN
  /\ phase \in {"up", "http", "idle", "database"} \cup Exits
  /\ faults \in Nat

\* What a job can no longer be once a loop or a thread has it.
Claimed == {"running"} \cup Over

\* A loop that holds a job has claimed it.
MineOK == \A i \in Instances :
  loop[i] \in HoldsJob => mine[i] \in JobIds /\ jobs[mine[i]].status \in Claimed

\* What the main thread has claimed and nobody has ended, its loop holds.
MainOK == \A j \in JobIds :
  jobs[j].status = "running" /\ jobs[j].by = Main => loop[Main] \in HoldsJob /\ mine[Main] = j

\* A request is pending only while its loop waits for it.
PendingOK == \A i \in Instances :
  /\ pending[i] /\ Alive(i) => loop[i] = "posted"
  /\ pending[i] => i = Main \/ thread[i].state # "unused"

\* A thread works on claimed jobs, and an answer that says yes is of a job that
\* is over.
AnswersOK == \A t \in Threads :
  /\ \A j \in thread[t].tasks : jobs[j].status \in Claimed
  /\ \A n \in DOMAIN events[t] :
       events[t][n].type = "result" /\ events[t][n].ok => jobs[events[t][n].job].status \in Over

\* The database is closed after the loop has ended, which stays so.
PhaseOK == /\ phase # "up" => stopping
           /\ phase \in {"database", "clean"} => loop[Main] = "none"

IInv == ServerTypeOK /\ MineOK /\ MainOK /\ PendingOK /\ AnswersOK /\ PhaseOK

-----------------------------------------------------------------------------
(***************************************************************************)
(* The helpers.                                                            *)
(***************************************************************************)
LEMMA Ids ==
  /\ Main \in Instances /\ Main \notin Threads /\ Threads \subseteq Instances
  /\ NoJob \notin JobIds /\ NoThread \notin Threads /\ JobIds \subseteq Nat
  BY ServerConstants DEF Instances, Threads, Main, NoJob, JobIds, NoThread

\* A set of naturals has a least element, because < is well-founded on Nat.
Smaller == {pair \in Nat \X Nat : pair[1] < pair[2]}

LEMMA LeastExists ==
  ASSUME NEW set \in SUBSET Nat, set # {}
  PROVE  \E least \in set : \A other \in set : least <= other
<1>1. IsWellFoundedOn(Smaller, Nat)
  BY NatLessThanWellFounded DEF OpToRel, Smaller
<1>2. PICK least \in set : \A other \in set : <<other, least>> \notin Smaller
  BY <1>1, WFMin, Zenon
<1>3. ASSUME NEW other \in set PROVE least <= other
  <2>1. /\ least \in Nat /\ other \in Nat
        /\ <<other, least>>[1] = other /\ <<other, least>>[2] = least
    OBVIOUS
  <2>2. other < least => <<other, least>> \in Smaller
    BY <2>1 DEF Smaller
  <2> QED BY <1>2, <2>1, <2>2
<1> QED BY <1>3

\* A new job takes the first row that is not used.
LEMMA NewJobIsNew ==
  ASSUME HasRoom
  PROVE  NewJob \in JobIds /\ jobs[NewJob].status = "none"
<1> DEFINE free == {j \in JobIds : jobs[j].status = "none"}
<1>1. free \in SUBSET Nat /\ free # {}
  BY Ids DEF HasRoom
<1> HIDE DEF free
<1>2. PICK least \in free : \A other \in free : least <= other
  BY <1>1, LeastExists
<1>3. ASSUME NEW k \in 1..(least - 1) PROVE jobs[k].status # "none"
  <2>1. least \in JobIds /\ k < least /\ k \in Nat /\ least \in Nat
    BY ServerConstants DEF free, JobIds
  <2>2. k \in JobIds
    BY <2>1, ServerConstants DEF JobIds
  <2> QED BY <1>2, <2>1, <2>2 DEF free
<1>4. \E j \in JobIds : jobs[j].status = "none" /\ \A k \in 1..(j - 1) : jobs[k].status # "none"
  BY <1>2, <1>3 DEF free
<1> QED BY <1>4 DEF NewJob

LEMMA BelowThreads == ASSUME NEW t PROVE Below(t) \subseteq Threads
  BY DEF Below

\* What ends with a thread: states and tasks, never a parent.
LEMMA EndedThreads ==
  ASSUME ServerTypeOK, NEW t
  PROVE  /\ Ended(t) \in [Threads -> ThreadType]
         /\ \A u \in Threads :
              /\ Ended(t)[u].tasks \subseteq thread[u].tasks
              /\ Ended(t)[u].state = "unused" <=> thread[u].state = "unused"
              /\ Ended(t)[u].state \in {"starting", "up"} =>
                   u \notin Below(t) /\ thread[u].state \in {"starting", "up"}
<1>1. ASSUME NEW u \in Threads
      PROVE  /\ Ended(t)[u] \in ThreadType
             /\ Ended(t)[u].tasks \subseteq thread[u].tasks
             /\ Ended(t)[u].state = "unused" <=> thread[u].state = "unused"
             /\ Ended(t)[u].state \in {"starting", "up"} =>
                  u \notin Below(t) /\ thread[u].state \in {"starting", "up"}
  BY DEF ServerTypeOK, ThreadType, Ended
<1> QED BY <1>1 DEF Ended

LEMMA KickedLoops ==
  ASSUME ServerTypeOK, NEW i \in Instances
  PROVE  /\ Kicked(i) \in [Instances -> {"none", "claim"} \cup HoldsJob]
         /\ \A k \in Instances :
              \/ Kicked(i)[k] = loop[k]
              \/ loop[k] = "none" /\ Kicked(i)[k] = "claim" /\ (k = Main => ~stopping)
  BY DEF ServerTypeOK, Kicked, Set

LEMMA EndedLoops ==
  ASSUME ServerTypeOK, NEW t
  PROVE  /\ LoopsEnded(loop, t) \in [Instances -> {"none", "claim"} \cup HoldsJob]
         /\ \A k \in Instances :
              LoopsEnded(loop, t)[k] = IF k \in Below(t) THEN "none" ELSE loop[k]
  BY DEF ServerTypeOK, LoopsEnded

LEMMA Emitted ==
  ASSUME ServerTypeOK, NEW t \in Threads, NEW list \in Seq(Event)
  PROVE  /\ Emit(t, list) \in [Threads -> Seq(Event)]
         /\ \A u \in Threads : \A n \in DOMAIN Emit(t, list)[u] :
              \/ n \in DOMAIN events[u] /\ Emit(t, list)[u][n] = events[u][n]
              \/ u = t /\ \E m \in DOMAIN list : Emit(t, list)[u][n] = list[m]
<1>1. Emit(t, list) \in [Threads -> Seq(Event)]
  BY DEF ServerTypeOK, Emit
<1>2. ASSUME NEW u \in Threads, NEW n \in DOMAIN Emit(t, list)[u]
      PROVE  \/ n \in DOMAIN events[u] /\ Emit(t, list)[u][n] = events[u][n]
             \/ u = t /\ \E m \in DOMAIN list : Emit(t, list)[u][n] = list[m]
  <2>1. CASE u # t
    BY <2>1 DEF ServerTypeOK, Emit
  <2>2. CASE u = t
    <3>1. events[t] \in Seq(Event) /\ Emit(t, list)[u] = events[t] \o list
      BY <2>2 DEF ServerTypeOK, Emit
    <3>2. CASE n <= Len(events[t])
      BY <2>2, <3>1, <3>2
    <3>3. CASE n > Len(events[t])
      <4>1. n - Len(events[t]) \in DOMAIN list /\ Emit(t, list)[u][n] = list[n - Len(events[t])]
        BY <3>1, <3>3
      <4> QED BY <2>2, <4>1
    <3> QED BY <3>1, <3>2, <3>3
  <2> QED BY <2>1, <2>2
<1> QED BY <1>1, <1>2

-----------------------------------------------------------------------------
(***************************************************************************)
(* The steps.  Most parts of the invariant follow from how a step moves    *)
(* the jobs and the loops.                                                 *)
(***************************************************************************)
\* A job that has been claimed is not given back, one that is over stays so.
JobsAdvance == \A j \in JobIds :
  /\ jobs[j].status \in Claimed => jobs'[j].status \in Claimed
  /\ jobs[j].status \in Over => jobs'[j].status \in Over

LEMMA SameJobs == ASSUME jobs' = jobs PROVE JobsAdvance
  BY DEF JobsAdvance

LEMMA AnswersStay ==
  ASSUME AnswersOK, ServerTypeOK, JobsAdvance, UNCHANGED <<thread, events>>
  PROVE  AnswersOK'
<1>1. ASSUME NEW t \in Threads, NEW j \in thread'[t].tasks PROVE jobs'[j].status \in Claimed
  <2>1. j \in JobIds /\ j \in thread[t].tasks
    BY <1>1 DEF ServerTypeOK, ThreadType
  <2> QED BY <2>1 DEF AnswersOK, JobsAdvance
<1>2. ASSUME NEW t \in Threads, NEW n \in DOMAIN events'[t],
             events'[t][n].type = "result", events'[t][n].ok
      PROVE  jobs'[events'[t][n].job].status \in Over
  <2>1. events[t][n] \in Event
    BY <1>2 DEF ServerTypeOK
  <2>2. events[t][n].job \in JobIds
    BY <2>1, <1>2 DEF Event
  <2> QED BY <1>2, <2>2 DEF AnswersOK, JobsAdvance
<1> QED BY <1>1, <1>2 DEF AnswersOK

\* A step that leaves the jobs, the requests and the threads alone and at most
\* wakes a loop or ends it.
LEMMA QuietSteps ==
  ASSUME IInv, UNCHANGED <<jobs, mine, pending, thread, events>>,
         \A k \in Instances : loop'[k] = loop[k] \/ {loop[k], loop'[k]} \subseteq {"none", "claim"}
  PROVE  MineOK' /\ MainOK' /\ PendingOK' /\ AnswersOK'
<1>1. MineOK'
  BY DEF IInv, MineOK, HoldsJob
<1>2. MainOK'
  BY Ids DEF IInv, MainOK, HoldsJob
<1>3. PendingOK'
  BY DEF IInv, PendingOK, Alive
<1>4. AnswersOK'
  BY SameJobs, AnswersStay DEF IInv
<1> QED BY <1>1, <1>2, <1>3, <1>4

LEMMA EnqueueKeeps == ASSUME IInv, NEW here \in BOOLEAN, Enqueue(here) PROVE IInv'
<1>1. PICK type \in {"import", "analyze"} : jobs' = Queued(jobs, type)
  BY DEF Enqueue
<1>2. NewJob \in JobIds /\ jobs[NewJob].status = "none"
  BY NewJobIsNew DEF Enqueue
<1>3. /\ jobs' \in [JobIds -> JobType]
      /\ \A j \in JobIds : jobs'[j] = IF j = NewJob THEN [type |-> type, status |-> "queued", by |-> Main]
                                                     ELSE jobs[j]
  BY <1>1, <1>2, Ids DEF Queued, IInv, ServerTypeOK, JobType
<1>4. /\ loop' \in [Instances -> {"none", "claim"} \cup HoldsJob]
      /\ \A k \in Instances :
           \/ loop'[k] = loop[k]
           \/ loop[k] = "none" /\ loop'[k] = "claim" /\ (k = Main => ~stopping)
  BY KickedLoops, Ids DEF Enqueue, IInv, ServerTypeOK
<1>5. ServerTypeOK'
  BY <1>3, <1>4 DEF Enqueue, IInv, ServerTypeOK, bridge
<1>6. JobsAdvance
  BY <1>2, <1>3 DEF JobsAdvance, Claimed, Over
<1>7. MineOK'
  BY <1>4, <1>6 DEF IInv, MineOK, JobsAdvance, Enqueue, HoldsJob
<1>8. MainOK'
  BY <1>3, <1>4, Ids DEF IInv, MainOK, Enqueue, HoldsJob
<1>9. PendingOK'
  BY <1>4 DEF IInv, PendingOK, Alive, Enqueue, bridge
<1>10. AnswersOK'
  BY <1>6, AnswersStay DEF IInv, Enqueue, bridge
<1>11. PhaseOK'
  BY <1>4, Ids DEF IInv, PhaseOK, Enqueue
<1> QED BY <1>5, <1>7, <1>8, <1>9, <1>10, <1>11 DEF IInv

LEMMA PollKeeps == ASSUME IInv, Poll PROVE IInv'
<1>1. /\ loop' \in [Instances -> {"none", "claim"} \cup HoldsJob]
      /\ \A k \in Instances :
           \/ loop'[k] = loop[k]
           \/ loop[k] = "none" /\ loop'[k] = "claim" /\ (k = Main => ~stopping)
  BY KickedLoops, Ids DEF Poll, IInv
<1>2. ServerTypeOK'
  BY <1>1 DEF Poll, IInv, ServerTypeOK, bridge
<1>3. MineOK' /\ MainOK' /\ PendingOK' /\ AnswersOK'
  BY <1>1, QuietSteps DEF Poll, bridge
<1>4. PhaseOK'
  BY <1>1, Ids DEF IInv, PhaseOK, Poll
<1> QED BY <1>2, <1>3, <1>4 DEF IInv

LEMMA RetryTimerKeeps == ASSUME IInv, NEW i \in Instances, RetryTimer(i) PROVE IInv'
<1>1. /\ loop' \in [Instances -> {"none", "claim"} \cup HoldsJob]
      /\ \A k \in Instances :
           \/ loop'[k] = loop[k]
           \/ loop[k] = "none" /\ loop'[k] = "claim" /\ (k = Main => ~stopping)
  BY KickedLoops DEF RetryTimer, IInv
<1>2. ServerTypeOK'
  BY <1>1 DEF RetryTimer, IInv, ServerTypeOK, bridge, Set
<1>3. MineOK' /\ MainOK' /\ PendingOK' /\ AnswersOK'
  BY <1>1, QuietSteps DEF RetryTimer, bridge
<1>4. PhaseOK'
  BY <1>1, Ids DEF IInv, PhaseOK, RetryTimer
<1> QED BY <1>2, <1>3, <1>4 DEF IInv

LEMMA LoopEndsKeeps == ASSUME IInv, NEW i \in Instances, QueueEmpty(i) \/ ClaimFails(i) PROVE IInv'
<1>1. loop[i] = "claim" /\ loop' = [loop EXCEPT ![i] = "none"]
  BY DEF QueueEmpty, ClaimFails, Set, LoopCleared
<1>2. ServerTypeOK'
  <2>1. faults' \in Nat
    <3>1. faults \in Nat
      BY DEF IInv, ServerTypeOK
    <3>2. faults' = faults \/ faults' = faults + 1
      BY DEF QueueEmpty, ClaimFails, Fault
    <3> QED BY <3>1, <3>2
  <2>2. retry' \in [Instances -> BOOLEAN]
    BY DEF QueueEmpty, ClaimFails, IInv, ServerTypeOK, Set
  <2>3. UNCHANGED <<jobs, mine, bridge, polling, stopping, phase>>
    BY DEF QueueEmpty, ClaimFails
  <2> QED BY <1>1, <2>1, <2>2, <2>3 DEF IInv, ServerTypeOK, bridge
<1> UNCHANGED <<jobs, mine, pending, thread, events>>
  BY DEF QueueEmpty, ClaimFails, bridge
<1> \A k \in Instances : loop'[k] = loop[k] \/ {loop[k], loop'[k]} \subseteq {"none", "claim"}
  BY <1>1 DEF IInv, ServerTypeOK
<1>3. MineOK' /\ MainOK' /\ PendingOK' /\ AnswersOK'
  BY QuietSteps
<1>4. PhaseOK'
  BY <1>1, Ids DEF IInv, ServerTypeOK, PhaseOK, QueueEmpty, ClaimFails
<1> QED BY <1>2, <1>3, <1>4 DEF IInv

LEMMA ShutdownKeeps ==
  ASSUME IInv, Signal \/ HttpCloses \/ ShutdownStep \/ ShutdownTimeout
  PROVE  IInv'
<1>1. UNCHANGED <<jobs, loop, mine, bridge, faults>>
  BY DEF Signal, HttpCloses, ShutdownStep, ShutdownTimeout
<1>2. ServerTypeOK'
  BY <1>1, Ids DEF Signal, HttpCloses, ShutdownStep, ShutdownTimeout, IInv, ServerTypeOK, bridge, Set, Exits
<1>3. MineOK' /\ MainOK' /\ PendingOK' /\ AnswersOK'
  BY <1>1, QuietSteps DEF bridge
<1>4. PhaseOK'
  BY <1>1 DEF Signal, HttpCloses, ShutdownStep, ShutdownTimeout, IInv, PhaseOK, LoopIsIdle, LimitedPhases
<1> QED BY <1>2, <1>3, <1>4 DEF IInv
Written(rows, j, status, by) == [rows EXCEPT ![j].status = status, ![j].by = by]

LEMMA RowWritten ==
  ASSUME NEW rows \in [JobIds -> JobType], NEW j \in JobIds, NEW by \in Instances,
         NEW status \in Claimed
  PROVE  LET written == Written(rows, j, status, by)
         IN  /\ written \in [JobIds -> JobType]
             /\ written[j].status = status /\ written[j].by = by
             /\ \A k \in JobIds : k # j => written[k] = rows[k]
<1> DEFINE row == [rows[j] EXCEPT !.status = status, !.by = by]
<1>1. rows[j] \in JobType
  OBVIOUS
<1>2. row \in JobType /\ row.status = status /\ row.by = by
  BY <1>1 DEF JobType, Claimed
<1>3. Written(rows, j, status, by) = [rows EXCEPT ![j] = row]
  BY DEF Written
<1> HIDE DEF row
<1> QED BY <1>2, <1>3

LEMMA ClaimJobKeeps == ASSUME IInv, NEW i \in Instances, ClaimJob(i) PROVE IInv'
<1>1. PICK j \in JobIds : /\ jobs[j].status = "queued"
                          /\ jobs' = [jobs EXCEPT ![j].status = "running", ![j].by = i]
                          /\ mine' = [mine EXCEPT ![i] = j]
  BY DEF ClaimJob, Set
<1>2. /\ loop[i] = "claim" /\ Alive(i) /\ loop' = [loop EXCEPT ![i] = "worker"]
      /\ UNCHANGED <<worker, awaited, pending, thread, ready, events, retry, polling, stopping, phase, faults>>
  BY DEF ClaimJob, Set, bridge
<1>3. /\ jobs' \in [JobIds -> JobType] /\ jobs'[j].status = "running" /\ jobs'[j].by = i
      /\ \A k \in JobIds : k # j => jobs'[k] = jobs[k]
  <2>1. jobs \in [JobIds -> JobType] /\ "running" \in Claimed
    BY DEF IInv, ServerTypeOK, Claimed
  <2>2. LET written == Written(jobs, j, "running", i)
        IN  /\ written \in [JobIds -> JobType]
            /\ written[j].status = "running" /\ written[j].by = i
            /\ \A k \in JobIds : k # j => written[k] = jobs[k]
    BY <2>1, RowWritten
  <2> QED BY <1>1, <2>2 DEF Written
<1>4. ServerTypeOK'
  BY <1>1, <1>2, <1>3 DEF IInv, ServerTypeOK, HoldsJob
<1>5. JobsAdvance
  BY <1>1, <1>3 DEF JobsAdvance, Claimed, Over
<1>6. MineOK'
  BY <1>1, <1>2, <1>3, <1>5 DEF IInv, MineOK, JobsAdvance, ServerTypeOK, Claimed
<1>7. MainOK'
  BY <1>1, <1>2, <1>3, Ids DEF IInv, MainOK, HoldsJob, ServerTypeOK
<1>8. PendingOK'
  BY <1>2 DEF IInv, PendingOK, Alive, ServerTypeOK
<1>9. AnswersOK'
  BY <1>2, <1>5, AnswersStay DEF IInv
<1>10. PhaseOK'
  BY <1>2, Ids DEF IInv, PhaseOK, ServerTypeOK
<1> QED BY <1>4, <1>6, <1>7, <1>8, <1>9, <1>10 DEF IInv

LEMMA GetWorkerKeeps == ASSUME IInv, NEW i \in Instances, GetWorker(i) PROVE IInv'
<1>1. /\ loop[i] = "worker" /\ loop' = [loop EXCEPT ![i] = "ready"]
      /\ UNCHANGED <<jobs, mine, pending, ready, events, retry, polling, stopping, phase, faults>>
  BY DEF GetWorker, Set
<1>2. /\ worker' \in [Instances -> Threads \cup {NoThread}]
      /\ awaited' \in [Instances -> Threads \cup {NoThread}]
      /\ thread' \in [Threads -> ThreadType]
      /\ \A t \in Threads : thread'[t] # thread[t] => /\ thread[t].state = "unused"
                                                      /\ thread'[t].state = "starting"
                                                      /\ thread'[t].tasks = {}
  <2>1. CASE worker[i] # NoThread
    BY <2>1 DEF GetWorker, Set, IInv, ServerTypeOK
  <2>2. CASE worker[i] = NoThread
    <3>1. PICK t \in Threads :
            /\ thread[t].state = "unused"
            /\ thread' = [thread EXCEPT ![t] = [state |-> "starting", parent |-> i, tasks |-> {}]]
            /\ worker' = [worker EXCEPT ![i] = t] /\ awaited' = [awaited EXCEPT ![i] = t]
      BY <2>2 DEF GetWorker, Set
    <3> QED BY <3>1 DEF IInv, ServerTypeOK, ThreadType
  <2> QED BY <2>1, <2>2
<1>3. ServerTypeOK'
  BY <1>1, <1>2 DEF IInv, ServerTypeOK, HoldsJob
<1>4. MineOK'
  BY <1>1 DEF IInv, MineOK, HoldsJob, ServerTypeOK
<1>5. MainOK'
  BY <1>1, Ids DEF IInv, MainOK, HoldsJob, ServerTypeOK
<1>6. PendingOK'
  BY <1>1, <1>2, Ids DEF IInv, PendingOK, Alive, ServerTypeOK, Instances
<1>7. AnswersOK'
  <2>1. ASSUME NEW t \in Threads, NEW j \in thread'[t].tasks PROVE jobs'[j].status \in Claimed
    BY <1>1, <1>2, <2>1 DEF IInv, AnswersOK
  <2> QED BY <1>1, <2>1 DEF IInv, AnswersOK
<1>8. PhaseOK'
  BY <1>1, Ids DEF IInv, PhaseOK, ServerTypeOK
<1> QED BY <1>3, <1>4, <1>5, <1>6, <1>7, <1>8 DEF IInv

LEMMA WorkerThrowsKeeps == ASSUME IInv, NEW i \in Instances, WorkerThrows(i) PROVE IInv'
<1>1. /\ loop[i] = "worker" /\ loop' = [loop EXCEPT ![i] = "report"]
      /\ UNCHANGED <<jobs, mine, worker, awaited, pending, thread, ready, events, retry, polling, stopping, phase>>
  BY DEF WorkerThrows, Set, bridge
<1>2. ServerTypeOK'
  <2>1. faults' \in Nat
    BY DEF WorkerThrows, Fault, IInv, ServerTypeOK
  <2> QED BY <1>1, <2>1 DEF IInv, ServerTypeOK, HoldsJob
<1>3. MineOK'
  BY <1>1 DEF IInv, MineOK, HoldsJob, ServerTypeOK
<1>4. MainOK'
  BY <1>1, Ids DEF IInv, MainOK, HoldsJob, ServerTypeOK
<1>5. PendingOK'
  BY <1>1 DEF IInv, PendingOK, Alive, ServerTypeOK
<1>6. AnswersOK'
  BY <1>1, SameJobs, AnswersStay DEF IInv
<1>7. PhaseOK'
  BY <1>1, Ids DEF IInv, PhaseOK, ServerTypeOK
<1> QED BY <1>2, <1>3, <1>4, <1>5, <1>6, <1>7 DEF IInv

LEMMA DispatchKeeps == ASSUME IInv, NEW i \in Instances, Dispatch(i) PROVE IInv'
<1> DEFINE t == awaited[i]
<1>1. /\ loop[i] = "ready" /\ loop' = [loop EXCEPT ![i] = "posted"]
      /\ pending' = [pending EXCEPT ![i] = TRUE] /\ Alive(i)
      /\ UNCHANGED <<jobs, mine, worker, awaited, ready, events, retry, polling, stopping, phase, faults>>
  BY DEF Dispatch, Set
<1>2. mine[i] \in JobIds /\ jobs[mine[i]].status \in Claimed
  BY <1>1 DEF IInv, MineOK, HoldsJob
<1>3. /\ thread' \in [Threads -> ThreadType]
      /\ \A u \in Threads : /\ thread'[u].state = thread[u].state
                            /\ thread'[u].tasks \subseteq thread[u].tasks \cup {mine[i]}
  <2>1. CASE thread' = thread
    BY <2>1 DEF IInv, ServerTypeOK
  <2>2. CASE thread' = [thread EXCEPT ![t].tasks = @ \cup {mine[i]}]
    <3> thread \in [Threads -> ThreadType]
      BY DEF IInv, ServerTypeOK
    <3> HIDE DEF t
    <3>1. ASSUME t \in Threads
          PROVE  /\ thread[t] \in ThreadType
                 /\ thread' = [thread EXCEPT ![t] = [thread[t] EXCEPT !.tasks = @ \cup {mine[i]}]]
                 /\ [thread[t] EXCEPT !.tasks = @ \cup {mine[i]}] \in ThreadType
      BY <1>2, <2>2, <3>1 DEF ThreadType
    <3>2. CASE t \in Threads
      BY <3>1, <3>2 DEF ThreadType
    <3>3. CASE t \notin Threads
      BY <2>2, <3>3
    <3> QED BY <3>2, <3>3
  <2> QED BY <2>1, <2>2 DEF Dispatch
<1> HIDE DEF t
<1>4. ServerTypeOK'
  BY <1>1, <1>3 DEF IInv, ServerTypeOK, HoldsJob
<1>5. MineOK'
  BY <1>1 DEF IInv, MineOK, HoldsJob, ServerTypeOK
<1>6. MainOK'
  BY <1>1, Ids DEF IInv, MainOK, HoldsJob, ServerTypeOK
<1>7. PendingOK'
  <2>1. i = Main \/ thread[i].state # "unused"
    BY <1>1 DEF Alive
  <2>2. \A k \in Instances : k # Main => k \in Threads
    BY Ids DEF Instances
  <2> QED BY <1>1, <1>3, <2>1, <2>2 DEF IInv, PendingOK, Alive, ServerTypeOK
<1>8. AnswersOK'
  BY <1>1, <1>2, <1>3 DEF IInv, AnswersOK
<1>9. PhaseOK'
  BY <1>1, Ids DEF IInv, PhaseOK, ServerTypeOK
<1> QED BY <1>4, <1>5, <1>6, <1>7, <1>8, <1>9 DEF IInv

\* What giving up a thread keeps: no answer is invented, no task given.
LEMMA GivenUp ==
  ASSUME IInv, NEW i \in Instances, NEW t \in Threads \cup {NoThread}, GiveUpThread(i, t),
         loop[i] \in HoldsJob
  PROVE  /\ worker' \in [Instances -> Threads \cup {NoThread}]
         /\ thread' \in [Threads -> ThreadType]
         /\ events' \in [Threads -> Seq(Event)]
         /\ loop' \in [Instances -> {"none", "claim"} \cup HoldsJob]
         /\ loop'[i] = "report"
         /\ \A k \in Instances \ {i} : loop'[k] = IF k \in Below(t) THEN "none" ELSE loop[k]
         /\ \A u \in Threads :
              /\ thread'[u].tasks \subseteq thread[u].tasks
              /\ thread'[u].state = "unused" <=> thread[u].state = "unused"
              /\ thread'[u].state \in {"starting", "up"} =>
                   u \notin Below(t) /\ thread[u].state \in {"starting", "up"}
              /\ \A n \in DOMAIN events'[u] :
                   events'[u][n].type = "result" => n \in DOMAIN events[u] /\ events'[u][n] = events[u][n]
<1> ServerTypeOK
  BY DEF IInv
<1>1. worker' \in [Instances -> Threads \cup {NoThread}]
  BY DEF GiveUpThread, Forgotten, Set, ServerTypeOK
<1>2. loop' = [LoopsEnded(loop, t) EXCEPT ![i] = "report"]
  BY DEF GiveUpThread, Set
<1>3. /\ loop' \in [Instances -> {"none", "claim"} \cup HoldsJob] /\ loop'[i] = "report"
      /\ \A k \in Instances \ {i} : loop'[k] = IF k \in Below(t) THEN "none" ELSE loop[k]
  BY <1>2, EndedLoops DEF HoldsJob
<1>4. thread' = Ended(t)
  BY DEF GiveUpThread
<1>5. /\ events' \in [Threads -> Seq(Event)]
      /\ \A u \in Threads : \A n \in DOMAIN events'[u] :
           events'[u][n].type = "result" => n \in DOMAIN events[u] /\ events'[u][n] = events[u][n]
  <2>1. CASE events' = events
    BY <2>1 DEF ServerTypeOK
  <2>2. CASE events' = Emit(t, <<[type |-> "exit", code |-> 1]>>)
    <3> DEFINE list == <<[type |-> "exit", code |-> 1]>>
    <3>1. list \in Seq(Event) /\ DOMAIN list = {1} /\ list[1].type # "result"
      BY DEF Event
    <3>2. CASE t \in Threads
      <4>1. events' = Emit(t, list)
        BY <2>2
      <4> HIDE DEF list
      <4>2. /\ Emit(t, list) \in [Threads -> Seq(Event)]
            /\ \A u \in Threads : \A n \in DOMAIN Emit(t, list)[u] :
                 \/ n \in DOMAIN events[u] /\ Emit(t, list)[u][n] = events[u][n]
                 \/ \E m \in DOMAIN list : Emit(t, list)[u][n] = list[m]
        BY <3>1, <3>2, Emitted
      <4> QED BY <4>1, <4>2, <3>1
    <3>3. CASE t \notin Threads
      BY <2>2, <3>3 DEF Emit, ServerTypeOK
    <3> QED BY <3>2, <3>3
  <2> QED BY <2>1, <2>2 DEF GiveUpThread, Terminated
<1> QED BY <1>1, <1>3, <1>4, <1>5, EndedThreads

\* The parts of the invariant that an instance giving up on a thread leaves
\* true, for the two reasons it does so.
LEMMA GiveUpKeeps == ASSUME IInv, NEW i \in Instances, NotReady(i) \/ ExecutionTimeout(i) PROVE IInv'
<1> DEFINE t == awaited[i]
<1>1. /\ loop[i] \in HoldsJob /\ Alive(i) /\ GiveUpThread(i, t)
      /\ UNCHANGED <<jobs, mine, awaited, ready, retry, polling, stopping, phase>>
      /\ faults' = faults \/ faults' = faults + 1
  BY DEF NotReady, ExecutionTimeout, HoldsJob, Fault
<1>2. t \in Threads \cup {NoThread}
  BY DEF IInv, ServerTypeOK
<1>3. pending' \in [Instances -> BOOLEAN] /\ ~pending'[i] /\ \A k \in Instances : pending'[k] => pending[k]
  <2>1. CASE NotReady(i)
    BY <2>1 DEF NotReady, IInv, ServerTypeOK, PendingOK
  <2>2. CASE ExecutionTimeout(i)
    BY <2>2 DEF ExecutionTimeout, Set, IInv, ServerTypeOK
  <2> QED BY <2>1, <2>2
<1> HIDE DEF t
<1>4. /\ worker' \in [Instances -> Threads \cup {NoThread}]
      /\ thread' \in [Threads -> ThreadType]
      /\ events' \in [Threads -> Seq(Event)]
      /\ loop' \in [Instances -> {"none", "claim"} \cup HoldsJob]
      /\ loop'[i] = "report"
      /\ \A k \in Instances \ {i} : loop'[k] = IF k \in Below(t) THEN "none" ELSE loop[k]
  BY <1>1, <1>2, GivenUp
<1>5. \A u \in Threads :
        /\ thread'[u].tasks \subseteq thread[u].tasks
        /\ thread'[u].state = "unused" <=> thread[u].state = "unused"
        /\ thread'[u].state \in {"starting", "up"} =>
             u \notin Below(t) /\ thread[u].state \in {"starting", "up"}
        /\ \A n \in DOMAIN events'[u] :
             events'[u][n].type = "result" => n \in DOMAIN events[u] /\ events'[u][n] = events[u][n]
  BY <1>1, <1>2, GivenUp
<1>6. Main \notin Below(t)
  BY BelowThreads, Ids
<1>7. ServerTypeOK'
  BY <1>1, <1>3, <1>4 DEF IInv, ServerTypeOK
<1>8. MineOK'
  BY <1>1, <1>4 DEF IInv, MineOK, HoldsJob
<1>9. MainOK'
  BY <1>1, <1>4, <1>6, Ids DEF IInv, MainOK, HoldsJob
<1>10. PendingOK'
  <2>1. ASSUME NEW k \in Instances, pending'[k]
        PROVE  /\ Alive(k)' => loop'[k] = "posted"
               /\ k = Main \/ thread'[k].state # "unused"
    <3>1. k # i /\ pending[k]
      BY <1>3, <2>1
    <3>2. CASE k = Main
      BY <1>4, <1>6, <3>1, <3>2 DEF IInv, PendingOK, Alive
    <3>3. CASE k \in Threads
      <4>1. k # Main
        BY <3>3, Ids
      <4>2. thread'[k].state # "unused"
        BY <1>5, <3>1, <3>3, <4>1 DEF IInv, PendingOK
      <4>3. Alive(k)' => k \notin Below(t) /\ Alive(k)
        BY <1>5, <3>3, <4>1 DEF Alive
      <4> QED BY <1>4, <3>1, <4>2, <4>3 DEF IInv, PendingOK
    <3> QED BY <3>2, <3>3 DEF Instances
  <2> QED BY <2>1 DEF PendingOK, Alive
<1>11. AnswersOK'
  <2>1. ASSUME NEW u \in Threads, NEW j \in thread'[u].tasks PROVE jobs'[j].status \in Claimed
    BY <1>1, <1>5 DEF IInv, AnswersOK
  <2>2. ASSUME NEW u \in Threads, NEW n \in DOMAIN events'[u],
               events'[u][n].type = "result", events'[u][n].ok
        PROVE  jobs'[events'[u][n].job].status \in Over
    <3>1. n \in DOMAIN events[u] /\ events'[u][n] = events[u][n]
      BY <1>5, <2>2
    <3> QED BY <1>1, <2>2, <3>1 DEF IInv, AnswersOK
  <2> QED BY <2>1, <2>2 DEF AnswersOK
<1>12. PhaseOK'
  BY <1>1, <1>4, <1>6, Ids DEF IInv, PhaseOK, HoldsJob
<1> QED BY <1>7, <1>8, <1>9, <1>10, <1>11, <1>12 DEF IInv

LEMMA ReportKeeps == ASSUME IInv, NEW i \in Instances, Report(i) \/ ReportFails(i) PROVE IInv'
<1>1. /\ loop[i] = "report" /\ Alive(i)
      /\ loop' = [loop EXCEPT ![i] = "claim"]
      /\ mine' = [mine EXCEPT ![i] = NoJob] /\ awaited' = [awaited EXCEPT ![i] = NoThread]
      /\ UNCHANGED <<worker, pending, thread, ready, events, retry, polling, stopping, phase>>
      /\ faults' = faults \/ faults' = faults + 1
  BY DEF Report, ReportFails, NextJob, Set, Fault
<1>2. mine[i] \in JobIds /\ jobs[mine[i]].status \in Claimed
  BY <1>1 DEF IInv, MineOK, HoldsJob
<1>3. /\ jobs' \in [JobIds -> JobType]
      /\ \A j \in JobIds : /\ j # mine[i] => jobs'[j] = jobs[j]
                           /\ jobs'[j] = jobs[j] \/ jobs'[j].status \in Over
                           /\ j = mine[i] /\ jobs[j].by = i => jobs'[j].status # "running"
  <2>1. jobs \in [JobIds -> JobType] /\ jobs[mine[i]] \in JobType /\ Main \in Instances
    BY <1>2, Ids DEF IInv, ServerTypeOK
  <2>2. CASE jobs[mine[i]].status # "running" \/ (Report(i) /\ jobs[mine[i]].by # i)
    <3>1. jobs' = jobs
      BY <1>2, <2>1, <2>2 DEF Report, ReportFails, JobType
    <3> QED BY <2>1, <2>2, <3>1, <1>1 DEF Report, ReportFails
  <2>3. CASE jobs[mine[i]].status = "running" /\ (ReportFails(i) \/ jobs[mine[i]].by = i)
    <3>1. PICK status \in Over, by \in Instances :
            jobs' = [jobs EXCEPT ![mine[i]] = [jobs[mine[i]] EXCEPT !.status = status, !.by = by]]
      <4>1. CASE Report(i) /\ jobs[mine[i]].by = i
        <5>1. jobs' = [jobs EXCEPT ![mine[i]] = [jobs[mine[i]] EXCEPT !.status = "failed", !.by = Main]]
          BY <2>1, <2>3, <4>1 DEF Report, Settled
        <5>2. "failed" \in Over
          BY DEF Over
        <5> QED BY <5>1, <5>2, <2>1
      <4>2. CASE ReportFails(i)
        <5>1. jobs[mine[i]].by \in Instances
          BY <2>1 DEF JobType
        <5>2. jobs' = [jobs EXCEPT ![mine[i]] = [jobs[mine[i]] EXCEPT !.status = "lost"]]
          BY <2>1, <2>3, <4>2 DEF ReportFails
        <5>3. [jobs[mine[i]] EXCEPT !.status = "lost"]
                = [jobs[mine[i]] EXCEPT !.status = "lost", !.by = jobs[mine[i]].by]
          BY <2>1 DEF JobType
        <5> QED BY <5>1, <5>2, <5>3 DEF Over
      <4> QED BY <4>1, <4>2, <2>3
    <3>2. [jobs[mine[i]] EXCEPT !.status = status, !.by = by] \in JobType
      BY <2>1 DEF JobType
    <3> DEFINE row == [jobs[mine[i]] EXCEPT !.status = status, !.by = by]
    <3>3. row.status = status
      BY <2>1 DEF JobType
    <3> HIDE DEF row
    <3>4. row \in JobType /\ jobs' = [jobs EXCEPT ![mine[i]] = row]
      BY <3>1, <3>2 DEF row
    <3>5. /\ jobs' \in [JobIds -> JobType]
          /\ \A j \in JobIds : jobs'[j] = IF j = mine[i] THEN row ELSE jobs[j]
      BY <2>1, <3>4
    <3>6. row.status \in Over /\ row.status # "running"
      BY <3>3 DEF Over
    <3> QED BY <3>5, <3>6
  <2> QED BY <2>2, <2>3
<1>4. JobsAdvance
  BY <1>3 DEF JobsAdvance, Claimed
<1>5. ServerTypeOK'
  BY <1>1, <1>3 DEF IInv, ServerTypeOK
<1>6. MineOK'
  BY <1>1, <1>4 DEF IInv, MineOK, HoldsJob, ServerTypeOK, JobsAdvance
<1>7. MainOK'
  BY <1>1, <1>3, Ids DEF IInv, MainOK, HoldsJob, ServerTypeOK, Over
<1>8. PendingOK'
  BY <1>1 DEF IInv, PendingOK, Alive, ServerTypeOK
<1>9. AnswersOK'
  BY <1>1, <1>4, AnswersStay DEF IInv
<1>10. PhaseOK'
  BY <1>1, Ids DEF IInv, PhaseOK, ServerTypeOK
<1> QED BY <1>5, <1>6, <1>7, <1>8, <1>9, <1>10 DEF IInv

\* An answer that ends the wait with success names the job that was waited for,
\* and that job is over.
LEMMA AnswerIsTrue ==
  ASSUME IInv, NEW t \in Threads, NEW i \in Instances, events[t] # <<>>,
         Head(events[t]).type = "result", Head(events[t]).ok, Answers(Head(events[t]), i)
  PROVE  jobs[mine[i]].status \in Over
<1>1. events[t] \in Seq(Event) /\ 1 \in DOMAIN events[t] /\ events[t][1] = Head(events[t])
  BY DEF IInv, ServerTypeOK
<1> QED BY <1>1 DEF IInv, AnswersOK, Answers

LEMMA HandleKeeps == ASSUME IInv, NEW t \in Threads, Handle(t) PROVE IInv'
<1> DEFINE i == thread[t].parent
           event == Head(events[t])
<1>1. /\ i \in Instances /\ Alive(i)
      /\ events[t] # <<>> /\ events[t] \in Seq(Event) /\ event \in Event
      /\ events' = [events EXCEPT ![t] = Tail(events[t])]
      /\ UNCHANGED <<jobs, thread, retry, polling, stopping, phase, faults>>
  BY DEF Handle, Set, IInv, ServerTypeOK, ThreadType
<1>2. /\ ready' \in [Threads -> {"open", "ok", "failed"}]
      /\ worker' \in [Instances -> Threads \cup {NoThread}]
  BY DEF Handle, Set, Forgotten, IInv, ServerTypeOK
<1>3. events' \in [Threads -> Seq(Event)]
  BY <1>1 DEF IInv, ServerTypeOK
<1>4. \/ UNCHANGED <<pending, loop, mine, awaited>>
      \/ /\ pending[i] /\ pending' = [pending EXCEPT ![i] = FALSE]
         /\ loop' = [loop EXCEPT ![i] = "report"]
         /\ UNCHANGED <<mine, awaited>>
      \/ /\ pending[i] /\ pending' = [pending EXCEPT ![i] = FALSE]
         /\ loop' = [loop EXCEPT ![i] = "claim"]
         /\ mine' = [mine EXCEPT ![i] = NoJob] /\ awaited' = [awaited EXCEPT ![i] = NoThread]
         /\ event.type = "result" /\ event.ok /\ Answers(event, i)
  BY DEF Handle, Set, NextJob
<1>5. pending[i] => loop[i] = "posted"
  BY <1>1 DEF IInv, PendingOK
<1>6. event.type = "result" /\ event.ok /\ Answers(event, i) => jobs[mine[i]].status \in Over
  BY <1>1, AnswerIsTrue
<1> HIDE DEF i, event
<1>7. ServerTypeOK'
  <2>1. /\ pending' \in [Instances -> BOOLEAN] /\ awaited' \in [Instances -> Threads \cup {NoThread}]
        /\ loop' \in [Instances -> {"none", "claim"} \cup HoldsJob]
        /\ mine' \in [Instances -> JobIds \cup {NoJob}]
    BY <1>1, <1>4 DEF IInv, ServerTypeOK, HoldsJob
  <2> QED BY <1>1, <1>2, <1>3, <2>1 DEF IInv, ServerTypeOK
<1>8. MineOK'
  BY <1>1, <1>4, <1>5 DEF IInv, MineOK, HoldsJob, ServerTypeOK
<1>9. MainOK'
  <2>1. ASSUME NEW j \in JobIds, jobs'[j].status = "running", jobs'[j].by = Main
        PROVE  loop'[Main] \in HoldsJob /\ mine'[Main] = j
    <3>1. loop[Main] \in HoldsJob /\ mine[Main] = j
      BY <1>1, <2>1 DEF IInv, MainOK
    <3>2. jobs[mine[Main]].status \notin Over
      BY <1>1, <2>1, <3>1 DEF Over
    <3> QED BY <1>1, <1>4, <1>6, <3>1, <3>2, Ids DEF IInv, ServerTypeOK, HoldsJob
  <2> QED BY <2>1 DEF MainOK
<1>10. PendingOK'
  BY <1>1, <1>4 DEF IInv, PendingOK, Alive, ServerTypeOK
<1>11. AnswersOK'
  <2>1. ASSUME NEW u \in Threads, NEW n \in DOMAIN events'[u],
               events'[u][n].type = "result", events'[u][n].ok
        PROVE  jobs'[events'[u][n].job].status \in Over
    <3>1. CASE u # t
      BY <1>1, <2>1, <3>1 DEF IInv, AnswersOK, ServerTypeOK
    <3>2. CASE u = t
      <4>1. n + 1 \in DOMAIN events[t] /\ events'[t][n] = events[t][n + 1]
        BY <1>1, <2>1, <3>2 DEF IInv, ServerTypeOK
      <4> QED BY <1>1, <2>1, <3>2, <4>1 DEF IInv, AnswersOK
    <3> QED BY <3>1, <3>2
  <2> QED BY <1>1, <2>1 DEF IInv, AnswersOK
<1>12. PhaseOK'
  BY <1>1, <1>4, <1>5, Ids DEF IInv, PhaseOK, ServerTypeOK
<1> QED BY <1>7, <1>8, <1>9, <1>10, <1>11, <1>12 DEF IInv

LEMMA ThreadStartsKeeps == ASSUME IInv, NEW t \in Threads, ThreadStarts(t) PROVE IInv'
<1>1. /\ thread[t].state = "starting"
      /\ UNCHANGED <<jobs, loop, mine, worker, awaited, pending, ready, retry, polling, stopping, phase, faults>>
  BY DEF ThreadStarts
<1>2. PICK list \in Seq(Event) : /\ events' = Emit(t, list)
                                 /\ \A m \in DOMAIN list : list[m].type # "result"
  <2>1. /\ <<[type |-> "ready"]>> \in Seq(Event)
        /\ \A m \in DOMAIN <<[type |-> "ready"]>> : <<[type |-> "ready"]>>[m].type # "result"
    BY DEF Event
  <2> DEFINE two == <<[type |-> "error"], [type |-> "exit", code |-> 1]>>
  <2>2. /\ two \in Seq(Event) /\ DOMAIN two = {1, 2}
        /\ two[1].type # "result" /\ two[2].type # "result"
    BY DEF Event
  <2>3. events' = Emit(t, two) \/ events' = Emit(t, <<[type |-> "ready"]>>)
    BY DEF ThreadStarts
  <2> HIDE DEF two
  <2> QED BY <2>1, <2>2, <2>3
<1>3. /\ thread' \in [Threads -> ThreadType]
      /\ \A u \in Threads : /\ thread'[u].tasks \subseteq thread[u].tasks
                            /\ thread'[u].state = "unused" <=> thread[u].state = "unused"
                            /\ thread'[u].state \in {"starting", "up"} => thread[u].state \in {"starting", "up"}
  <2>1. CASE thread' = Ended(t)
    BY <2>1, EndedThreads DEF IInv
  <2>2. CASE thread' = [thread EXCEPT ![t].state = "up"]
    BY <1>1, <2>2 DEF IInv, ServerTypeOK, ThreadType
  <2> QED BY <2>1, <2>2 DEF ThreadStarts
<1>4. /\ events' \in [Threads -> Seq(Event)]
      /\ \A u \in Threads : \A n \in DOMAIN events'[u] :
           events'[u][n].type = "result" => n \in DOMAIN events[u] /\ events'[u][n] = events[u][n]
  <2>1. /\ Emit(t, list) \in [Threads -> Seq(Event)]
        /\ \A u \in Threads : \A n \in DOMAIN Emit(t, list)[u] :
             \/ n \in DOMAIN events[u] /\ Emit(t, list)[u][n] = events[u][n]
             \/ \E m \in DOMAIN list : Emit(t, list)[u][n] = list[m]
    BY Emitted DEF IInv
  <2> QED BY <1>2, <2>1
<1>5. ServerTypeOK'
  BY <1>1, <1>3, <1>4 DEF IInv, ServerTypeOK
<1>6. MineOK' /\ MainOK' /\ PhaseOK'
  BY <1>1 DEF IInv, MineOK, MainOK, PhaseOK
<1>7. PendingOK'
  BY <1>1, <1>3 DEF IInv, PendingOK, Alive, Instances
<1>8. AnswersOK'
  BY <1>1, <1>3, <1>4 DEF IInv, AnswersOK
<1> QED BY <1>5, <1>6, <1>7, <1>8 DEF IInv

LEMMA ThreadDiesKeeps == ASSUME IInv, NEW t \in Threads, ThreadDies(t) PROVE IInv'
<1>1. /\ Alive(t) /\ thread' = Ended(t) /\ loop' = LoopsEnded(loop, t)
      /\ UNCHANGED <<jobs, mine, worker, awaited, pending, ready, retry, polling, stopping, phase>>
      /\ faults' = faults + 1
  BY DEF ThreadDies, Fault
<1>2. PICK list \in Seq(Event) : /\ events' = Emit(t, list)
                                 /\ \A m \in DOMAIN list : list[m].type # "result"
  <2> DEFINE one == <<[type |-> "exit", code |-> 0]>>
             two == <<[type |-> "error"], [type |-> "exit", code |-> 1]>>
  <2>1. one \in Seq(Event) /\ DOMAIN one = {1} /\ one[1].type # "result"
    BY DEF Event
  <2>2. /\ two \in Seq(Event) /\ DOMAIN two = {1, 2}
        /\ two[1].type # "result" /\ two[2].type # "result"
    BY DEF Event
  <2>3. events' = Emit(t, two) \/ events' = Emit(t, one)
    BY DEF ThreadDies
  <2> HIDE DEF one, two
  <2> QED BY <2>1, <2>2, <2>3
<1>3. /\ thread' \in [Threads -> ThreadType]
      /\ \A u \in Threads : /\ thread'[u].tasks \subseteq thread[u].tasks
                            /\ thread'[u].state = "unused" <=> thread[u].state = "unused"
                            /\ thread'[u].state \in {"starting", "up"} =>
                                 u \notin Below(t) /\ thread[u].state \in {"starting", "up"}
  BY <1>1, EndedThreads DEF IInv
<1>4. /\ events' \in [Threads -> Seq(Event)]
      /\ \A u \in Threads : \A n \in DOMAIN events'[u] :
           events'[u][n].type = "result" => n \in DOMAIN events[u] /\ events'[u][n] = events[u][n]
  <2>1. /\ Emit(t, list) \in [Threads -> Seq(Event)]
        /\ \A u \in Threads : \A n \in DOMAIN Emit(t, list)[u] :
             \/ n \in DOMAIN events[u] /\ Emit(t, list)[u][n] = events[u][n]
             \/ \E m \in DOMAIN list : Emit(t, list)[u][n] = list[m]
    BY Emitted DEF IInv
  <2> QED BY <1>2, <2>1
<1>5. /\ loop' \in [Instances -> {"none", "claim"} \cup HoldsJob]
      /\ \A k \in Instances : loop'[k] = IF k \in Below(t) THEN "none" ELSE loop[k]
      /\ Main \notin Below(t)
  BY <1>1, EndedLoops, BelowThreads, Ids DEF IInv
<1>6. ServerTypeOK'
  BY <1>1, <1>3, <1>4, <1>5 DEF IInv, ServerTypeOK
<1>7. MineOK' /\ MainOK' /\ PhaseOK'
  BY <1>1, <1>5, Ids DEF IInv, MineOK, MainOK, PhaseOK, HoldsJob
<1>8. PendingOK'
  BY <1>1, <1>3, <1>5, Ids DEF IInv, PendingOK, Alive, Instances
<1>9. AnswersOK'
  BY <1>1, <1>3, <1>4 DEF IInv, AnswersOK
<1> QED BY <1>6, <1>7, <1>8, <1>9 DEF IInv

LEMMA TaskEndsKeeps ==
  ASSUME IInv, NEW t \in Threads, NEW j \in JobIds, TaskEnds(t, j) PROVE IInv'
<1> DEFINE held == jobs[j].status = "running"
<1>1. /\ j \in thread[t].tasks /\ jobs[j].status \in Claimed
      /\ thread' = [thread EXCEPT ![t].tasks = @ \ {j}]
      /\ UNCHANGED <<mine, worker, awaited, pending, ready, retry, polling, stopping, phase, faults>>
  BY DEF TaskEnds, IInv, AnswersOK
<1>2. /\ loop' \in [Instances -> {"none", "claim"} \cup HoldsJob]
      /\ \A k \in Instances : \/ loop'[k] = loop[k]
                              \/ loop[k] = "none" /\ loop'[k] = "claim" /\ (k = Main => ~stopping)
  <2>1. loop' = loop \/ loop' = Kicked(t)
    BY DEF TaskEnds
  <2>2. CASE loop' = loop
    BY <2>2 DEF IInv, ServerTypeOK
  <2>3. CASE loop' = Kicked(t)
    BY <2>3, KickedLoops, Ids DEF IInv
  <2> QED BY <2>1, <2>2, <2>3
<1>3. PICK ok \in BOOLEAN :
        LET ended == IF held THEN Settled(jobs, j, IF ok THEN "done" ELSE "failed") ELSE jobs
        IN /\ jobs' = ended \/ (HasRoom /\ jobs' = Queued(ended, "analyze"))
           /\ events' = Emit(t, <<[type |-> "result", job |-> j, ok |-> ok \/ ~held]>>)
  BY DEF TaskEnds
<1> DEFINE ended == IF held THEN Settled(jobs, j, IF ok THEN "done" ELSE "failed") ELSE jobs
<1>4. /\ ended \in [JobIds -> JobType] /\ ended[j].status \in Over
      /\ \A k \in JobIds : k # j => ended[k] = jobs[k]
  <2>1. jobs \in [JobIds -> JobType] /\ Main \in Instances
    BY Ids DEF IInv, ServerTypeOK
  <2>2. CASE held
    <3>1. PICK status \in {"done", "failed"} : ended = Settled(jobs, j, status)
      BY <2>2
    <3>2. status \in Claimed /\ status \in Over
      BY <3>1 DEF Claimed, Over
    <3>3. LET written == Written(jobs, j, status, Main)
          IN  /\ written \in [JobIds -> JobType] /\ written[j].status = status
              /\ \A k \in JobIds : k # j => written[k] = jobs[k]
      <4> HIDE DEF ended, held
      <4> QED BY <2>1, <3>2, RowWritten
    <3> HIDE DEF ended
    <3> QED BY <3>1, <3>2, <3>3 DEF Settled, Written
  <2>3. CASE ~held
    BY <1>1, <2>1, <2>3 DEF Claimed
  <2> QED BY <2>2, <2>3
<1>5. /\ jobs' \in [JobIds -> JobType] /\ jobs'[j].status \in Over
      /\ \A k \in JobIds : k # j => \/ jobs'[k] = jobs[k]
                                    \/ jobs[k].status = "none" /\ jobs'[k].status = "queued"
  <2>1. CASE jobs' = ended
    BY <1>4, <2>1
  <2>2. CASE HasRoom /\ jobs' = Queued(ended, "analyze")
    <3>1. NewJob \in JobIds /\ jobs[NewJob].status = "none" /\ NewJob # j /\ Main \in Instances
      BY <1>1, <2>2, NewJobIsNew, Ids DEF Claimed, Over
    <3> HIDE DEF ended
    <3> QED BY <1>4, <2>2, <3>1 DEF Queued, JobType
  <2> QED BY <1>3, <2>1, <2>2
<1>6. JobsAdvance
  BY <1>1, <1>5 DEF JobsAdvance, Claimed, Over
<1> DEFINE answer == [type |-> "result", job |-> j, ok |-> ok \/ ~held]
<1>7. answer \in Event /\ answer.job = j
  BY DEF Event
<1>8. PICK list \in Seq(Event) : events' = Emit(t, list) /\ \A m \in DOMAIN list : list[m] = answer
  <2>1. <<answer>> \in Seq(Event) /\ \A m \in DOMAIN <<answer>> : <<answer>>[m] = answer
    BY <1>7
  <2>2. events' = Emit(t, <<answer>>)
    BY <1>3
  <2> HIDE DEF answer
  <2> QED BY <2>1, <2>2
<1> HIDE DEF held, ended, answer
<1>9. /\ events' \in [Threads -> Seq(Event)]
      /\ \A u \in Threads : \A n \in DOMAIN events'[u] :
           \/ n \in DOMAIN events[u] /\ events'[u][n] = events[u][n]
           \/ events'[u][n] = answer
  <2>1. /\ Emit(t, list) \in [Threads -> Seq(Event)]
        /\ \A u \in Threads : \A n \in DOMAIN Emit(t, list)[u] :
             \/ n \in DOMAIN events[u] /\ Emit(t, list)[u][n] = events[u][n]
             \/ \E m \in DOMAIN list : Emit(t, list)[u][n] = list[m]
    BY Emitted DEF IInv
  <2> QED BY <1>8, <2>1
<1>10. /\ thread' \in [Threads -> ThreadType]
      /\ \A u \in Threads : thread'[u].tasks \subseteq thread[u].tasks /\ thread'[u].state = thread[u].state
  <2>1. thread \in [Threads -> ThreadType] /\ thread[t].tasks \subseteq JobIds
    BY DEF IInv, ServerTypeOK, ThreadType
  <2>2. [thread[t] EXCEPT !.tasks = @ \ {j}] \in ThreadType
    BY <2>1 DEF ThreadType
  <2> QED BY <1>1, <2>1, <2>2 DEF ThreadType
<1>11. ServerTypeOK'
  BY <1>1, <1>2, <1>5, <1>9, <1>10 DEF IInv, ServerTypeOK
<1>12. MineOK'
  BY <1>1, <1>2, <1>6 DEF IInv, MineOK, HoldsJob, JobsAdvance
<1>13. MainOK'
  <2>1. \A k \in JobIds : jobs'[k].status = "running" => jobs'[k] = jobs[k]
    BY <1>5 DEF Over
  <2>2. loop[Main] \in HoldsJob => loop'[Main] = loop[Main]
    BY <1>2, Ids DEF HoldsJob
  <2> QED BY <1>1, <2>1, <2>2 DEF IInv, MainOK
<1>14. PendingOK'
  BY <1>1, <1>2, <1>10 DEF IInv, PendingOK, Alive, Instances
<1>15. AnswersOK'
  <2>1. ASSUME NEW u \in Threads, NEW k \in thread'[u].tasks PROVE jobs'[k].status \in Claimed
    <3>1. k \in thread[u].tasks /\ k \in JobIds
      BY <1>10, <2>1 DEF ThreadType
    <3> QED BY <1>6, <3>1 DEF IInv, AnswersOK, JobsAdvance
  <2>2. ASSUME NEW u \in Threads, NEW n \in DOMAIN events'[u],
               events'[u][n].type = "result", events'[u][n].ok
        PROVE  jobs'[events'[u][n].job].status \in Over
    <3>1. CASE events'[u][n] = answer
      BY <1>5, <1>7, <3>1
    <3>2. CASE n \in DOMAIN events[u] /\ events'[u][n] = events[u][n]
      <4>1. events[u][n] \in Event
        BY <3>2 DEF IInv, ServerTypeOK
      <4>2. events[u][n].job \in JobIds
        BY <4>1, <3>2, <2>2 DEF Event
      <4> QED BY <1>6, <2>2, <3>2, <4>2 DEF IInv, AnswersOK, JobsAdvance
    <3> QED BY <1>9, <3>1, <3>2
  <2> QED BY <2>1, <2>2 DEF AnswersOK
<1>16. PhaseOK'
  BY <1>1, <1>2, Ids DEF IInv, PhaseOK
<1> QED BY <1>11, <1>12, <1>13, <1>14, <1>15, <1>16 DEF IInv

-----------------------------------------------------------------------------
(***************************************************************************)
(* The invariant, and what it says of the shutdown and of answers.         *)
(***************************************************************************)
LEMMA InitIInv == ServerInit => IInv
<1> SUFFICES ASSUME ServerInit PROVE IInv
  OBVIOUS
<1>1. ServerTypeOK
  <2>1. NoRow \in JobType /\ NoTask \in ThreadType /\ <<>> \in Seq(Event)
    BY Ids DEF JobType, NoRow, ThreadType, NoTask
  <2> QED BY <2>1, Ids DEF ServerInit, ServerTypeOK
<1>2. MineOK /\ MainOK /\ PendingOK /\ PhaseOK
  BY Ids DEF ServerInit, MineOK, MainOK, PendingOK, PhaseOK, HoldsJob, NoRow
<1>3. AnswersOK
  BY DEF ServerInit, AnswersOK, NoTask
<1> QED BY <1>1, <1>2, <1>3 DEF IInv

LEMMA NextIInv == IInv /\ [ServerNext]_serverVars => IInv'
<1> SUFFICES ASSUME IInv, [ServerNext]_serverVars PROVE IInv'
  OBVIOUS
<1>1. CASE UNCHANGED serverVars
  BY <1>1 DEF serverVars, bridge, IInv, ServerTypeOK, MineOK, MainOK, PendingOK, AnswersOK, PhaseOK, Alive
<1>2. CASE Enqueue(TRUE) \/ Enqueue(FALSE)
  BY <1>2, EnqueueKeeps
<1>3. CASE Poll
  BY <1>3, PollKeeps
<1>4. ASSUME NEW i \in Instances, Scheduling(i) \/ ClaimFails(i) PROVE IInv'
  BY <1>4, RetryTimerKeeps, ClaimJobKeeps, LoopEndsKeeps DEF Scheduling
<1>5. ASSUME NEW i \in Instances, Bridging(i) \/ WorkerThrows(i) \/ ReportFails(i) PROVE IInv'
  BY <1>5, GetWorkerKeeps, DispatchKeeps, GiveUpKeeps, ReportKeeps, WorkerThrowsKeeps DEF Bridging
<1>6. ASSUME NEW t \in Threads, Working(t) \/ ThreadDies(t) PROVE IInv'
  BY <1>6, HandleKeeps, ThreadStartsKeeps, TaskEndsKeeps, ThreadDiesKeeps DEF Working
<1>7. CASE Signal \/ HttpCloses \/ ShutdownStep \/ ShutdownTimeout
  BY <1>7, ShutdownKeeps
<1> QED BY <1>1, <1>2, <1>3, <1>4, <1>5, <1>6, <1>7 DEF ServerNext

LEMMA Invariance == ServerSpec => []IInv
<1> QED BY InitIInv, NextIInv, PTL DEF ServerSpec

\* A process that exits cleanly leaves no job its loop has claimed: the main
\* thread waits for the loop, the loop holds whatever the main thread has
\* claimed, and nothing wakes it once polling has stopped
\* (stopProjectJobWorkerScheduler, waitForProjectJobWorkerIdle).
THEOREM CleanExits == ServerSpec => []CleanExitLeavesNoJob
<1>1. IInv => CleanExitLeavesNoJob
  BY DEF IInv, PhaseOK, MainOK, HoldsJob, CleanExitLeavesNoJob
<1> QED BY <1>1, Invariance, PTL

\* A loop that waits for an answer goes on to the next claim in one way: its
\* answer has come, and says yes.
LEMMA OnlyAnswersResolve ==
  ASSUME IInv, ServerNext, NEW i \in Instances, loop[i] = "posted", loop'[i] = "claim"
  PROVE  jobs[mine[i]].status # "running"
<1> ServerTypeOK /\ loop \in [Instances -> {"none", "claim"} \cup HoldsJob]
  BY DEF IInv, ServerTypeOK
<1>1. ~(Enqueue(TRUE) \/ Enqueue(FALSE) \/ Poll)
  BY KickedLoops, Ids DEF Enqueue, Poll
<1>2. ASSUME NEW k \in Instances PROVE ~(Scheduling(k) \/ ClaimFails(k))
  BY KickedLoops DEF Scheduling, RetryTimer, ClaimJob, QueueEmpty, ClaimFails, Set, LoopCleared
<1>3. ASSUME NEW k \in Instances
      PROVE  ~(GetWorker(k) \/ Dispatch(k) \/ Report(k) \/ WorkerThrows(k) \/ ReportFails(k))
  BY DEF GetWorker, Dispatch, Report, WorkerThrows, ReportFails, NextJob, Set
<1>4. ASSUME NEW k \in Instances PROVE ~(NotReady(k) \/ ExecutionTimeout(k))
  <2> SUFFICES ASSUME NotReady(k) \/ ExecutionTimeout(k) PROVE FALSE
    OBVIOUS
  <2>1. loop[k] \in HoldsJob /\ GiveUpThread(k, awaited[k]) /\ awaited[k] \in Threads \cup {NoThread}
    BY DEF NotReady, ExecutionTimeout, HoldsJob, ServerTypeOK
  <2>2. /\ loop'[k] = "report"
        /\ \A m \in Instances \ {k} : loop'[m] = IF m \in Below(awaited[k]) THEN "none" ELSE loop[m]
    BY <2>1, GivenUp
  <2> QED BY <2>2
<1>5. ASSUME NEW t \in Threads PROVE ~(ThreadStarts(t) \/ ThreadDies(t) \/ \E j \in JobIds : TaskEnds(t, j))
  <2>1. Kicked(t)[i] # "claim" /\ LoopsEnded(loop, t)[i] # "claim"
    BY KickedLoops, EndedLoops, Ids
  <2> QED BY <2>1 DEF ThreadStarts, ThreadDies, TaskEnds
<1>6. ~(Signal \/ HttpCloses \/ ShutdownStep \/ ShutdownTimeout)
  BY DEF Signal, HttpCloses, ShutdownStep, ShutdownTimeout
<1>7. PICK t \in Threads : Handle(t)
  BY <1>1, <1>2, <1>3, <1>4, <1>5, <1>6 DEF ServerNext, Bridging, Working
<1>8. /\ events[t] # <<>> /\ Head(events[t]).type = "result" /\ Head(events[t]).ok
      /\ Answers(Head(events[t]), i)
  BY <1>7 DEF Handle, Set, NextJob, IInv, ServerTypeOK, ThreadType
<1> QED BY <1>8, AnswerIsTrue DEF Over

\* A request is resolved only by the answer to it, so the loop goes on to the
\* next job when the last one has ended (pendingRequests in jobWorker.ts).
THEOREM ResolvedAnswers == ServerSpec => ResolvedJobsHaveEnded
<1> DEFINE Resolves == \A i \in Instances : loop[i] = "posted" /\ loop'[i] = "claim"
                         => jobs[mine[i]].status # "running"
<1>1. IInv /\ [ServerNext]_serverVars => [Resolves]_serverVars
  BY OnlyAnswersResolve
<1> QED BY <1>1, Invariance, PTL DEF ServerSpec, ResolvedJobsHaveEnded
=============================================================================
