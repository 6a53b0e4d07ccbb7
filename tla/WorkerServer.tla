----------------------------- MODULE WorkerServer -----------------------------
(***************************************************************************)
(* One server process: the scheduler loop that drains the job queue, the   *)
(* bridge to the worker thread a job runs in, and the graceful shutdown.   *)
(*                                                                         *)
(* A thread loads the same modules as the main thread, so each has a       *)
(* scheduler and a bridge of its own, and a thread that has imported a     *)
(* project wakes its own scheduler.  Instances are the main thread and the *)
(* threads.  Leases and attempts are ProjectWorkflow's; here a job is      *)
(* claimed once.                                                           *)
(***************************************************************************)
EXTENDS Naturals, Sequences

CONSTANTS MaxJobs,      \* bound on the jobs
          MaxThreads,   \* bound on the threads started
          NestedStarts, \* does a thread find the file of the thread module?
          FaultKinds,   \* the faults that may happen ...
          MaxFaults     \* ... and the bound on their number

ASSUME ServerConstants ==
  /\ MaxJobs \in Nat /\ MaxThreads \in Nat /\ MaxFaults \in Nat
  /\ NestedStarts \in BOOLEAN
  /\ FaultKinds \subseteq {"crash", "exit", "statement", "start", "timeout"}

JobIds    == 1..MaxJobs
Threads   == 1..MaxThreads
Main      == 0
Instances == {Main} \cup Threads
NoThread  == MaxThreads + 1
NoJob     == 0

VARIABLES
  jobs,     \* a row of the queue: its type, status and the instance that claimed it
  loop,     \* where the scheduler loop of an instance is
  mine,     \* the job it has claimed
  worker,   \* workerState of its bridge
  awaited,  \* the thread that getWorker returned
  pending,  \* is its request among pendingRequests?
  retry,    \* is its retry timer set?
  thread,   \* a thread: its state, the instance that started it, its tasks
  ready,    \* the promise its starter waits for
  events,   \* what it has emitted and its starter has not handled
  polling,  \* is the poll timer of the main thread set?
  stopping, \* projectJobWorkerSchedulerShutdown of the main thread
  phase,    \* of the process: up, its shutdown, and how it has exited
  faults

bridge     == <<worker, awaited, pending, thread, ready, events>>
serverVars == <<jobs, loop, mine, bridge, retry, polling, stopping, phase, faults>>

NoRow    == [type |-> "import", status |-> "none", by |-> Main]
NoTask   == [state |-> "unused", parent |-> Main, tasks |-> {}]
Exits    == {"clean", "forced"}
IsUp     == phase \notin Exits
Alive(i) == IF i = Main THEN TRUE ELSE thread[i].state \in {"starting", "up"}
Set(fun, i, value) == [fun EXCEPT ![i] = value]
Fault(kind) == kind \in FaultKinds /\ faults < MaxFaults /\ faults' = faults + 1

ServerInit ==
  /\ jobs = [j \in JobIds |-> NoRow]
  /\ loop = [i \in Instances |-> "none"]
  /\ mine = [i \in Instances |-> NoJob]
  /\ worker = [i \in Instances |-> NoThread]
  /\ awaited = [i \in Instances |-> NoThread]
  /\ pending = [i \in Instances |-> FALSE]
  /\ retry = [i \in Instances |-> FALSE]
  /\ thread = [t \in Threads |-> NoTask]
  /\ ready = [t \in Threads |-> "open"]
  /\ events = [t \in Threads |-> <<>>]
  /\ polling = TRUE /\ stopping = FALSE /\ phase = "up" /\ faults = 0

-----------------------------------------------------------------------------
(***************************************************************************)
(* The scheduler.                                                          *)
(***************************************************************************)
\* kickProjectJobWorker: nothing when the loop runs or polling was stopped.
Kicked(i) == IF loop[i] = "none" /\ ~(i = Main /\ stopping) THEN Set(loop, i, "claim") ELSE loop

NewJob == CHOOSE j \in JobIds : jobs[j].status = "none" /\ \A k \in 1..(j - 1) : jobs[k].status # "none"
HasRoom == \E j \in JobIds : jobs[j].status = "none"
Queued(rows, type) == [rows EXCEPT ![NewJob] = [type |-> type, status |-> "queued", by |-> Main]]

\* A request enqueues a job, here or in another process, which does not kick.
Enqueue(here) ==
  /\ HasRoom /\ phase = "up"
  /\ \E type \in {"import", "analyze"} : jobs' = Queued(jobs, type)
  /\ loop' = IF here THEN Kicked(Main) ELSE loop
  /\ UNCHANGED <<mine, bridge, retry, polling, stopping, phase, faults>>

Poll ==
  /\ polling /\ IsUp
  /\ loop' = Kicked(Main)
  /\ UNCHANGED <<jobs, mine, bridge, retry, polling, stopping, phase, faults>>

RetryTimer(i) ==
  /\ retry[i] /\ Alive(i) /\ IsUp
  /\ retry' = Set(retry, i, FALSE)
  /\ loop' = Kicked(i)
  /\ UNCHANGED <<jobs, mine, bridge, polling, stopping, phase, faults>>

ClaimJob(i) ==
  /\ loop[i] = "claim" /\ Alive(i) /\ IsUp
  /\ \E j \in JobIds :
       /\ jobs[j].status = "queued"
       /\ jobs' = [jobs EXCEPT ![j].status = "running", ![j].by = i]
       /\ mine' = Set(mine, i, j)
  /\ loop' = Set(loop, i, "worker")
  /\ UNCHANGED <<bridge, retry, polling, stopping, phase, faults>>

QueueEmpty(i) ==
  /\ loop[i] = "claim" /\ Alive(i) /\ IsUp
  /\ \A j \in JobIds : jobs[j].status # "queued"
  /\ loop' = Set(loop, i, "none")
  /\ UNCHANGED <<jobs, mine, bridge, retry, polling, stopping, phase, faults>>

\* The finally block clears projectJobWorkerLoop.  Variant for the mutants: a
\* promise that was rejected stays there.
LoopStays == "stuck"
LoopCleared == "none"

\* A claim that throws ends the loop; scheduleProjectJobWorkerRetry wakes it.
ClaimFails(i) ==
  /\ loop[i] = "claim" /\ Alive(i) /\ IsUp /\ Fault("statement")
  /\ loop' = Set(loop, i, LoopCleared)
  /\ retry' = IF i = Main /\ stopping THEN retry ELSE Set(retry, i, TRUE)
  /\ UNCHANGED <<jobs, mine, bridge, polling, stopping, phase>>

-----------------------------------------------------------------------------
(***************************************************************************)
(* The bridge.                                                             *)
(***************************************************************************)
StartsMissingFile(t) == thread[t].parent # Main /\ ~NestedStarts

\* getWorker: the thread there is, or a new one.
GetWorker(i) ==
  /\ loop[i] = "worker" /\ Alive(i) /\ IsUp
  /\ IF worker[i] # NoThread
       THEN awaited' = Set(awaited, i, worker[i]) /\ UNCHANGED <<worker, thread>>
       ELSE \E t \in Threads :
              /\ thread[t].state = "unused" /\ \A u \in 1..(t - 1) : thread[u].state # "unused"
              /\ thread' = Set(thread, t, [state |-> "starting", parent |-> i, tasks |-> {}])
              /\ worker' = Set(worker, i, t) /\ awaited' = Set(awaited, i, t)
  /\ loop' = Set(loop, i, "ready")
  /\ UNCHANGED <<jobs, mine, pending, ready, events, retry, polling, stopping, phase, faults>>

\* The constructor of Worker throws.
WorkerThrows(i) ==
  /\ loop[i] = "worker" /\ worker[i] = NoThread /\ Alive(i) /\ IsUp /\ Fault("start")
  /\ loop' = Set(loop, i, "report")
  /\ UNCHANGED <<jobs, mine, bridge, retry, polling, stopping, phase>>

\* A thread that ends takes its own scheduler and the threads it has started
\* with it.
StartedBy(family) == {t \in Threads : thread[t].parent \in family}
Below(t) == {u \in Threads : \A family \in SUBSET Threads :
                               t \in family /\ StartedBy(family) \subseteq family => u \in family}
Ended(t) == [u \in Threads |-> IF u \in Below(t) /\ thread[u].state # "unused"
                                 THEN [thread[u] EXCEPT !.state = "dead", !.tasks = {}] ELSE thread[u]]
LoopsEnded(loops, t) == [i \in Instances |-> IF i \in Below(t) THEN "none" ELSE loops[i]]
Emit(t, list) == [events EXCEPT ![t] = @ \o list]
\* worker.terminate(): the exit event comes later, with code 1.
Terminated(t) == IF Alive(t) THEN Emit(t, <<[type |-> "exit", code |-> 1]>>) ELSE events
Forgotten(i, t) == IF worker[i] = t THEN Set(worker, i, NoThread) ELSE worker

\* The thread is there: the request is entered and posted.  A thread that has
\* ended meanwhile loses the message.
Dispatch(i) ==
  LET t == awaited[i]
  IN /\ loop[i] = "ready" /\ Alive(i) /\ IsUp /\ ready[t] = "ok"
     /\ pending' = Set(pending, i, TRUE)
     /\ thread' = IF Alive(t) THEN [thread EXCEPT ![t].tasks = @ \cup {mine[i]}] ELSE thread
     /\ loop' = Set(loop, i, "posted")
     /\ UNCHANGED <<jobs, mine, worker, awaited, ready, events, retry, polling, stopping, phase, faults>>

GiveUpThread(i, t) ==
  /\ worker' = Forgotten(i, t)
  /\ thread' = Ended(t) /\ events' = Terminated(t)
  /\ loop' = Set(LoopsEnded(loop, t), i, "report")

\* It could not start, or not in time.
NotReady(i) ==
  /\ loop[i] = "ready" /\ Alive(i) /\ IsUp
  /\ \/ ready[awaited[i]] = "failed" /\ UNCHANGED faults
     \/ ready[awaited[i]] = "open" /\ Fault("timeout")
  /\ GiveUpThread(i, awaited[i])
  /\ UNCHANGED <<jobs, mine, awaited, pending, ready, retry, polling, stopping, phase>>

\* The execution timeout.  A request whose thread has ended silently has only
\* this timer left.  Variant for the mutants: it does not even have that.
NeverLost(t) == FALSE
IsLost(t) == thread[t].state = "dead" /\ events[t] = <<>>
ExecutionTimeout(i) ==
  /\ loop[i] = "posted" /\ pending[i] /\ Alive(i) /\ IsUp
  /\ IF IsLost(awaited[i]) THEN UNCHANGED faults ELSE Fault("timeout")
  /\ pending' = Set(pending, i, FALSE)
  /\ GiveUpThread(i, awaited[i])
  /\ UNCHANGED <<jobs, mine, awaited, ready, retry, polling, stopping, phase>>

Settled(rows, j, status) == [rows EXCEPT ![j].status = status, ![j].by = Main]
NextJob(i) ==
  /\ loop' = Set(loop, i, "claim")
  /\ mine' = Set(mine, i, NoJob) /\ awaited' = Set(awaited, i, NoThread)

\* failPendingJobBestEffort, fenced by the ownership; then the next job.  A
\* failure that is not written leaves the job to its lease: it is lost here.
Report(i) ==
  /\ loop[i] = "report" /\ Alive(i) /\ IsUp
  /\ jobs' = IF jobs[mine[i]].status = "running" /\ jobs[mine[i]].by = i
               THEN Settled(jobs, mine[i], "failed") ELSE jobs
  /\ NextJob(i)
  /\ UNCHANGED <<worker, pending, thread, ready, events, retry, polling, stopping, phase, faults>>
ReportFails(i) ==
  /\ loop[i] = "report" /\ Alive(i) /\ IsUp /\ Fault("statement")
  /\ jobs' = [jobs EXCEPT ![mine[i]].status = IF @ = "running" THEN "lost" ELSE @]
  /\ NextJob(i)
  /\ UNCHANGED <<worker, pending, thread, ready, events, retry, polling, stopping, phase>>

\* pendingRequests.get(message.id): an instance waits for one request.
\* Variant for the mutants: for whatever comes next.
AnswersAny(event, i) == TRUE
Answers(event, i) == event.job = mine[i]

\* What the starter of a thread does on its events.
Handle(t) ==
  LET i == thread[t].parent
      event == Head(events[t])
      settles == /\ pending[i]
                 /\ CASE event.type = "ready"  -> FALSE
                      [] event.type = "result" -> Answers(event, i)
                      [] event.type = "error"  -> TRUE
                      [] event.type = "exit"   -> event.code # 0
      failure == IF event.type = "result" THEN ~event.ok ELSE TRUE
  IN /\ events[t] # <<>> /\ Alive(i) /\ IsUp
     /\ events' = Set(events, t, Tail(events[t]))
     /\ ready' = IF ready[t] = "open"
                   THEN Set(ready, t, IF event.type = "error" \/ (event.type = "exit" /\ event.code # 0)
                                        THEN "failed" ELSE "ok")
                   ELSE ready
     /\ worker' = IF event.type \in {"error", "exit"} THEN Forgotten(i, t) ELSE worker
     /\ IF settles
          THEN /\ pending' = Set(pending, i, FALSE)
               /\ IF failure THEN loop' = Set(loop, i, "report") /\ UNCHANGED <<mine, awaited>> ELSE NextJob(i)
          ELSE UNCHANGED <<pending, loop, mine, awaited>>
     /\ UNCHANGED <<jobs, thread, retry, polling, stopping, phase, faults>>

-----------------------------------------------------------------------------
(***************************************************************************)
(* The threads.                                                            *)
(***************************************************************************)
ThreadStarts(t) ==
  /\ thread[t].state = "starting" /\ IsUp
  /\ IF StartsMissingFile(t)
       THEN /\ thread' = Ended(t)
            /\ events' = Emit(t, <<[type |-> "error"], [type |-> "exit", code |-> 1]>>)
       ELSE /\ thread' = [thread EXCEPT ![t].state = "up"]
            /\ events' = Emit(t, <<[type |-> "ready"]>>)
  /\ UNCHANGED <<jobs, loop, mine, worker, awaited, pending, ready, retry, polling, stopping, phase, faults>>

\* The job runs to its end; an import enqueues the analysis and kicks the
\* scheduler of the thread it runs in.  A job that was failed meanwhile is
\* aborted, which counts as a result.
TaskEnds(t, j) ==
  /\ j \in thread[t].tasks /\ thread[t].state = "up" /\ IsUp
  /\ thread' = [thread EXCEPT ![t].tasks = @ \ {j}]
  /\ \E ok \in BOOLEAN :
       LET held == jobs[j].status = "running"
           ended == IF held THEN Settled(jobs, j, IF ok THEN "done" ELSE "failed") ELSE jobs
           goesOn == held /\ ok /\ jobs[j].type = "import" /\ HasRoom
       IN /\ jobs' = IF goesOn THEN Queued(ended, "analyze") ELSE ended
          /\ loop' = IF goesOn THEN Kicked(t) ELSE loop
          /\ events' = Emit(t, <<[type |-> "result", job |-> j, ok |-> ok \/ ~held]>>)
  /\ UNCHANGED <<mine, worker, awaited, pending, ready, retry, polling, stopping, phase, faults>>

\* An uncaught error, or an exit with code 0.
ThreadDies(t) ==
  /\ Alive(t) /\ IsUp
  /\ \/ Fault("crash") /\ events' = Emit(t, <<[type |-> "error"], [type |-> "exit", code |-> 1]>>)
     \/ Fault("exit") /\ events' = Emit(t, <<[type |-> "exit", code |-> 0]>>)
  /\ thread' = Ended(t)
  /\ loop' = LoopsEnded(loop, t)
  /\ UNCHANGED <<jobs, mine, worker, awaited, pending, ready, retry, polling, stopping, phase>>

-----------------------------------------------------------------------------
(***************************************************************************)
(* The shutdown: stop polling, close HTTP, wait for the loop, close the    *)
(* database, with a time limit on the whole.                               *)
(***************************************************************************)
Signal ==
  /\ phase = "up"
  /\ polling' = FALSE /\ stopping' = TRUE /\ retry' = Set(retry, Main, FALSE)
  /\ phase' = "http"
  /\ UNCHANGED <<jobs, loop, mine, bridge, faults>>

\* Open connections may keep the HTTP server from closing for ever.
HttpCloses ==
  /\ phase = "http" /\ phase' = "idle"
  /\ UNCHANGED <<jobs, loop, mine, bridge, retry, polling, stopping, faults>>

\* Variant for the mutants: the database is closed without waiting.
NeverWait == TRUE
LoopIsIdle == loop[Main] = "none"
ShutdownStep ==
  /\ \/ phase = "idle" /\ LoopIsIdle /\ phase' = "database"
     \/ phase = "database" /\ phase' = "clean"
  /\ UNCHANGED <<jobs, loop, mine, bridge, retry, polling, stopping, faults>>

\* The time limit covers all steps.  Variant for the mutants: only the wait
\* for the loop.
LimitedPhasesWithoutHttp == {"idle", "database"}
LimitedPhases == {"http", "idle", "database"}
ShutdownTimeout ==
  /\ phase \in LimitedPhases
  /\ phase' = "forced"
  /\ UNCHANGED <<jobs, loop, mine, bridge, retry, polling, stopping, faults>>

Scheduling(i) == RetryTimer(i) \/ ClaimJob(i) \/ QueueEmpty(i)
Bridging(i)   == GetWorker(i) \/ Dispatch(i) \/ NotReady(i) \/ ExecutionTimeout(i) \/ Report(i)
Working(t)    == Handle(t) \/ ThreadStarts(t) \/ \E j \in JobIds : TaskEnds(t, j)

ServerNext ==
  \/ Enqueue(TRUE) \/ Enqueue(FALSE) \/ Poll
  \/ \E i \in Instances : Scheduling(i) \/ ClaimFails(i) \/ Bridging(i) \/ WorkerThrows(i) \/ ReportFails(i)
  \/ \E t \in Threads : Working(t) \/ ThreadDies(t)
  \/ Signal \/ HttpCloses \/ ShutdownStep \/ ShutdownTimeout

\* Timers fire, promises settle, threads make progress and the process exits
\* in time; nothing is asked of clients, signals or faults.
ServerFairness ==
  /\ WF_serverVars(Poll) /\ WF_serverVars(ShutdownStep) /\ WF_serverVars(ShutdownTimeout)
  /\ \A i \in Instances : WF_serverVars(Scheduling(i) \/ Bridging(i))
  /\ \A t \in Threads : WF_serverVars(Working(t))

ServerSpec == ServerInit /\ [][ServerNext]_serverVars /\ ServerFairness

-----------------------------------------------------------------------------
(***************************************************************************)
(* Properties.                                                             *)
(***************************************************************************)
\* A request is resolved only by the answer to it: the loop goes on to the
\* next job when the last one has ended, although a thread given up on, or one
\* still busy with a job that was failed, may answer late.
ResolvedJobsHaveEnded ==
  [][\A i \in Instances : loop[i] = "posted" /\ loop'[i] = "claim"
       => jobs[mine[i]].status # "running"]_serverVars

\* A process that exits cleanly leaves no job that its loop has claimed.
CleanExitLeavesNoJob ==
  phase = "clean" => \A j \in JobIds : jobs[j].status = "running" => jobs[j].by # Main

\* A queued job is taken up by the process that is polling, whether or not it
\* was kicked and although claims and threads fail.
QueuedJobsAreTaken ==
  \A j \in JobIds : jobs[j].status = "queued" ~> jobs[j].status # "queued" \/ stopping

\* The loop never waits for ever: a request whose thread is silent, crashed or
\* gone settles, if only by its timer.
RequestsSettle == pending[Main] ~> ~pending[Main] \/ ~IsUp

\* A signal ends the process, whatever the loop and the threads are doing.
SignalEndsProcess == stopping ~> ~IsUp
=============================================================================
