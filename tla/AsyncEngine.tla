----------------------------- MODULE AsyncEngine -----------------------------
(***************************************************************************)
(* The asynchronous jobs of mods (script/cpp_api/s_async.cpp): the server  *)
(* thread queues functions, worker threads run them, and stepJobResults    *)
(* calls the handler with each result.  When jobs wait for a second more   *)
(* threads are started.  The destructor stops them all.                    *)
(***************************************************************************)
EXTENDS Naturals, Sequences, FiniteSets, SequencesExt

CONSTANTS
  MaxJobs,              (* bound: jobs queued                              *)
  AsyncWorkers,         (* as many as autoscaleMaxWorkers, and one         *)
  FirstAsyncWorker

ASSUME AsyncEngineAssumption ==
  MaxJobs \in Nat /\ FirstAsyncWorker \in AsyncWorkers /\ IsFiniteSet(AsyncWorkers)

JobIds == 1 .. MaxJobs
NoJob  == 0

VARIABLES
  jobIdCounter, jobQueue,
  jobQueueCounter,      (* the permits of the semaphore                    *)
  resultQueue,
  asyncw,               (* what each worker does, and its job              *)
  autoscaleSeenJobs,
  autoscaleTimer,       (* "off", "on", "elapsed"                          *)
  asyncStop,            (* the workers that were told to stop              *)
  handled,              (* history: how often the handler was called       *)
  failed                (* history: jobs whose function, or result, raised *)
                        (* an error                                        *)

asyncVars == <<jobIdCounter, jobQueue, jobQueueCounter, resultQueue, asyncw,
               autoscaleSeenJobs, autoscaleTimer, asyncStop, handled, failed>>
scaleVars == <<autoscaleSeenJobs, autoscaleTimer>>

AsyncWorker(pc) == [pc |-> pc, job |-> NoJob]
Started == {w \in AsyncWorkers : asyncw[w].pc # "new"}

AsyncInit ==
  /\ jobIdCounter = 0 /\ jobQueue = <<>> /\ jobQueueCounter = 0 /\ resultQueue = <<>>
  /\ asyncw = [w \in AsyncWorkers |->
                 AsyncWorker(IF w = FirstAsyncWorker THEN "loop" ELSE "new")]
  /\ autoscaleSeenJobs = {} /\ autoscaleTimer = "off"
  /\ asyncStop = {}
  /\ handled = [j \in JobIds |-> 0] /\ failed = {}

-----------------------------------------------------------------------------
(* The server thread.                                                      *)

AsyncRunning == asyncStop = {}

queueAsyncJob ==
  /\ AsyncRunning /\ jobIdCounter < MaxJobs
  /\ jobIdCounter' = jobIdCounter + 1
  /\ jobQueue' = Append(jobQueue, jobIdCounter')
  /\ jobQueueCounter' = jobQueueCounter + 1
  /\ UNCHANGED <<resultQueue, asyncw, scaleVars, asyncStop, handled, failed>>

stepJobResults ==
  /\ AsyncRunning /\ resultQueue # <<>>
  /\ handled' = [j \in JobIds |-> handled[j] + Cardinality({n \in DOMAIN resultQueue :
                                                              resultQueue[n] = j})]
  /\ resultQueue' = <<>>
  /\ UNCHANGED <<jobIdCounter, jobQueue, jobQueueCounter, asyncw, scaleVars, asyncStop, failed>>

(* stepAutoscale: jobs that were in the queue a second ago and still are   *)
(* each get a new thread, while there may be more.                         *)
AutoscaleElapses ==
  /\ AsyncRunning /\ autoscaleTimer = "on"
  /\ autoscaleTimer' = "elapsed"
  /\ UNCHANGED <<jobIdCounter, jobQueue, jobQueueCounter, resultQueue, asyncw,
                 autoscaleSeenJobs, asyncStop, handled, failed>>

stepAutoscale ==
  /\ AsyncRunning /\ Started # AsyncWorkers
  /\ \/ /\ autoscaleTimer = "elapsed"
        /\ autoscaleTimer' = "off" /\ autoscaleSeenJobs' = {}
        /\ LET n == Len(SelectSeq(jobQueue, LAMBDA j : j \in autoscaleSeenJobs))
               rest == AsyncWorkers \ Started
           IN  \E new \in SUBSET rest :
                 /\ Cardinality(new) = IF n < Cardinality(rest) THEN n ELSE Cardinality(rest)
                 /\ asyncw' = [w \in AsyncWorkers |->
                                 IF w \in new THEN AsyncWorker("loop") ELSE asyncw[w]]
     \/ /\ autoscaleTimer = "off" /\ jobQueue # <<>>
        /\ autoscaleTimer' = "on"
        /\ autoscaleSeenJobs' = autoscaleSeenJobs \union ToSet(jobQueue)
        /\ UNCHANGED asyncw
  /\ UNCHANGED <<jobIdCounter, jobQueue, jobQueueCounter, resultQueue, asyncStop, handled, failed>>

(* A variant with one post for all of them.                                *)
StopWorker_OnePost(w) ==
  /\ w \in Started \ asyncStop
  /\ asyncStop' = asyncStop \union {w}
  /\ jobQueueCounter' = jobQueueCounter + IF asyncStop' = Started THEN 1 ELSE 0
  /\ UNCHANGED <<jobIdCounter, jobQueue, resultQueue, asyncw, scaleVars, handled, failed>>

(* ~AsyncEngine: every thread is told to stop, then one post for each, and *)
(* then they are waited for.                                               *)
StopWorker(w) ==
  /\ w \in Started \ asyncStop
  /\ asyncStop' = asyncStop \union {w}
  /\ jobQueueCounter' = jobQueueCounter
       + IF asyncStop' = Started THEN Cardinality(Started) ELSE 0
  /\ UNCHANGED <<jobIdCounter, jobQueue, resultQueue, asyncw, scaleVars, handled, failed>>

AsyncDestroyed ==
  /\ asyncStop # {} /\ jobQueue # <<>>
  /\ \A w \in Started : asyncw[w].pc = "ended"
  /\ jobQueue' = <<>>
  /\ UNCHANGED <<jobIdCounter, jobQueueCounter, resultQueue, asyncw, scaleVars, asyncStop,
                 handled, failed>>

-----------------------------------------------------------------------------
(* AsyncWorkerThread::run.                                                 *)

EndsOrWaits(w) ==
  /\ asyncw[w].pc = "loop"
  /\ asyncw' = [asyncw EXCEPT ![w] = AsyncWorker(IF w \in asyncStop THEN "ended" ELSE "wait")]
  /\ UNCHANGED <<jobIdCounter, jobQueue, jobQueueCounter, resultQueue, scaleVars, asyncStop,
                 handled, failed>>

getJob(w) ==
  /\ asyncw[w].pc = "wait" /\ jobQueueCounter > 0
  /\ jobQueueCounter' = jobQueueCounter - 1
  /\ asyncw' = [asyncw EXCEPT ![w].pc = "pop"]
  /\ UNCHANGED <<jobIdCounter, jobQueue, resultQueue, scaleVars, asyncStop, handled, failed>>

PopJob(w) ==
  /\ asyncw[w].pc = "pop"
  /\ IF jobQueue = <<>>
     THEN asyncw' = [asyncw EXCEPT ![w].pc = "loop"] /\ UNCHANGED jobQueue
     ELSE /\ asyncw' = [asyncw EXCEPT ![w] = [pc |-> "got", job |-> Head(jobQueue)]]
          /\ jobQueue' = Tail(jobQueue)
  /\ UNCHANGED <<jobIdCounter, jobQueueCounter, resultQueue, scaleVars, asyncStop, handled, failed>>

(* The job is run, unless the thread was told to stop: then it is dropped. *)
RunJob(w) ==
  /\ asyncw[w].pc = "got"
  /\ IF w \in asyncStop
     THEN asyncw' = [asyncw EXCEPT ![w] = AsyncWorker("loop")] /\ UNCHANGED failed
     ELSE \/ asyncw' = [asyncw EXCEPT ![w].pc = "put"] /\ UNCHANGED failed
          \/ /\ asyncw' = [asyncw EXCEPT ![w] = AsyncWorker("loop")]
             /\ failed' = failed \union {asyncw[w].job}
  /\ UNCHANGED <<jobIdCounter, jobQueue, jobQueueCounter, resultQueue, scaleVars, asyncStop, handled>>

putJobResult(w) ==
  /\ asyncw[w].pc = "put"
  /\ resultQueue' = Append(resultQueue, asyncw[w].job)
  /\ asyncw' = [asyncw EXCEPT ![w] = AsyncWorker("loop")]
  /\ UNCHANGED <<jobIdCounter, jobQueue, jobQueueCounter, scaleVars, asyncStop, handled, failed>>

AsyncWorkerNext(w) == \/ EndsOrWaits(w) \/ getJob(w) \/ PopJob(w) \/ RunJob(w) \/ putJobResult(w)

(* Once one is told to stop all are.                                       *)
AsyncStopNext == \E w \in AsyncWorkers : asyncStop # {} /\ StopWorker(w)

AsyncNext ==
  \/ queueAsyncJob \/ stepJobResults \/ AutoscaleElapses \/ stepAutoscale
  \/ AsyncDestroyed
  \/ \E w \in AsyncWorkers : StopWorker(w) \/ AsyncWorkerNext(w)

-----------------------------------------------------------------------------
AsyncTypeOK ==
  /\ jobIdCounter \in 0 .. MaxJobs
  /\ jobQueue \in Seq(JobIds) /\ resultQueue \in Seq(JobIds)
  /\ jobQueueCounter \in Nat
  /\ asyncw \in [AsyncWorkers -> [pc : {"new", "loop", "wait", "pop", "got", "put", "ended"},
                                  job : JobIds \union {NoJob}]]
  /\ autoscaleSeenJobs \subseteq JobIds /\ autoscaleTimer \in {"off", "on", "elapsed"}
  /\ asyncStop \subseteq AsyncWorkers
  /\ handled \in [JobIds -> Nat] /\ failed \subseteq JobIds

InAsyncEngine == ToSet(jobQueue) \union ToSet(resultQueue)
                   \union {asyncw[w].job : w \in AsyncWorkers}

AsyncStatus ==
  [j \in JobIds |-> CASE j > jobIdCounter    -> "new"
                      [] handled[j] = 1      -> "answered"
                      [] handled[j] > 1      -> "answered twice"
                      [] j \in InAsyncEngine -> "pending"
                      [] OTHER               -> "dropped"]

AsyncService == INSTANCE Jobs
  WITH Jobs <- JobIds, status <- AsyncStatus,
       excused <- IF asyncStop = {} THEN failed ELSE JobIds

(* The handler of a job is called once; not at all only if the job raised  *)
(* an error or the engine is stopped.                                      *)
EachJobOnce == AsyncService!Spec

(* What is to come to an end: a job, if its function returns; the workers, *)
(* when the destructor has begun.                                          *)
AsyncIsBusy   == asyncStop = {} /\ \E j \in JobIds : AsyncStatus[j] = "pending"
AsyncIsEnding == asyncStop # {} /\ \E w \in Started : asyncw[w].pc # "ended"
=============================================================================
