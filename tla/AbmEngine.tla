------------------------------ MODULE AbmEngine ------------------------------
(***************************************************************************)
(* Active block modifiers (abm_threading.cpp): the server thread queues    *)
(* the blocks of m_abm_list, worker threads look for nodes with a modifier *)
(* in them and queue what they find, and the server thread runs that       *)
(* (TriggeringLuaOnStep).  The threads are never stopped: nothing deletes  *)
(* the engine.                                                             *)
(***************************************************************************)
EXTENDS Naturals, Sequences, FiniteSets, SequencesExt

CONSTANTS
  AbmWorkers, FirstWorker,    (* maxthreads of them, one from the beginning*)
  AbmBlocks,
  DEQUE_NODE,                 (* how many triggers a node of the deque     *)
                              (* triggeringluatoapply holds                *)
  MaxBatches                  (* bound: batches queued                     *)

ASSUME AbmEngineAssumption ==
  /\ FirstWorker \in AbmWorkers
  /\ IsFiniteSet(AbmBlocks)
  /\ DEQUE_NODE \in Nat \ {0}
  /\ MaxBatches \in Nat

Worker(pc) == [pc |-> pc, job |-> <<>>]
AbmJobs == (1 .. MaxBatches) \X AbmBlocks

VARIABLES
  batch,             (* how many batches were begun                        *)
  queueing,          (* the rest of the batch ABME_Threading::step queues  *)
  ABM_MapBlocks,     (* the queue for the workers                          *)
  smp,               (* the permits of the semaphore                       *)
  abmt,              (* what each worker does                              *)
  inMap,             (* the blocks the server has not deleted meanwhile    *)
  triggeringluatoapply,
  popped,            (* how many triggers were taken from it so far        *)
  using,             (* the trigger the server thread runs, as a sequence  *)
  asked_abm, ran,    (* history: jobs queued; how often each was done      *)
  abmExcuse          (* history: jobs whose memory was freed under them    *)

abmVars == <<batch, queueing, ABM_MapBlocks, smp, abmt, inMap, triggeringluatoapply,
             popped, using, asked_abm, ran, abmExcuse>>
queueVarsOfAbm == <<batch, queueing, ABM_MapBlocks, smp>>
triggerVars    == <<triggeringluatoapply, popped, using>>
abmHistory     == <<asked_abm, ran, abmExcuse>>

AbmInit ==
  /\ batch = 0 /\ queueing = <<>> /\ ABM_MapBlocks = <<>> /\ smp = 0
  /\ abmt = [w \in AbmWorkers |-> Worker(IF w = FirstWorker THEN "check" ELSE "new")]
  /\ inMap = AbmBlocks
  /\ triggeringluatoapply = <<>> /\ popped = 0 /\ using = <<>>
  /\ asked_abm = {} /\ ran = [j \in AbmJobs |-> 0] /\ abmExcuse = {}

-----------------------------------------------------------------------------
(* The server thread, with m_env_mutex.                                    *)

ServerIdle == queueing = <<>> /\ using = <<>>

(* step: only when the workers have taken everything; some of the blocks   *)
(* of m_abm_list, in any order.                                            *)
AbmStep(blocks) ==
  /\ ServerIdle /\ batch < MaxBatches /\ ABM_MapBlocks = <<>>
  /\ batch' = batch + 1
  /\ queueing' = [n \in DOMAIN blocks |-> <<batch + 1, blocks[n]>>]
  /\ asked_abm' = asked_abm \union ToSet(queueing')
  /\ UNCHANGED <<ABM_MapBlocks, smp, abmt, inMap, triggerVars, ran, abmExcuse>>

(* A variant that wakes a worker with the first of them.                   *)
QueueMapBlock_PostFirst ==
  /\ queueing # <<>>
  /\ ABM_MapBlocks' = Append(ABM_MapBlocks, Head(queueing))
  /\ queueing' = Tail(queueing)
  /\ smp' = IF Len(queueing) = Cardinality({j \in asked_abm : j[1] = batch})
            THEN smp + 1 ELSE smp
  /\ UNCHANGED <<batch, abmt, inMap, triggerVars, abmHistory>>

(* QueueMapBlock, under the mutex for each block; one post for them all.   *)
QueueMapBlock ==
  /\ queueing # <<>>
  /\ ABM_MapBlocks' = Append(ABM_MapBlocks, Head(queueing))
  /\ queueing' = Tail(queueing)
  /\ smp' = IF Len(queueing) = 1 THEN smp + 1 ELSE smp
  /\ UNCHANGED <<batch, abmt, inMap, triggerVars, abmHistory>>

startengine ==
  /\ ServerIdle /\ \E w \in AbmWorkers : abmt[w].pc = "new"
  /\ abmt' = [w \in AbmWorkers |-> IF abmt[w].pc = "new" THEN Worker("check") ELSE abmt[w]]
  /\ UNCHANGED <<queueVarsOfAbm, inMap, triggerVars, abmHistory>>

(* A block is unloaded or deleted; the queue holds pointers to it.         *)
AbmBlockDeleted(b) ==
  /\ ServerIdle /\ b \in inMap
  /\ inMap' = inMap \ {b}
  /\ abmExcuse' = abmExcuse \union {j \in asked_abm : j[2] = b}
  /\ UNCHANGED <<queueVarsOfAbm, abmt, triggerVars, asked_abm, ran>>

(* TriggeringLuaOnStep: the element is referred to after pop_front.        *)
PopTrigger ==
  /\ ServerIdle /\ triggeringluatoapply # <<>>
  /\ using' = <<Head(triggeringluatoapply)>>
  /\ triggeringluatoapply' = Tail(triggeringluatoapply)
  /\ popped' = popped + 1
  /\ UNCHANGED <<queueVarsOfAbm, abmt, inMap, abmHistory>>

(* It is still what it was, unless it was the last of a node of the deque: *)
(* the node is freed, and then what is read may be something else.         *)
RunTrigger ==
  /\ using # <<>>
  /\ using' = <<>>
  /\ ran' = [ran EXCEPT ![Head(using)] = @ + 1]
  /\ UNCHANGED <<queueVarsOfAbm, abmt, inMap, triggeringluatoapply, popped, asked_abm, abmExcuse>>

(* If it is a null pointer another element is taken off, without the lock. *)
RunFreedTrigger ==
  /\ using # <<>> /\ popped % DEQUE_NODE = 0
  /\ using' = <<>>
  /\ \/ /\ abmExcuse' = abmExcuse \union {Head(using)}
        /\ UNCHANGED <<triggeringluatoapply, popped>>
     \/ /\ triggeringluatoapply # <<>>
        /\ abmExcuse' = abmExcuse \union {Head(using), Head(triggeringluatoapply)}
        /\ triggeringluatoapply' = Tail(triggeringluatoapply)
        /\ popped' = popped + 1
  /\ UNCHANGED <<queueVarsOfAbm, abmt, inMap, asked_abm, ran>>

-----------------------------------------------------------------------------
(* ABMT_Threading::run: without m_env_mutex.                               *)

TakeMapBlock(w) ==
  /\ abmt[w].pc = "check"
  /\ IF ABM_MapBlocks = <<>>
     THEN /\ abmt' = [abmt EXCEPT ![w] = Worker("wait")]
          /\ UNCHANGED ABM_MapBlocks
     ELSE /\ abmt' = [abmt EXCEPT ![w] = [pc |-> "scan", job |-> Head(ABM_MapBlocks)]]
          /\ ABM_MapBlocks' = Tail(ABM_MapBlocks)
  /\ UNCHANGED <<batch, queueing, smp, inMap, triggerVars, abmHistory>>

WaitForMapBlocks(w) ==
  /\ abmt[w].pc = "wait" /\ smp > 0
  /\ smp' = smp - 1
  /\ abmt' = [abmt EXCEPT ![w] = Worker("check")]
  /\ UNCHANGED <<batch, queueing, ABM_MapBlocks, inMap, triggerVars, abmHistory>>

(* trigger_actions, with or without something to run.  Of a block that was *)
(* deleted it reads anything.                                              *)
trigger_actions(w, found) ==
  /\ abmt[w].pc = "scan"
  /\ abmt' = [abmt EXCEPT ![w] = Worker("check")]
  /\ IF found THEN triggeringluatoapply' = Append(triggeringluatoapply, abmt[w].job) /\ UNCHANGED ran
              ELSE ran' = [ran EXCEPT ![abmt[w].job] = @ + 1] /\ UNCHANGED triggeringluatoapply
  /\ UNCHANGED <<queueVarsOfAbm, inMap, popped, using, asked_abm, abmExcuse>>

AbmServerNext == QueueMapBlock \/ PopTrigger \/ RunTrigger \/ RunFreedTrigger
AbmWorkerNext(w) == \/ TakeMapBlock(w) \/ WaitForMapBlocks(w)
                    \/ \E found \in BOOLEAN : trigger_actions(w, found)

AbmNext ==
  \/ \E S \in SUBSET inMap \ {{}} : \E blocks \in SetToSeqs(S) : AbmStep(blocks)
  \/ startengine
  \/ \E b \in AbmBlocks : AbmBlockDeleted(b)
  \/ AbmServerNext
  \/ \E w \in AbmWorkers : AbmWorkerNext(w)

-----------------------------------------------------------------------------
AbmTypeOK ==
  /\ batch \in 0 .. MaxBatches /\ smp \in 0 .. MaxBatches
  /\ queueing \in Seq(AbmJobs) /\ ABM_MapBlocks \in Seq(AbmJobs)
  /\ triggeringluatoapply \in Seq(AbmJobs) /\ using \in Seq(AbmJobs) /\ Len(using) <= 1
  /\ abmt \in [AbmWorkers -> [pc : {"new", "check", "wait", "scan"}, job : AbmJobs \union {<<>>}]]
  /\ inMap \subseteq AbmBlocks
  /\ asked_abm \subseteq AbmJobs /\ abmExcuse \subseteq asked_abm
  /\ ran \in [AbmJobs -> Nat]

(* Where a job is between the step that queued it and the last of it.      *)
InAbmEngine == ToSet(queueing) \union ToSet(ABM_MapBlocks) \union ToSet(using)
                 \union ToSet(triggeringluatoapply)
                 \union {abmt[w].job : w \in AbmWorkers}

AbmStatus ==
  [j \in AbmJobs |-> CASE j \notin asked_abm -> "new"
                       [] ran[j] = 1         -> "answered"
                       [] ran[j] > 1         -> "repeated"
                       [] j \in InAbmEngine  -> "pending"
                       [] OTHER              -> "dropped"]

(* A block that was queued is looked at by one worker, and what it finds   *)
(* is run once, unless memory was freed under it.                          *)
AbmService == INSTANCE Jobs WITH Jobs <- AbmJobs, status <- AbmStatus, excused <- abmExcuse
EachBlockOnce == AbmService!Spec

(* What is to come to an end: one post for a batch is enough.              *)
AbmIsBusy == \E j \in AbmJobs : AbmStatus[j] = "pending"
=============================================================================
