------------------------------- MODULE Workers -------------------------------
(***************************************************************************)
(* The threads that work for another one: each component hands its jobs    *)
(* over through a queue of its own and promises the same of them, in a     *)
(* module of its own; and those of a Connection, which delete its peers    *)
(* between them.  Here they stand side by side, so that the promises are   *)
(* stated once: in a behaviour one part moves, the others stay as they     *)
(* were in the beginning, since no two of them share anything.             *)
(***************************************************************************)
EXTENDS AbmEngine, AsyncEngine, HttpFetch, MeshUpdate, MediaDownload, Emerge, PeerLifecycle

CONSTANT Parts

ASSUME PartsAssumption ==
  Parts \subseteq {"abm", "async", "http", "mesh", "media", "emerge", "peers"}

VARIABLE part

WorkersInit ==
  /\ part \in Parts
  /\ AbmInit /\ AsyncInit /\ HttpInit /\ MeshInit /\ MediaInit /\ EmergeInit /\ Init
  /\ part # "emerge" => world = CHOOSE w \in Worlds : TRUE

AbmPart ==
  /\ part = "abm" /\ AbmNext
  /\ UNCHANGED <<part, asyncVars, httpVars, meshVars, mediaVars, emergeVars, vars>>

AsyncPart ==
  /\ part = "async" /\ AsyncNext
  /\ UNCHANGED <<part, abmVars, httpVars, meshVars, mediaVars, emergeVars, vars>>

HttpPart ==
  /\ part = "http" /\ HttpNext
  /\ UNCHANGED <<part, abmVars, asyncVars, meshVars, mediaVars, emergeVars, vars>>

MeshPart ==
  /\ part = "mesh" /\ MeshNext
  /\ UNCHANGED <<part, abmVars, asyncVars, httpVars, mediaVars, emergeVars, vars>>

MediaPart ==
  /\ part = "media" /\ MediaNext
  /\ UNCHANGED <<part, abmVars, asyncVars, httpVars, meshVars, emergeVars, vars>>

EmergePart ==
  /\ part = "emerge" /\ EmergeNext
  /\ UNCHANGED <<part, abmVars, asyncVars, httpVars, meshVars, mediaVars, vars>>

PeersPart ==
  /\ part = "peers" /\ Next
  /\ UNCHANGED <<part, abmVars, asyncVars, httpVars, meshVars, mediaVars, emergeVars>>

WorkersNext ==
  AbmPart \/ AsyncPart \/ HttpPart \/ MeshPart \/ MediaPart \/ EmergePart \/ PeersPart

workersVars == <<part, abmVars, asyncVars, httpVars, meshVars, mediaVars, emergeVars, vars>>

(* The threads that run go on, the scheduler is fair to them; callers look *)
(* for their results; a transfer ends, if only by its timeout.  Of the     *)
(* part that moves: the others' steps are disabled.                        *)
WorkersFairness ==
  /\ WF_abmVars(part = "abm" /\ AbmServerNext)
  /\ \A w \in AbmWorkers : WF_abmVars(part = "abm" /\ AbmWorkerNext(w))
  /\ WF_asyncVars(part = "async" /\ stepJobResults)
  /\ WF_asyncVars(part = "async" /\ AsyncStopNext)
  /\ \A w \in AsyncWorkers : WF_asyncVars(part = "async" /\ AsyncWorkerNext(w))
  /\ WF_httpVars(part = "http" /\ CurlLoop) /\ SF_httpVars(part = "http" /\ CurlDone)
  /\ \A u \in HttpUsers : /\ WF_httpVars(part = "http" /\ httpfetch_async_get(u))
                          /\ WF_httpVars(part = "http" /\ EraseResults(u))
  /\ WF_meshVars(part = "mesh" /\ MeshThread) /\ SF_meshVars(part = "mesh" /\ MainFinishes)
  /\ WF_mediaVars(part = "media" /\ ClientSteps)
  /\ WF_mediaVars(part = "media" /\ AFetchEnds)
  /\ WF_mediaVars(part = "media" /\ ServerSends)
  /\ \A t \in EmergeThreads :
       /\ WF_emergeVars(part = "emerge" /\ Signal(t))
       /\ WF_emergeVars(part = "emerge" /\ ThreadStep(t))
       /\ WF_emergeVars(part = "emerge" /\ emergeStop # {} /\ StopThread(t))
  /\ \A t \in Deleters : WF_vars(part = "peers" /\ DeletePeerStep(t))
  /\ WF_vars(part = "peers" /\ (SendCollect \/ SendMark \/ SendLeave))
  /\ WF_vars(part = "peers" /\ (ProcessData \/ ProcessSilently))
  /\ WF_vars(part = "peers" /\ ReceiveDone)
  /\ \A t \in AppThreads : WF_vars(part = "peers" /\ AppDone(t))

WorkersSpec == WorkersInit /\ [][WorkersNext]_workersVars /\ WorkersFairness

-----------------------------------------------------------------------------
WorkersTypeOK ==
  /\ AbmTypeOK /\ AsyncTypeOK /\ HttpTypeOK /\ MeshTypeOK /\ MediaTypeOK /\ EmergeTypeOK
  /\ TypeOK

(* What a queue and the books kept beside it say of each other.            *)
BooksAgree == NoOrphanResults /\ QueueIsSound /\ MediaIsSound

(* Every job is done once, for the one who asked: a block is scanned and   *)
(* its triggers run, a job's handler called, a fetch answered.  Each       *)
(* component implements the service of module Jobs.                        *)
EachJobIsDoneOnce == EachBlockOnce /\ EachJobOnce /\ EachFetchOnce

(* It is done in the end: no wake-up is lost and no thread waits for ever. *)
(* The work is bounded, so that there comes a time when none is left.      *)
Busy == \/ AbmIsBusy
        \/ AsyncIsBusy
        \/ HttpIsBusy
        \/ MeshIsBusy
        \/ MediaIsBusy
        \/ EmergeIsBusy

WorkIsDone == Busy ~> ~Busy

(* And a thread that is told to stop does, with nobody waiting for it.     *)
Ending == \/ AsyncIsEnding
          \/ HttpIsEnding
          \/ MeshIsEnding
          \/ EmergeIsEnding

ThreadsStop == Ending ~> ~Ending
=============================================================================
