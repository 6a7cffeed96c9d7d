---------------------------- MODULE MediaDownload ----------------------------
(***************************************************************************)
(* The client's media (client/clientmedia.cpp): files that are not in its  *)
(* cache are fetched over HTTP from the remote servers that say they have  *)
(* them, several at a time and from another server when one fails; what is *)
(* left is asked of the game server.  Files are numbered in the order of   *)
(* their names, remote servers in the order they were announced.           *)
(***************************************************************************)
EXTENDS Naturals, Sequences, FiniteSets, SequencesExt

CONSTANTS
  MaxFiles, MaxRemotes,         (* how many of each                        *)
  m_httpfetch_active_limit,     (* fetches in progress                     *)
  Unreadable                    (* files the server announced and cannot   *)
                                (* read any more                           *)

ASSUME MediaAssumption ==
  /\ MaxFiles \in Nat /\ MaxRemotes \in Nat /\ m_httpfetch_active_limit \in Nat \ {0}
  /\ Unreadable \subseteq 1 .. MaxFiles

Files    == 1 .. MaxFiles
Remotes  == 1 .. MaxRemotes
NoRemote == 0

VARIABLES
  media,        (* "announced", "started", "done": m_media_downloader      *)
  received,     (* files with received = true                              *)
  m_uncached_count, m_uncached_received_count,
  current_remote, available_remotes,
  m_outstanding_hash_sets,
  m_httpfetch_active,
  m_name_bound, (* no file up to this one will be fetched again            *)
  step,         (* where step() is: "outside", "results", "transfers"     *)
  visited, changing_name_bound,   (* its loop over the files               *)
  fetching,     (* fetches under way: of a file, or of a hash set          *)
  fetched,      (* their results, in the order they came                   *)
  asked_server, (* files requested of the server                           *)
  bunches,      (* files it sent, in bunches                               *)
  offered_by,   (* history: remotes that said they have the file           *)
  tried         (* history: remotes that failed to deliver it              *)

mediaVars == <<media, received, m_uncached_count, m_uncached_received_count, current_remote,
               available_remotes, m_outstanding_hash_sets, m_httpfetch_active, m_name_bound,
               step, visited, changing_name_bound, fetching, fetched, asked_server, bunches, offered_by, tried>>

loop == <<step, visited, changing_name_bound>>

HashSet == 0
Fetch(remote, file) == [remote |-> remote, file |-> file]

MediaInit ==
  /\ media = "announced" /\ received = {}
  /\ m_uncached_count = 0 /\ m_uncached_received_count = 0
  /\ current_remote = [f \in Files |-> NoRemote]
  /\ available_remotes = [f \in Files |-> <<>>]
  /\ m_outstanding_hash_sets = 0 /\ m_httpfetch_active = 0 /\ m_name_bound = 0
  /\ step = "outside" /\ visited = 0 /\ changing_name_bound = FALSE
  /\ fetching = {} /\ fetched = <<>>
  /\ asked_server = {} /\ bunches = <<>>
  /\ offered_by = [f \in Files |-> {}] /\ tried = [f \in Files |-> {}]

-----------------------------------------------------------------------------
(* ClientMediaDownloader::step takes all the results that have come, then  *)
(* looks for transfers to start, file by file, and ends.                   *)
Outside == step = "outside" /\ media = "started"

TakeResult(r) ==
  /\ fetched # <<>> /\ r = Head(fetched) /\ fetched' = Tail(fetched)
  /\ step \in {"outside", "results"} /\ media = "started"
  /\ step' = "results" /\ m_httpfetch_active' = m_httpfetch_active - 1

(* A list that cannot be parsed counts as one of nothing.                  *)
remoteHashSetReceived(r) ==
  /\ TakeResult(r) /\ r.file = HashSet
  /\ m_outstanding_hash_sets' = m_outstanding_hash_sets - 1
  /\ available_remotes' = [f \in Files |->
        IF f > m_name_bound /\ f \notin received /\ f \in r.has
        THEN Append(available_remotes[f], r.remote) ELSE available_remotes[f]]
  /\ offered_by' = [f \in Files |-> IF f \in r.has THEN offered_by[f] \union {r.remote}
                                    ELSE offered_by[f]]
  /\ UNCHANGED <<media, received, m_uncached_count, m_uncached_received_count, current_remote,
                 m_name_bound, visited, changing_name_bound, fetching, asked_server, bunches,
                 tried>>

(* It succeeds when the data has the announced checksum and can be loaded. *)
remoteMediaReceived(r) ==
  /\ TakeResult(r) /\ r.file # HashSet
  /\ current_remote' = [current_remote EXCEPT ![r.file] = NoRemote]
  /\ IF r.file \in r.has
     THEN /\ received' = received \union {r.file}
          /\ m_uncached_received_count' = m_uncached_received_count + 1
          /\ UNCHANGED tried
     ELSE /\ tried' = [tried EXCEPT ![r.file] = @ \union {r.remote}]
          /\ UNCHANGED <<received, m_uncached_received_count>>
  /\ UNCHANGED <<media, m_uncached_count, available_remotes, m_outstanding_hash_sets,
                 m_name_bound, visited, changing_name_bound, fetching, asked_server, bunches,
                 offered_by>>

active_count(r) == Cardinality({f \in Files : current_remote[f] = r})

(* The first of those with the fewest transfers; it is not tried again.    *)
selectRemoteServer(f) ==
  LET s == available_remotes[f]
  IN  CHOOSE n \in DOMAIN s :
        \A k \in DOMAIN s : /\ active_count(s[n]) <= active_count(s[k])
                            /\ k < n => active_count(s[n]) < active_count(s[k])

startRemoteMediaTransfers ==
  /\ step = "results" /\ fetched = <<>>
  /\ step' = "transfers" /\ visited' = m_name_bound /\ changing_name_bound' = TRUE
  /\ UNCHANGED <<media, received, m_uncached_count, m_uncached_received_count, current_remote,
                 available_remotes, m_outstanding_hash_sets, m_httpfetch_active, m_name_bound,
                 fetching, fetched, asked_server, bunches, offered_by, tried>>

(* The files behind the bound, until the limit is reached; the bound moves *)
(* over those that are decided.                                            *)
VisitFile(f) ==
  /\ step = "transfers" /\ f = visited + 1 /\ m_httpfetch_active < m_httpfetch_active_limit
  /\ visited' = f
  /\ IF f \notin received /\ current_remote[f] = NoRemote /\ available_remotes[f] # <<>>
     THEN LET n == selectRemoteServer(f)
              r == available_remotes[f][n]
          IN  /\ available_remotes' = [available_remotes EXCEPT ![f] = RemoveAt(@, n)]
              /\ current_remote' = [current_remote EXCEPT ![f] = r]
              /\ m_httpfetch_active' = m_httpfetch_active + 1
              /\ fetching' = fetching \union {Fetch(r, f)}
     ELSE UNCHANGED <<available_remotes, current_remote, m_httpfetch_active, fetching>>
  /\ LET decided == f \in received
                    \/ (current_remote'[f] = NoRemote /\ m_outstanding_hash_sets = 0)
     IN  /\ changing_name_bound' = (changing_name_bound /\ decided)
         /\ m_name_bound' = IF decided /\ changing_name_bound THEN f ELSE m_name_bound
  /\ UNCHANGED <<media, received, m_uncached_count, m_uncached_received_count,
                 m_outstanding_hash_sets, step, fetched, asked_server, bunches, offered_by,
                 tried>>

(* When none is under way, the server is asked for what is missing.        *)
startConventionalTransfers ==
  /\ step = "transfers"
  /\ visited = MaxFiles \/ m_httpfetch_active >= m_httpfetch_active_limit
  /\ step' = "outside" /\ visited' = 0 /\ changing_name_bound' = FALSE
  /\ asked_server' =
       IF m_httpfetch_active = 0 /\ m_uncached_received_count # m_uncached_count
       THEN asked_server \union (Files \ received) ELSE asked_server
  /\ UNCHANGED <<media, received, m_uncached_count, m_uncached_received_count, current_remote,
                 available_remotes, m_outstanding_hash_sets, m_httpfetch_active, m_name_bound,
                 fetching, fetched, bunches, offered_by, tried>>

-----------------------------------------------------------------------------
(* The first step, when the announcement has come.                         *)
initialStep(cached) ==
  /\ media = "announced" /\ media' = "started"
  /\ received' = cached
  /\ m_uncached_count' = MaxFiles - Cardinality(cached)
  /\ LET remote == cached # Files /\ MaxRemotes > 0
     IN  /\ fetching' = IF remote THEN {Fetch(r, HashSet) : r \in Remotes} ELSE {}
         /\ m_httpfetch_active' = Cardinality(fetching')
         /\ m_outstanding_hash_sets' = Cardinality(fetching')
         /\ asked_server' = IF remote THEN {} ELSE Files \ cached
  /\ UNCHANGED <<loop, m_uncached_received_count, current_remote, available_remotes, m_name_bound,
                 fetched, bunches, offered_by, tried>>

(* A fetch ends: has are the files of the hash set, or the file, or none.  *)
FetchEnds(o, has) ==
  /\ o \in fetching /\ has \subseteq (IF o.file = HashSet THEN Files ELSE {o.file})
  /\ fetching' = fetching \ {o}
  /\ fetched' = Append(fetched, [remote |-> o.remote, file |-> o.file, has |-> has])
  /\ UNCHANGED <<loop, media, received, m_uncached_count, m_uncached_received_count, current_remote,
                 available_remotes, m_outstanding_hash_sets, m_httpfetch_active, m_name_bound,
                 asked_server, bunches, offered_by, tried>>

(* Client::step deletes the downloader.                                    *)
MediaIsDone ==
  /\ Outside /\ m_uncached_received_count = m_uncached_count
  /\ media' = "done" /\ fetching' = {} /\ fetched' = <<>>
  /\ UNCHANGED <<loop, received, m_uncached_count, m_uncached_received_count, current_remote,
                 available_remotes, m_outstanding_hash_sets, m_httpfetch_active, m_name_bound,
                 asked_server, bunches, offered_by, tried>>

(* Server::sendRequestedMedia: what it can read, in bunches.               *)
sendRequestedMedia(bunch) ==
  /\ bunch # {} /\ bunch \subseteq asked_server \ Unreadable
  /\ asked_server' = asked_server \ bunch
  /\ bunches' = Append(bunches, bunch)
  /\ UNCHANGED <<loop, media, received, m_uncached_count, m_uncached_received_count, current_remote,
                 available_remotes, m_outstanding_hash_sets, m_httpfetch_active, m_name_bound,
                 fetching, fetched, offered_by, tried>>

(* conventionalTransferDone: received, whatever the checksum; a file that  *)
(* was received before is left alone.                                      *)
handleCommand_Media ==
  /\ bunches # <<>> /\ Outside
  /\ received' = received \union Head(bunches)
  /\ m_uncached_received_count' = m_uncached_received_count
                                  + Cardinality(Head(bunches) \ received)
  /\ bunches' = Tail(bunches)
  /\ UNCHANGED <<loop, media, m_uncached_count, current_remote, available_remotes,
                 m_outstanding_hash_sets, m_httpfetch_active, m_name_bound, fetching, fetched,
                 asked_server, offered_by, tried>>

AFetchEnds == \E o \in fetching, has \in SUBSET Files : FetchEnds(o, has)
ServerSends == \E bunch \in SUBSET Files : sendRequestedMedia(bunch)

MediaNext ==
  \/ \E cached \in SUBSET Files : initialStep(cached)
  \/ AFetchEnds \/ ServerSends
  \/ \E r \in ToSet(fetched) : remoteHashSetReceived(r) \/ remoteMediaReceived(r)
  \/ startRemoteMediaTransfers \/ startConventionalTransfers \/ MediaIsDone
  \/ handleCommand_Media
  \/ \E f \in Files : VisitFile(f)

(* What the client's loop does by itself.                                  *)
ClientSteps ==
  \/ \E r \in ToSet(fetched) : remoteHashSetReceived(r) \/ remoteMediaReceived(r)
  \/ startRemoteMediaTransfers \/ startConventionalTransfers \/ MediaIsDone
  \/ handleCommand_Media
  \/ \E f \in Files : VisitFile(f)

-----------------------------------------------------------------------------
MediaTypeOK ==
  /\ media \in {"announced", "started", "done"} /\ received \subseteq Files
  /\ m_uncached_received_count \in 0 .. m_uncached_count
  /\ current_remote \in [Files -> Remotes \union {NoRemote}]
  /\ m_name_bound \in 0 .. MaxFiles

(* The numbers agree with what is under way: as many fetches as are        *)
(* counted, no more of files than the limit, none of a file that is there, *)
(* and never two of one.                                                   *)
CountsAgree ==
  media = "started" =>
    /\ m_httpfetch_active = Cardinality(fetching) + Len(fetched)
    /\ \A o \in fetching \union ToSet(fetched) :
         IF o.file = HashSet THEN TRUE
         ELSE o.file \notin received /\ current_remote[o.file] = o.remote
    /\ Cardinality({f \in Files : current_remote[f] # NoRemote}) <= m_httpfetch_active_limit
    /\ m_uncached_received_count - m_uncached_count = Cardinality(received) - MaxFiles

(* The server is asked for a file only when every remote server has said   *)
(* what it has, and each that has it has failed to deliver it.             *)
RemotesFirst ==
  \A f \in asked_server : m_outstanding_hash_sets = 0 /\ offered_by[f] \subseteq tried[f]

MediaIsSound == CountsAgree /\ RemotesFirst

(* What is to come to an end: until every file has come.                   *)
MediaIsBusy == media = "started"
=============================================================================
