------------------------------ MODULE HttpFetch ------------------------------
(***************************************************************************)
(* HTTP requests (httpfetch.cpp): threads that want something from the web *)
(* allocate a caller id and hand requests to one thread, which has up to   *)
(* m_parallel_limit of them in progress and puts the results where the     *)
(* caller looks for them.  A caller that is freed has its requests taken   *)
(* back first, since its id may be given to another.                       *)
(***************************************************************************)
EXTENDS Naturals, Sequences, FiniteSets, SequencesExt

CONSTANTS
  HttpUsers,          (* threads that make requests                        *)
  CallerIds,          (* numbers from 1; 0 is HTTPFETCH_DISCARD            *)
  Fetches,
  NoFetch,
  m_parallel_limit,
  MaxSessions         (* bound: how often an id is allocated             *)

ASSUME HttpFetchAssumption ==
  /\ CallerIds \subseteq Nat \ {0} /\ IsFiniteSet(CallerIds)
  /\ Cardinality(CallerIds) >= Cardinality(HttpUsers)
  /\ NoFetch \notin Fetches
  /\ m_parallel_limit \in Nat \ {0}
  /\ MaxSessions \in Nat

VARIABLES
  g_httpfetch_results,(* of each caller id that is in use, its queue       *)
  callerIds,          (* the keys of it                                    *)
  caller,             (* of each user: its id, 0 when it has none; whether *)
                      (* it waits for its requests to be cleared           *)
  m_requests,
  curl,               (* the thread: "off" before the first request        *)
  m_all_ongoing, m_queued_fetches,
  cleared,            (* users whose event was signalled                   *)
  curlStop,           (* httpfetch_cleanup was called                      *)
  sessions,           (* history: ids allocated                            *)
  askedBy,            (* history: of each fetch, whose it is               *)
  gotBy               (* history: of each fetch, who got its result        *)

httpVars == <<g_httpfetch_results, callerIds, caller, m_requests, curl, m_all_ongoing,
              m_queued_fetches, cleared, curlStop, sessions, askedBy, gotBy>>
curlVars == <<curl, m_all_ongoing, m_queued_fetches>>
httpHistory == <<sessions, askedBy, gotBy>>

NoCaller == [id |-> 0, session |-> 0, freeing |-> FALSE]
Nobody   == 0
NoEvent  == {}        (* else the user that waits for it                   *)

HttpInit ==
  /\ g_httpfetch_results = [c \in CallerIds |-> <<>>] /\ callerIds = {}
  /\ caller = [u \in HttpUsers |-> NoCaller]
  /\ m_requests = <<>>
  /\ curl = "off" /\ m_all_ongoing = {} /\ m_queued_fetches = <<>>
  /\ cleared = {} /\ curlStop = FALSE
  /\ sessions = 0
  /\ askedBy = [f \in Fetches |-> Nobody] /\ gotBy = [f \in Fetches |-> <<>>]

-----------------------------------------------------------------------------
(* The callers.                                                            *)

(* httpfetch_caller_alloc takes the first id that is free, _secure any.    *)
httpfetch_caller_alloc(u, c) ==
  /\ caller[u] = NoCaller /\ ~curlStop /\ sessions < MaxSessions
  /\ c \in CallerIds \ callerIds
  /\ callerIds' = callerIds \union {c}
  /\ sessions' = sessions + 1
  /\ caller' = [caller EXCEPT ![u] = [id |-> c, session |-> sessions', freeing |-> FALSE]]
  /\ UNCHANGED <<g_httpfetch_results, m_requests, curlVars, cleared, curlStop, askedBy, gotBy>>

Uses(u) == caller[u].id # 0 /\ ~caller[u].freeing

httpfetch_async(u, f) ==
  /\ Uses(u) /\ askedBy[f] = Nobody /\ ~curlStop
  /\ m_requests' = Append(m_requests, [type |-> "fetch", id |-> caller[u].id, fetch |-> f,
                                       event |-> NoEvent])
  /\ curl' = IF curl = "off" THEN "requests" ELSE curl
  /\ askedBy' = [askedBy EXCEPT ![f] = caller[u].session]
  /\ UNCHANGED <<g_httpfetch_results, callerIds, caller, m_all_ongoing, m_queued_fetches,
                 cleared, curlStop, sessions, gotBy>>

httpfetch_async_get(u) ==
  /\ Uses(u)
  /\ LET c == caller[u].id
     IN  /\ g_httpfetch_results[c] # <<>>
         /\ g_httpfetch_results' = [g_httpfetch_results EXCEPT ![c] = Tail(@)]
         /\ gotBy' = [gotBy EXCEPT ![Head(g_httpfetch_results[c])] =
                        Append(@, caller[u].session)]
  /\ UNCHANGED <<callerIds, caller, m_requests, curlVars, cleared, curlStop, sessions, askedBy>>

(* httpfetch_caller_free: httpfetch_request_clear waits for the thread, if *)
(* there is one, and then the results go.                                  *)
httpfetch_caller_free(u) ==
  /\ Uses(u) /\ ~curlStop
  /\ m_requests' = Append(m_requests, [type |-> "clear", id |-> caller[u].id,
                                       fetch |-> NoFetch,
                                       event |-> IF curl = "off" THEN NoEvent ELSE {u}])
  /\ caller' = [caller EXCEPT ![u].freeing = TRUE]
  /\ cleared' = IF curl = "off" THEN cleared \union {u} ELSE cleared
  /\ UNCHANGED <<g_httpfetch_results, callerIds, curlVars, curlStop, httpHistory>>

EraseResults(u) ==
  /\ caller[u].freeing /\ u \in cleared
  /\ g_httpfetch_results' = [g_httpfetch_results EXCEPT ![caller[u].id] = <<>>]
  /\ callerIds' = callerIds \ {caller[u].id}
  /\ caller' = [caller EXCEPT ![u] = NoCaller]
  /\ cleared' = cleared \ {u}
  /\ UNCHANGED <<m_requests, curlVars, curlStop, httpHistory>>

(* At the end of main, when nobody waits any more: stop, and a request     *)
(* that wakes the thread.                                                  *)
httpfetch_cleanup ==
  /\ ~curlStop /\ \A u \in HttpUsers : ~caller[u].freeing
  /\ curlStop' = TRUE
  /\ m_requests' = Append(m_requests, [type |-> "wakeup", id |-> 0, fetch |-> NoFetch,
                                       event |-> NoEvent])
  /\ UNCHANGED <<g_httpfetch_results, callerIds, caller, curlVars, cleared, httpHistory>>

-----------------------------------------------------------------------------
(* CurlFetchThread::run: requests, then queued fetches, then what cURL has *)
(* finished, then a wait for a request or for IO.                          *)

Ongoing(f, id) == [fetch |-> f, id |-> id]

(* httpfetch_deliver_result: an id that is not there is put there.         *)
Deliver(o) ==
  /\ g_httpfetch_results' = [g_httpfetch_results EXCEPT ![o.id] = Append(@, o.fetch)]
  /\ callerIds' = callerIds \union {o.id}

(* What is left of s without those in T, in their order.                   *)
Without(s, T) ==
  LET rest[n \in 0 .. Len(s)] == IF n = 0 THEN <<>>
                                 ELSE IF s[n] \in T THEN rest[n - 1]
                                 ELSE Append(rest[n - 1], s[n])
  IN  rest[Len(s)]

(* A variant that does not look among the queued ones when it clears.      *)
processRequest_Ongoing(req) ==
  /\ m_queued_fetches' = IF req.type = "fetch"
                         THEN Append(m_queued_fetches, Ongoing(req.fetch, req.id))
                         ELSE m_queued_fetches
  /\ m_all_ongoing' = IF req.type = "clear"
                      THEN {o \in m_all_ongoing : o.id # req.id} ELSE m_all_ongoing
  /\ cleared' = cleared \union req.event

processRequest(req) ==
  /\ m_queued_fetches' =
       CASE req.type = "fetch" -> Append(m_queued_fetches, Ongoing(req.fetch, req.id))
         [] req.type = "clear" -> Without(m_queued_fetches,
                                         {o \in ToSet(m_queued_fetches) : o.id = req.id})
         [] OTHER              -> m_queued_fetches
  /\ m_all_ongoing' = IF req.type = "clear"
                      THEN {o \in m_all_ongoing : o.id # req.id} ELSE m_all_ongoing
  /\ cleared' = cleared \union req.event

TakeRequests ==
  /\ curl = "requests"
  /\ IF m_requests = <<>>
     THEN /\ curl' = "queued"
          /\ UNCHANGED <<m_requests, m_queued_fetches, m_all_ongoing, cleared>>
     ELSE /\ processRequest(Head(m_requests))
          /\ m_requests' = Tail(m_requests)
          /\ UNCHANGED curl
  /\ UNCHANGED <<g_httpfetch_results, callerIds, caller, curlStop, httpHistory>>

(* One at a time while there is room; one that cannot be started has its   *)
(* result at once.                                                         *)
processQueued ==
  /\ curl = "queued"
  /\ IF Cardinality(m_all_ongoing) < m_parallel_limit /\ m_queued_fetches # <<>>
     THEN /\ m_queued_fetches' = Tail(m_queued_fetches)
          /\ UNCHANGED curl
          /\ \/ /\ m_all_ongoing' = m_all_ongoing \union {Head(m_queued_fetches)}
                /\ UNCHANGED <<g_httpfetch_results, callerIds>>
             \/ Deliver(Head(m_queued_fetches)) /\ UNCHANGED m_all_ongoing
     ELSE /\ curl' = "perform"
          /\ UNCHANGED <<m_queued_fetches, m_all_ongoing, g_httpfetch_results, callerIds>>
  /\ UNCHANGED <<caller, m_requests, cleared, curlStop, httpHistory>>

processCurlMessage(o) ==
  /\ curl = "perform" /\ o \in m_all_ongoing
  /\ m_all_ongoing' = m_all_ongoing \ {o}
  /\ Deliver(o)
  /\ UNCHANGED <<caller, m_requests, curl, m_queued_fetches, cleared, curlStop, httpHistory>>

(* waitForRequest when nothing is in progress, else waitForIO, which ends  *)
(* after 100 ms.                                                           *)
GoesToWait ==
  /\ curl = "perform"
  /\ curl' = IF m_all_ongoing = {} /\ m_queued_fetches = <<>> THEN "wait" ELSE "next"
  /\ UNCHANGED <<g_httpfetch_results, callerIds, caller, m_requests, m_all_ongoing,
                 m_queued_fetches, cleared, curlStop, httpHistory>>

waitForRequest ==
  /\ curl = "wait" /\ m_requests # <<>>
  /\ processRequest(Head(m_requests))
  /\ m_requests' = Tail(m_requests)
  /\ curl' = "next"
  /\ UNCHANGED <<g_httpfetch_results, callerIds, caller, curlStop, httpHistory>>

GoesOn ==
  /\ curl = "next"
  /\ curl' = IF curlStop THEN "ended" ELSE "requests"
  /\ m_all_ongoing' = IF curlStop THEN {} ELSE m_all_ongoing
  /\ m_queued_fetches' = IF curlStop THEN <<>> ELSE m_queued_fetches
  /\ UNCHANGED <<g_httpfetch_results, callerIds, caller, m_requests, cleared, curlStop, httpHistory>>

CurlLoop == TakeRequests \/ processQueued \/ GoesToWait \/ waitForRequest \/ GoesOn
CurlDone == \E o \in m_all_ongoing : processCurlMessage(o)

HttpUserNext(u) ==
  \/ \E c \in CallerIds : httpfetch_caller_alloc(u, c)
  \/ \E f \in Fetches : httpfetch_async(u, f)
  \/ httpfetch_async_get(u) \/ httpfetch_caller_free(u) \/ EraseResults(u)

HttpNext == \/ \E u \in HttpUsers : HttpUserNext(u)
            \/ httpfetch_cleanup \/ CurlLoop \/ CurlDone

-----------------------------------------------------------------------------
HttpTypeOK ==
  /\ DOMAIN g_httpfetch_results = CallerIds /\ callerIds \subseteq CallerIds
  /\ \A c \in CallerIds : g_httpfetch_results[c] \in Seq(Fetches)
  /\ caller \in [HttpUsers -> [id : CallerIds \union {0}, session : 0 .. MaxSessions,
                               freeing : BOOLEAN]]
  /\ curl \in {"off", "requests", "queued", "perform", "wait", "next", "ended"}
  /\ Cardinality(m_all_ongoing) <= m_parallel_limit
  /\ cleared \subseteq HttpUsers

HeldFetch(f) ==
  \/ \E n \in DOMAIN m_requests : m_requests[n].fetch = f
  \/ \E n \in DOMAIN m_queued_fetches : m_queued_fetches[n].fetch = f
  \/ \E o \in m_all_ongoing : o.fetch = f
  \/ \E c \in CallerIds : f \in ToSet(g_httpfetch_results[c])

FetchStatus ==
  [f \in Fetches |-> IF askedBy[f] = Nobody THEN "new"
                     ELSE IF gotBy[f] = <<askedBy[f]>> THEN "answered"
                     ELSE IF gotBy[f] # <<>> THEN "misdelivered"
                     ELSE IF HeldFetch(f) THEN "pending" ELSE "dropped"]

(* The fetches of a caller that was freed.                                 *)
Unwanted == {f \in Fetches : ~\E u \in HttpUsers : Uses(u) /\ caller[u].session = askedBy[f]}

HttpService == INSTANCE Jobs
  WITH Jobs <- Fetches, status <- FetchStatus,
       excused <- IF curlStop THEN Fetches ELSE Unwanted

(* A result goes to the one who asked, once, even when the id was freed    *)
(* and given to another meanwhile; and what is no longer allocated holds   *)
(* no results.                                                             *)
EachFetchOnce == HttpService!Spec
NoOrphanResults ==
  callerIds = {caller[u].id : u \in HttpUsers} \ {0}

(* What is to come to an end: a fetch, and somebody's wait to free an id.  *)
HttpIsBusy   == ~curlStop /\ \E f \in Fetches : FetchStatus[f] = "pending"
HttpIsEnding == ~curlStop /\ \E u \in HttpUsers : caller[u].freeing
=============================================================================
