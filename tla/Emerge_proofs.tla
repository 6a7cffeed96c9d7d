----------------------------- MODULE Emerge_proofs -----------------------------
(***************************************************************************)
(* Proofs about the emerge manager, for any number of threads, positions   *)
(* and requests, whatever limits and chunks.  A position waits in one      *)
(* queue, a callback in one place; a chunk is marked while it is made, and *)
(* the copy it is made from has the changes that were made before.         *)
(***************************************************************************)
EXTENDS Emerge, FiniteSetTheorems, WellFoundedInduction, TLAPS

-----------------------------------------------------------------------------
(* Queues without repetition.                                              *)

Once(s) == \A i, k \in 1 .. Len(s) : s[i] = s[k] => i = k

(* An empty queue.                                                         *)
LEMMA EmptyQueue == ToSet(<<>>) = {} /\ Once(<<>>)
BY DEF ToSet, Once

LEMMA QueueSet ==
  ASSUME NEW S, NEW s \in Seq(S)
  PROVE  /\ ToSet(s) \subseteq S
         /\ ToSet(s) = {s[i] : i \in 1 .. Len(s)}
BY DEF ToSet

(* The first is taken.                                                     *)
LEMMA TakeFirst ==
  ASSUME NEW S, NEW s \in Seq(S), s # <<>>
  PROVE  /\ Head(s) \in S /\ Tail(s) \in Seq(S)
         /\ ToSet(s) = ToSet(Tail(s)) \union {Head(s)}
         /\ Once(s) => Once(Tail(s)) /\ Head(s) \notin ToSet(Tail(s))
<1> DEFINE n == Len(s)
           t == Tail(s)
<1>1. /\ Head(s) \in S /\ t \in Seq(S) /\ n \in Nat \ {0} /\ Len(t) = n - 1
      /\ Head(s) = s[1]
  OBVIOUS
<1>2. \A i \in 1 .. Len(t) : t[i] = s[i + 1]
  OBVIOUS
<1>3. ToSet(s) = {s[i] : i \in 1 .. n} /\ ToSet(t) = {t[i] : i \in 1 .. Len(t)}
  BY <1>1, QueueSet
<1> HIDE DEF n, t
<1>4. \A i \in 1 .. n : i = 1 \/ (i - 1 \in 1 .. Len(t) /\ t[i - 1] = s[i])
  <2> SUFFICES ASSUME NEW i \in 1 .. n, i # 1
               PROVE  i - 1 \in 1 .. Len(t) /\ t[i - 1] = s[i]
    OBVIOUS
  <2>1. i - 1 \in 1 .. Len(t) /\ (i - 1) + 1 = i
    BY <1>1
  <2>2. QED
    BY <1>2, <2>1
<1>5. \A i \in 1 .. Len(t) : i + 1 \in 1 .. n /\ i + 1 # 1
  BY <1>1
<1>6. ToSet(s) = ToSet(t) \union {Head(s)}
  <2>1. ASSUME NEW e \in ToSet(s) PROVE e \in ToSet(t) \union {Head(s)}
    <3>1. PICK i \in 1 .. n : e = s[i]
      BY <1>3
    <3>2. CASE i = 1
      BY <1>1, <3>1, <3>2
    <3>3. CASE i - 1 \in 1 .. Len(t) /\ t[i - 1] = s[i]
      BY <1>3, <3>1, <3>3
    <3>4. QED
      BY <1>4, <3>2, <3>3
  <2>2. ASSUME NEW e \in ToSet(t) PROVE e \in ToSet(s)
    <3>1. PICK i \in 1 .. Len(t) : e = t[i]
      BY <1>3
    <3>2. QED
      BY <1>2, <1>3, <1>5, <3>1
  <2>3. Head(s) \in ToSet(s)
    BY <1>1, <1>3
  <2>4. QED
    BY <2>1, <2>2, <2>3
<1>7. ASSUME Once(s) PROVE Once(t) /\ Head(s) \notin ToSet(t)
  <2>1. \A i, k \in 1 .. n : s[i] = s[k] => i = k
    BY <1>7 DEF Once, n
  <2>2. \A i, k \in 1 .. Len(t) : t[i] = t[k] => i = k
    <3> SUFFICES ASSUME NEW i \in 1 .. Len(t), NEW k \in 1 .. Len(t), t[i] = t[k]
                 PROVE  i = k
      OBVIOUS
    <3>1. i + 1 = k + 1
      BY <1>2, <1>5, <2>1
    <3>2. QED
      BY <1>1, <3>1
  <2>3. \A i \in 1 .. Len(t) : t[i] # Head(s)
    <3> SUFFICES ASSUME NEW i \in 1 .. Len(t), t[i] = s[1]
                 PROVE  FALSE
      BY <1>1
    <3>1. i + 1 = 1
      BY <1>1, <1>2, <1>5, <2>1
    <3>2. QED
      BY <1>5, <3>1
  <2>4. QED
    BY <1>3, <2>2, <2>3 DEF Once
<1>8. QED
  BY <1>1, <1>6, <1>7 DEF t

(* One is put at the end.                                                  *)
LEMMA PutLast ==
  ASSUME NEW S, NEW s \in Seq(S), NEW e \in S
  PROVE  /\ Append(s, e) \in Seq(S)
         /\ ToSet(Append(s, e)) = ToSet(s) \union {e}
         /\ Once(s) /\ e \notin ToSet(s) => Once(Append(s, e))
<1> DEFINE n == Len(s)
           t == Append(s, e)
<1>1. t \in Seq(S) /\ n \in Nat /\ Len(t) = n + 1 /\ t[n + 1] = e
  OBVIOUS
<1>2. \A i \in 1 .. n : t[i] = s[i]
  OBVIOUS
<1>3. ToSet(s) = {s[i] : i \in 1 .. n} /\ ToSet(t) = {t[i] : i \in 1 .. n + 1}
  BY <1>1, QueueSet
<1>4. Once(s) <=> \A i, k \in 1 .. n : s[i] = s[k] => i = k
  BY DEF Once
<1>5. Once(t) <=> \A i, k \in 1 .. n + 1 : t[i] = t[k] => i = k
  BY <1>1 DEF Once
<1> HIDE DEF n, t
<1>6. /\ \A i \in 1 .. n + 1 : i \in 1 .. n \/ i = n + 1
      /\ n + 1 \in 1 .. n + 1 /\ \A i \in 1 .. n : i \in 1 .. n + 1
  BY <1>1
<1>7. ToSet(t) = ToSet(s) \union {e}
  <2>1. ASSUME NEW x \in ToSet(t) PROVE x \in ToSet(s) \union {e}
    BY <1>1, <1>2, <1>3, <1>6
  <2>2. ASSUME NEW x \in ToSet(s) \union {e} PROVE x \in ToSet(t)
    <3>1. CASE x = e
      BY <1>1, <1>3, <1>6, <3>1
    <3>2. CASE x \in ToSet(s)
      <4>1. PICK i \in 1 .. n : x = s[i]
        BY <1>3, <3>2
      <4>2. QED
        BY <1>2, <1>3, <1>6, <4>1
    <3>3. QED
      BY <3>1, <3>2
  <2>3. QED
    BY <2>1, <2>2
<1>8. ASSUME Once(s), e \notin ToSet(s) PROVE Once(t)
  <2> SUFFICES ASSUME NEW i \in 1 .. n + 1, NEW k \in 1 .. n + 1, t[i] = t[k]
               PROVE  i = k
    BY <1>5
  <2>1. \A l \in 1 .. n : t[l] \in ToSet(s)
    BY <1>2, <1>3
  <2>2. CASE i \in 1 .. n /\ k \in 1 .. n
    BY <1>2, <1>4, <1>8, <2>2
  <2>3. CASE i = n + 1 \/ k = n + 1
    BY <1>1, <1>6, <1>8, <2>1, <2>3
  <2>4. QED
    BY <1>6, <2>2, <2>3
<1>9. QED
  BY <1>1, <1>7, <1>8 DEF t

-----------------------------------------------------------------------------
(* The invariant.                                                          *)

EntriesOf(a) == {p \in blocks_enqueued : bedata[p].peer = a}

(* What waits is in one queue, once, and nothing else is.                  *)
InOneQueue ==
  /\ IsFiniteSet(blocks_enqueued)
  /\ \A t \in EmergeThreads : /\ Once(block_queue[t]) /\ Len(block_queue[t]) <= asked
                              /\ ToSet(block_queue[t]) \subseteq blocks_enqueued
  /\ \A p \in blocks_enqueued : \E t \in EmergeThreads : p \in ToSet(block_queue[t])
  /\ \A t, u \in EmergeThreads :
       \A p \in ToSet(block_queue[t]) \cap ToSet(block_queue[u]) : t = u

Charged ==
  \A a \in Askers : peer_queue_count[a] = Cardinality(EntriesOf(a)) % COUNT_SIZE

(* Who is told to stop is woken, until it looks.                           *)
Awake ==
  /\ NoLostWakeUp
  /\ \A t \in emergeStop : et[t].pc \notin {"check", "ended"} => t \in queue_event

(* A thread has a position while it works on it, and callbacks until it    *)
(* has called them.                                                        *)
HandsAreFull ==
  \A t \in EmergeThreads :
    /\ et[t].pc \in {"fetch", "make", "finish"} => et[t].pos \in Positions
    /\ et[t].pc \in {"start", "check", "pop", "wait", "ended"} => et[t].callbacks = <<>>

(* The copy has what was changed before it was made.                       *)
CopiesAreTrue ==
  \A t \in EmergeThreads :
    et[t].pc \in {"make", "finish"} =>
      (FullArea[Chunk[et[t].pos]] \cap everEdited) \ raced \subseteq et[t].copy

(* A callback is with one entry or one thread, once.                       *)
AtEntry(p)  == ToSet(bedata[p].callbacks)
AtThread(t) == ToSet(et[t].callbacks)

CallbacksOnce ==
  /\ \A p \in blocks_enqueued : Once(bedata[p].callbacks)
  /\ \A t \in EmergeThreads : Once(et[t].callbacks)
  /\ \A p, q \in blocks_enqueued : \A r \in AtEntry(p) \cap AtEntry(q) : p = q
  /\ \A t, u \in EmergeThreads : \A r \in AtThread(t) \cap AtThread(u) : t = u
  /\ \A p \in blocks_enqueued, t \in EmergeThreads : AtEntry(p) \cap AtThread(t) = {}

(* Until then it is not called; then it was called once, or given up.      *)
CallsAreCounted ==
  /\ Held \subseteq awaited /\ Held \cap excuse = {}
  /\ \A r \in Requests : called[r] = IF r \in awaited \ (Held \union excuse) THEN 1 ELSE 0

EmergeInv ==
  /\ EmergeTypeOK /\ HandsAreFull
  /\ InOneQueue /\ Charged
  /\ Awake
  /\ OneGeneratorPerChunk
  /\ CopiesAreTrue /\ EditsSurvive
  /\ CallbacksOnce /\ CallsAreCounted

-----------------------------------------------------------------------------
(* Counters that wrap around.                                              *)

LEMMA RestIs ==
  ASSUME NEW c \in Nat \ {0}, NEW q \in Int, NEW r \in 0 .. c - 1
  PROVE  (q * c + r) % c = r
<1>1. q * c \in Int /\ q * c + r \in Int
  BY Z3
<1>2. PICK x \in Int : x = q * c + r
  BY <1>1
<1>3. PICK k \in Int, s \in 0 .. c - 1 : s = x % c /\ x = k * c + s
  <2>1. \A m \in Nat \ {0} : x % m \in 0 .. m - 1 /\ x = (x \div m) * m + (x % m)
    BY Z3
  <2>2. \A m \in Nat \ {0} : x \div m \in Int
    BY Z3
  <2>3. QED
    BY <2>1, <2>2
<1>4. PICK d \in Int : d = q - k
  OBVIOUS
<1>5. d * c = q * c - k * c /\ d * c \in Int /\ k * c \in Int
  BY <1>4, Z3
<1>6. d * c = s - r
  BY <1>1, <1>2, <1>3, <1>5
<1>7. /\ d = 0 => d * c = 0
      /\ d >= 1 => d * c >= c
      /\ d <= -1 => d * c <= -c
  BY Z3
<1>8. s = r
  BY <1>3, <1>6, <1>7
<1>9. QED
  BY <1>2, <1>3, <1>8

LEMMA CountsWrap ==
  ASSUME NEW c \in Nat \ {0}, NEW n \in Nat
  PROVE  /\ n % c \in 0 .. c - 1
         /\ ((n % c) + 1) % c = (n + 1) % c
         /\ n > 0 => ((n % c) + c - 1) % c = (n - 1) % c
<1>1. PICK k \in Int, r \in 0 .. c - 1 : r = n % c /\ n = k * c + r
  <2>1. \A m \in Nat \ {0} : n % m \in 0 .. m - 1 /\ n = (n \div m) * m + (n % m)
    BY Z3
  <2>2. \A m \in Nat \ {0} : n \div m \in Int
    BY Z3
  <2>3. QED
    BY <2>1, <2>2
<1>2. k * c \in Int /\ (k + 1) * c = k * c + c /\ (k - 1) * c = k * c - c
      /\ 1 * c = c /\ 0 * c = 0 /\ 1 \in Int /\ 0 \in Int
  BY Z3
<1>3. (r + 1) % c = (n + 1) % c
  <2>1. CASE r + 1 < c
    <3>1. n + 1 = k * c + (r + 1) /\ r + 1 \in 0 .. c - 1 /\ 0 * c + (r + 1) = r + 1
      BY <1>1, <1>2, <2>1
    <3>2. (k * c + (r + 1)) % c = r + 1 /\ (0 * c + (r + 1)) % c = r + 1
      BY <1>2, <3>1, RestIs, Zenon
    <3>3. QED
      BY <3>1, <3>2
  <2>2. CASE r + 1 = c
    <3>1. n + 1 = (k + 1) * c + 0 /\ 1 * c + 0 = r + 1 /\ 0 \in 0 .. c - 1 /\ k + 1 \in Int
      BY <1>1, <1>2, <2>2
    <3>2. ((k + 1) * c + 0) % c = 0 /\ (1 * c + 0) % c = 0
      BY <1>2, <3>1, RestIs, Zenon
    <3>3. QED
      BY <3>1, <3>2
  <2>3. QED
    BY <2>1, <2>2
<1>4. ASSUME n > 0 PROVE (r + c - 1) % c = (n - 1) % c
  <2>1. CASE r > 0
    <3>1. /\ n - 1 = k * c + (r - 1) /\ r - 1 \in 0 .. c - 1
          /\ 1 * c + (r - 1) = r + c - 1
      BY <1>1, <1>2, <2>1
    <3>2. (k * c + (r - 1)) % c = r - 1 /\ (1 * c + (r - 1)) % c = r - 1
      BY <1>2, <3>1, RestIs, Zenon
    <3>3. QED
      BY <3>1, <3>2
  <2>2. CASE r = 0
    <3>1. /\ n - 1 = (k - 1) * c + (c - 1) /\ 0 * c + (c - 1) = r + c - 1
          /\ c - 1 \in 0 .. c - 1 /\ k - 1 \in Int
      BY <1>1, <1>2, <2>2
    <3>2. ((k - 1) * c + (c - 1)) % c = c - 1 /\ (0 * c + (c - 1)) % c = c - 1
      BY <1>2, <3>1, RestIs, Zenon
    <3>3. QED
      BY <3>1, <3>2
  <2>3. QED
    BY <2>1, <2>2
<1>5. QED
  BY <1>1, <1>3, <1>4
(* The least of some numbers.                                              *)
LEMMA SomeLeast ==
  ASSUME NEW B, B \subseteq Nat, B # {}
  PROVE  \E n \in B : \A j \in B : n <= j
<1>1. PICK x \in B : \A y \in B : ~(<<y, x>> \in OpToRel(<, Nat))
  BY NatLessThanWellFounded, WFMin, Zenon
<1>2. \A y \in B : ~(y < x)
  BY <1>1 DEF OpToRel
<1>3. \A y \in B : x <= y
  BY <1>2
<1>4. QED
  BY <1>3

-----------------------------------------------------------------------------
(* Types.                                                                  *)

ThreadPlaces == {"start", "check", "pop", "wait", "fetch", "make", "finish", "report", "ended"}

AThread == [pc : ThreadPlaces, pos : Positions \union {NoPosition}, gen : BOOLEAN,
            callbacks : Seq(Requests), copy : SUBSET Positions, known : SUBSET Positions]

LEMMA ThreadMoves ==
  ASSUME et \in [EmergeThreads -> AThread], NEW t \in EmergeThreads, NEW e \in AThread,
         et' = [et EXCEPT ![t] = e]
  PROVE  /\ et' \in [EmergeThreads -> AThread]
         /\ et'[t] = e /\ \A u \in EmergeThreads \ {t} : et'[u] = et[u]
OBVIOUS

LEMMA MovedThread ==
  ASSUME NEW e \in AThread, NEW x \in ThreadPlaces
  PROVE  /\ [e EXCEPT !.pc = x] \in AThread
         /\ [e EXCEPT !.pc = x].pc = x
         /\ [e EXCEPT !.pc = x].pos = e.pos /\ [e EXCEPT !.pc = x].callbacks = e.callbacks
         /\ [e EXCEPT !.pc = x].copy = e.copy
BY DEF AThread

LEMMA IdleIsAThread ==
  /\ Idle \in AThread
  /\ \A x \in ThreadPlaces : [Idle EXCEPT !.pc = x] \in AThread
<1>1. <<>> \in Seq(Requests) /\ "check" \in ThreadPlaces
  BY DEF ThreadPlaces
<1>2. Idle \in AThread
  BY <1>1 DEF AThread, Idle
<1>3. QED
  BY <1>2, MovedThread

(* There is a thread with the shortest queue.                              *)
LEMMA OptimalThread ==
  ASSUME block_queue \in [EmergeThreads -> Seq(Positions)]
  PROVE  getOptimalThread \in EmergeThreads
<1>1. EmergeThreads # {} /\ EmergeThreads \subseteq Nat
  BY EmergeAssumption
<1>2. \A t \in EmergeThreads : Len(block_queue[t]) \in Nat
  OBVIOUS
<1>3. PICK l \in {Len(block_queue[t]) : t \in EmergeThreads} :
        \A k \in {Len(block_queue[t]) : t \in EmergeThreads} : l <= k
  <2>1. {Len(block_queue[t]) : t \in EmergeThreads} # {}
        /\ {Len(block_queue[t]) : t \in EmergeThreads} \subseteq Nat
    BY <1>1, <1>2
  <2>2. QED
    BY <2>1, SomeLeast
<1>4. PICK t \in {u \in EmergeThreads : Len(block_queue[u]) = l} :
        \A u \in {v \in EmergeThreads : Len(block_queue[v]) = l} : t <= u
  <2>1. {u \in EmergeThreads : Len(block_queue[u]) = l} # {}
        /\ {u \in EmergeThreads : Len(block_queue[u]) = l} \subseteq Nat
    BY <1>1, <1>3
  <2>2. QED
    BY <2>1, SomeLeast
<1>5. \A u \in EmergeThreads : \/ Len(block_queue[t]) < Len(block_queue[u])
                               \/ Len(block_queue[t]) = Len(block_queue[u]) /\ t <= u
  <2> SUFFICES ASSUME NEW u \in EmergeThreads, Len(block_queue[u]) # l
               PROVE  Len(block_queue[t]) < Len(block_queue[u])
    BY <1>4
  <2>1. l <= Len(block_queue[u]) /\ l = Len(block_queue[t])
    BY <1>3, <1>4
  <2>2. QED
    BY <1>2, <1>4, <2>1
<1>6. QED
  BY <1>4, <1>5, Zenon DEF getOptimalThread

(* What each step does to the threads.                                     *)
EtTypeOK == et \in [EmergeThreads -> AThread]

LEMMA TypesOfParts ==
  EmergeTypeOK =>
    /\ EtTypeOK
    /\ bedata \in [Positions -> [gen : BOOLEAN, peer : Askers, callbacks : Seq(Requests)]]
    /\ block_queue \in [EmergeThreads -> Seq(Positions)]
    /\ blocks_enqueued \subseteq Positions
    /\ peer_queue_count \in [Askers -> 0 .. COUNT_SIZE - 1]
    /\ asked \in 0 .. MaxRequests /\ awaited \subseteq 1 .. asked /\ asked \in Nat
    /\ called \in [Requests -> Nat] /\ excuse \subseteq awaited
    /\ world \in Worlds /\ world.requests \in 0 .. MaxRequests /\ MaxRequests \in Nat
    /\ world.reach \in [Positions -> {"mapgen", "map", "outside"}]
<1> SUFFICES ASSUME EmergeTypeOK
             PROVE  /\ world.requests \in 0 .. MaxRequests
                    /\ world.reach \in [Positions -> {"mapgen", "map", "outside"}]
                    /\ asked \in Nat /\ MaxRequests \in Nat
  BY DEF EmergeTypeOK, EtTypeOK, AThread, ThreadPlaces
<1>1. world \in [reach : [Positions -> {"mapgen", "map", "outside"}],
                 generated : SUBSET Positions, damaged : SUBSET Positions,
                 movable : SUBSET Positions, requests : 0 .. MaxRequests]
  BY EmergeAssumption DEF EmergeTypeOK
<1>2. QED
  BY <1>1, EmergeAssumption DEF EmergeTypeOK
(* A thread that only moves on: what it has in its hands stays.            *)
Moves(t, x) == et' = [et EXCEPT ![t].pc = x]

LEMMA MovesOnly ==
  ASSUME EtTypeOK, NEW t \in EmergeThreads, NEW x \in ThreadPlaces, Moves(t, x)
  PROVE  /\ EtTypeOK' /\ et'[t].pc = x
         /\ \A u \in EmergeThreads : /\ et'[u].pos = et[u].pos /\ et'[u].copy = et[u].copy
                                     /\ et'[u].callbacks = et[u].callbacks
                                     /\ u # t => et'[u] = et[u]
<1>1. et' = [et EXCEPT ![t] = [et[t] EXCEPT !.pc = x]] /\ et[t] \in AThread
  BY DEF Moves, EtTypeOK
<1>2. [et[t] EXCEPT !.pc = x] \in AThread /\ [et[t] EXCEPT !.pc = x].pc = x
      /\ [et[t] EXCEPT !.pc = x].pos = et[t].pos
      /\ [et[t] EXCEPT !.pc = x].callbacks = et[t].callbacks
      /\ [et[t] EXCEPT !.pc = x].copy = et[t].copy
  BY <1>1, MovedThread
<1>3. /\ et' \in [EmergeThreads -> AThread]
      /\ et'[t] = [et[t] EXCEPT !.pc = x]
      /\ \A u \in EmergeThreads \ {t} : et'[u] = et[u]
  BY <1>1, <1>2, ThreadMoves DEF EtTypeOK
<1>4. QED
  BY <1>2, <1>3 DEF EtTypeOK

(* What stays when what it speaks of does.                                 *)
LEMMA QueuesStay ==
  ASSUME InOneQueue, Charged, UNCHANGED <<queueVars, asked>>
  PROVE  InOneQueue' /\ Charged'
BY DEF InOneQueue, Charged, EntriesOf, queueVars

SameCallbacks == \A t \in EmergeThreads : et'[t].callbacks = et[t].callbacks

LEMMA CallsStay ==
  ASSUME CallbacksOnce, CallsAreCounted, SameCallbacks,
         UNCHANGED <<blocks_enqueued, bedata, awaited, called, excuse>>
  PROVE  CallbacksOnce' /\ CallsAreCounted' /\ Held' = Held
<1>1. \A t \in EmergeThreads : AtThread(t)' = AtThread(t)
  BY DEF SameCallbacks, AtThread
<1>2. \A p : AtEntry(p)' = AtEntry(p)
  BY DEF AtEntry
<1>3. Held' = Held
  <2>1. {ToSet(et[t].callbacks) : t \in EmergeThreads}'
          = {ToSet(et[t].callbacks) : t \in EmergeThreads}
    BY <1>1 DEF AtThread
  <2>2. QED
    BY <2>1 DEF Held
<1>4. CallsAreCounted'
  BY <1>3 DEF CallsAreCounted
<1>5. CallbacksOnce'
  BY <1>1, <1>2 DEF CallbacksOnce, SameCallbacks
<1>6. QED
  BY <1>3, <1>4, <1>5

(* The same threads make the same chunks.                                  *)
IsMaking(t) == et[t].pc \in {"make", "finish"}
SameMaking == \A t \in EmergeThreads : /\ IsMaking(t)' <=> IsMaking(t)
                                       /\ IsMaking(t) => et'[t].pos = et[t].pos

LEMMA ChunksStay ==
  ASSUME OneGeneratorPerChunk, SameMaking, UNCHANGED <<world, chunks_in_progress>>,
         asyncFatal => asyncFatal'
  PROVE  OneGeneratorPerChunk'
<1>1. \A t \in EmergeThreads, c \in Chunks : MakingChunk(t, c)' <=> MakingChunk(t, c)
  BY DEF SameMaking, MakingChunk, IsMaking, At
<1>2. QED
  BY <1>1 DEF OneGeneratorPerChunk

LEMMA CopiesStay ==
  ASSUME CopiesAreTrue, UNCHANGED <<everEdited, raced>>,
         \A t \in EmergeThreads : IsMaking(t)' => /\ IsMaking(t) /\ et'[t].pos = et[t].pos
                                                  /\ et'[t].copy = et[t].copy
  PROVE  CopiesAreTrue'
BY DEF CopiesAreTrue, IsMaking

LEMMA EditsStay ==
  ASSUME EditsSurvive, UNCHANGED <<everEdited, raced, loaded, edited, storedEdited>>
  PROVE  EditsSurvive'
BY DEF EditsSurvive

(* The steps that only move a thread on.                                   *)
OnlyMoves(t, x) ==
  /\ Moves(t, x) /\ x \in ThreadPlaces
  /\ queue_event' \subseteq EmergeThreads
  /\ asyncFatal' \in BOOLEAN /\ (asyncFatal => asyncFatal')
  /\ UNCHANGED <<world, queueVars, unsignalled, chunks_in_progress, mapVars, diskVars,
                 emergeStop, askVars, callVars, editVars>>

MovedOn(t, x) ==
  /\ et'[t].pc = x
  /\ \A u \in EmergeThreads : /\ et'[u].pos = et[u].pos /\ et'[u].copy = et[u].copy
                              /\ et'[u].callbacks = et[u].callbacks
                              /\ u # t => et'[u] = et[u]

LEMMA MoveKeeps ==
  ASSUME EmergeInv, NEW t \in EmergeThreads, NEW x, OnlyMoves(t, x),
         x \notin {"make", "finish"} \/ IsMaking(t),
         IsMaking(t) => x \in {"make", "finish"} \/ asyncFatal',
         et[t].callbacks = <<>> \/ x \in {"fetch", "make", "finish", "report"},
         x # "fetch", Awake'
  PROVE  EmergeInv' /\ Held' = Held
<1>1. /\ Moves(t, x) /\ x \in ThreadPlaces /\ (asyncFatal => asyncFatal')
      /\ EtTypeOK /\ EmergeTypeOK
      /\ queue_event' \subseteq EmergeThreads /\ asyncFatal' \in BOOLEAN
  BY TypesOfParts DEF OnlyMoves, EmergeInv
<1>2. UNCHANGED <<world, blocks_enqueued, bedata, peer_queue_count, block_queue, unsignalled,
                  chunks_in_progress, loaded, generated, edited, stored, storedGenerated,
                  storedEdited, damaged, emergeStop, asked, awaited, called, excuse,
                  everEdited, raced>>
  BY DEF OnlyMoves, queueVars, mapVars, diskVars, askVars, callVars, editVars
<1>3. EtTypeOK' /\ MovedOn(t, x)
  BY <1>1, MovesOnly DEF MovedOn
<1>4. EmergeTypeOK'
  BY <1>1, <1>2, <1>3 DEF EmergeTypeOK, EtTypeOK, AThread, ThreadPlaces
<1>5. HandsAreFull'
  BY <1>3 DEF EmergeInv, HandsAreFull, MovedOn, IsMaking
<1>6. InOneQueue' /\ Charged'
  BY <1>2, QueuesStay DEF EmergeInv, queueVars
<1>7. CallbacksOnce' /\ CallsAreCounted' /\ Held' = Held
  BY <1>2, <1>3, CallsStay DEF EmergeInv, SameCallbacks, MovedOn
<1>8. OneGeneratorPerChunk'
  <2>1. CASE IsMaking(t) <=> x \in {"make", "finish"}
    <3>1. SameMaking
      BY <1>3, <2>1 DEF SameMaking, IsMaking, MovedOn
    <3>2. QED
      BY <1>1, <1>2, <3>1, ChunksStay DEF EmergeInv
  <2>2. CASE asyncFatal' /\ x \notin {"make", "finish"}
    <3>1. \A u \in EmergeThreads, c \in Chunks : MakingChunk(u, c)' => MakingChunk(u, c)
      BY <1>3, <2>2 DEF MakingChunk, At, MovedOn
    <3>2. OneGeneratorPerChunk
      BY DEF EmergeInv
    <3>3. QED
      BY <1>2, <2>2, <3>1, <3>2 DEF OneGeneratorPerChunk
  <2>3. QED
    BY <2>1, <2>2
<1>9. CopiesAreTrue' /\ EditsSurvive'
  <2>1. \A u \in EmergeThreads : IsMaking(u)' => /\ IsMaking(u) /\ et'[u].pos = et[u].pos
                                                 /\ et'[u].copy = et[u].copy
    BY <1>3 DEF IsMaking, MovedOn
  <2>2. QED
    BY <1>2, <2>1, CopiesStay, EditsStay DEF EmergeInv
<1>10. QED
  BY <1>4, <1>5, <1>6, <1>7, <1>8, <1>9 DEF EmergeInv

LEMMA AwakeIs ==
  EmergeInv =>
    /\ emergeStop \subseteq EmergeThreads
    /\ \A t \in EmergeThreads :
         /\ et[t].pc = "wait" /\ (block_queue[t] # <<>> \/ t \in emergeStop)
              => t \in queue_event \union unsignalled
         /\ t \in emergeStop /\ et[t].pc \notin {"check", "ended"} => t \in queue_event
BY DEF EmergeInv, EmergeTypeOK, Awake, NoLostWakeUp, At

LEMMA StartScriptingKeeps ==
  ASSUME EmergeInv, NEW t \in EmergeThreads, StartScripting(t)
  PROVE  EmergeInv' /\ Held' = Held
<1>1. PICK x \in {"check", "ended"} : Moves(t, x) /\ asyncFatal' \in BOOLEAN
                                      /\ (asyncFatal => asyncFatal')
  <2>0. asyncFatal \in BOOLEAN
    BY DEF EmergeInv, EmergeTypeOK
  <2>1. CASE Goto(t, "check") /\ UNCHANGED asyncFatal
    BY <2>0, <2>1 DEF Moves, Goto
  <2>2. CASE Goto(t, "ended") /\ asyncFatal' = TRUE
    BY <2>2 DEF Moves, Goto
  <2>3. QED
    BY <2>1, <2>2 DEF StartScripting
<1>2. OnlyMoves(t, x) /\ UNCHANGED queue_event
  BY <1>1 DEF StartScripting, OnlyMoves, EmergeInv, EmergeTypeOK, ThreadPlaces, ThreadOnly, NoMap,
     NoWork, callVars, mapVars, diskVars, editVars
<1>3. et[t].pc = "start" /\ et[t].callbacks = <<>>
  BY DEF StartScripting, At, EmergeInv, HandsAreFull
<1>4. MovedOn(t, x)
  BY <1>2, TypesOfParts, MovesOnly DEF OnlyMoves, MovedOn, EmergeInv
<1>5. Awake'
  BY <1>2, <1>3, <1>4, AwakeIs DEF Awake, NoLostWakeUp, At, MovedOn, OnlyMoves, queueVars
<1>6. QED
  BY <1>2, <1>3, <1>5, MoveKeeps DEF IsMaking

LEMMA CheckStopKeeps ==
  ASSUME EmergeInv, NEW t \in EmergeThreads, CheckStop(t)
  PROVE  EmergeInv' /\ Held' = Held
<1>1. PICK x \in {"pop", "ended"} : Moves(t, x) /\ (t \in emergeStop => x = "ended")
  BY DEF CheckStop, Moves, Goto
<1>2. OnlyMoves(t, x) /\ UNCHANGED queue_event
  BY <1>1 DEF CheckStop, OnlyMoves, EmergeInv, EmergeTypeOK, ThreadPlaces, ThreadOnly, NoMap,
     NoWork, callVars, mapVars, diskVars, editVars
<1>3. et[t].pc = "check" /\ et[t].callbacks = <<>>
  BY DEF CheckStop, At, EmergeInv, HandsAreFull
<1>4. MovedOn(t, x)
  BY <1>2, TypesOfParts, MovesOnly DEF OnlyMoves, MovedOn, EmergeInv
<1>5. Awake'
  BY <1>1, <1>2, <1>3, <1>4, AwakeIs DEF Awake, NoLostWakeUp, At, MovedOn, OnlyMoves, queueVars
<1>6. QED
  BY <1>2, <1>3, <1>5, MoveKeeps DEF IsMaking

LEMMA WaitKeeps ==
  ASSUME EmergeInv, NEW t \in EmergeThreads, Wait(t)
  PROVE  EmergeInv' /\ Held' = Held
<1>1. Moves(t, "check") /\ queue_event' = queue_event \ {t}
  BY DEF Wait, Moves, Goto
<1>2. OnlyMoves(t, "check")
  BY <1>1 DEF Wait, OnlyMoves, EmergeInv, EmergeTypeOK, ThreadPlaces, ThreadOnly, NoMap,
     NoWork, callVars, mapVars, diskVars, editVars
<1>3. et[t].pc = "wait" /\ et[t].callbacks = <<>>
  BY DEF Wait, At, EmergeInv, HandsAreFull
<1>4. MovedOn(t, "check")
  BY <1>2, TypesOfParts, MovesOnly DEF OnlyMoves, MovedOn, EmergeInv
<1>5. Awake'
  BY <1>1, <1>2, <1>4, AwakeIs DEF Awake, NoLostWakeUp, At, MovedOn, OnlyMoves, queueVars
<1>6. QED
  BY <1>2, <1>3, <1>5, MoveKeeps DEF IsMaking

LEMMA MakeChunkKeeps ==
  ASSUME EmergeInv, NEW t \in EmergeThreads, makeChunk(t)
  PROVE  EmergeInv' /\ Held' = Held
<1>1. PICK x \in {"finish", "report"} : /\ Moves(t, x) /\ asyncFatal' \in BOOLEAN
                                        /\ asyncFatal => asyncFatal'
                                        /\ x = "report" => asyncFatal'
  <2>0. asyncFatal \in BOOLEAN
    BY DEF EmergeInv, EmergeTypeOK
  <2>1. CASE Goto(t, "finish") /\ UNCHANGED asyncFatal
    BY <2>0, <2>1 DEF Moves, Goto
  <2>2. CASE Goto(t, "report") /\ asyncFatal' = TRUE
    BY <2>2 DEF Moves, Goto
  <2>3. QED
    BY <2>1, <2>2 DEF makeChunk
<1>2. OnlyMoves(t, x) /\ UNCHANGED queue_event
  BY <1>1 DEF makeChunk, OnlyMoves, EmergeInv, EmergeTypeOK, ThreadPlaces, ThreadOnly, NoMap,
     NoWork, callVars, mapVars, diskVars, editVars
<1>3. et[t].pc = "make"
  BY DEF makeChunk, At
<1>4. MovedOn(t, x)
  BY <1>2, TypesOfParts, MovesOnly DEF OnlyMoves, MovedOn, EmergeInv
<1>5. Awake'
  BY <1>2, <1>3, <1>4, AwakeIs DEF Awake, NoLostWakeUp, At, MovedOn, OnlyMoves, queueVars
<1>6. QED
  BY <1>1, <1>2, <1>3, <1>5, MoveKeeps DEF IsMaking
-----------------------------------------------------------------------------
(* A request.                                                              *)

LEMMA JoinLast ==
  ASSUME NEW S, NEW s \in Seq(S), NEW e \in S
  PROVE  s \o <<>> = s /\ s \o <<e>> = Append(s, e) /\ <<e>> \in Seq(S)
         /\ ToSet(<<e>>) = {e} /\ Once(<<e>>)
<1>1. s \o <<>> = s /\ s \o <<e>> = Append(s, e) /\ <<e>> \in Seq(S)
  OBVIOUS
<1>2. Len(<<e>>) = 1 /\ <<e>>[1] = e /\ \A i \in 1 .. Len(<<e>>) : i = 1
  OBVIOUS
<1>3. ToSet(<<e>>) = {<<e>>[i] : i \in 1 .. Len(<<e>>)}
  BY <1>1, QueueSet
<1>4. ToSet(<<e>>) = {e}
  <2>1. 1 \in 1 .. Len(<<e>>)
    BY <1>2
  <2>2. QED
    BY <1>2, <1>3, <2>1, Zenon
<1>5. Once(<<e>>)
  BY <1>2, Zenon DEF Once
<1>6. QED
  BY <1>1, <1>4, <1>5

(* The request in the books: of an entry that is there, or of a new one.   *)
LEMMA PushKeepsQueues ==
  ASSUME EmergeInv, NEW p \in Positions, NEW a \in Askers, NEW gen \in BOOLEAN,
         NEW force \in BOOLEAN, NEW callbacks \in Seq(Requests),
         enqueueBlockEmergeEx(p, a, gen, force, callbacks)
  PROVE  /\ InOneQueue'
         /\ \A t \in EmergeThreads : block_queue'[t] # block_queue[t] => t \in unsignalled'
         /\ block_queue' \in [EmergeThreads -> Seq(Positions)]
         /\ unsignalled \subseteq unsignalled' /\ unsignalled' \subseteq EmergeThreads
<1>1. /\ block_queue \in [EmergeThreads -> Seq(Positions)] /\ asked \in Nat /\ asked' = asked + 1
      /\ unsignalled \subseteq EmergeThreads
      /\ InOneQueue
  BY TypesOfParts DEF EmergeInv, enqueueBlockEmergeEx, EmergeTypeOK
<1>2. \A t \in EmergeThreads : Len(block_queue[t]) \in Nat
  BY <1>1
<1>3. CASE p \in blocks_enqueued
  <2>1. UNCHANGED <<blocks_enqueued, block_queue, unsignalled>>
    BY <1>3 DEF enqueueBlockEmergeEx, pushBlockEmergeData
  <2>2. \A t \in EmergeThreads : Len(block_queue[t]) <= asked + 1
    BY <1>1, <1>2 DEF InOneQueue
  <2>3. QED
    BY <1>1, <2>1, <2>2 DEF InOneQueue
<1>4. CASE p \notin blocks_enqueued
  <2>1. PICK t \in EmergeThreads : t = getOptimalThread
    BY <1>1, OptimalThread
  <2>2. /\ blocks_enqueued' = blocks_enqueued \union {p}
        /\ block_queue' = [block_queue EXCEPT ![t] = Append(@, p)]
        /\ unsignalled' = unsignalled \union {t}
    BY <1>4, <2>1, Zenon DEF enqueueBlockEmergeEx, pushBlockEmergeData
  <2>3. /\ block_queue'[t] = Append(block_queue[t], p)
        /\ \A u \in EmergeThreads \ {t} : block_queue'[u] = block_queue[u]
        /\ block_queue' \in [EmergeThreads -> Seq(Positions)]
    BY <1>1, <2>2
  <2>4. p \notin ToSet(block_queue[t]) /\ Once(block_queue[t])
    BY <1>1, <1>4 DEF InOneQueue
  <2>5. /\ ToSet(block_queue'[t]) = ToSet(block_queue[t]) \union {p}
        /\ Once(block_queue'[t])
        /\ Len(block_queue'[t]) = Len(block_queue[t]) + 1
    <3>1. block_queue[t] \in Seq(Positions)
      BY <1>1
    <3>2. QED
      BY <2>3, <2>4, <3>1, PutLast
  <2>6. \A u \in EmergeThreads : Len(block_queue'[u]) <= asked'
    <3>1. \A u \in EmergeThreads : Len(block_queue[u]) <= asked
      BY <1>1 DEF InOneQueue
    <3>2. Len(block_queue'[t]) <= asked'
      BY <1>1, <1>2, <2>5, <3>1
    <3>3. \A u \in EmergeThreads \ {t} : Len(block_queue'[u]) <= asked'
      BY <1>1, <1>2, <2>3, <3>1
    <3>4. QED
      BY <3>2, <3>3
  <2>7. IsFiniteSet(blocks_enqueued')
    BY <1>1, <2>2, FS_AddElement DEF InOneQueue
  <2>8. \A u \in EmergeThreads : /\ Once(block_queue'[u])
                                 /\ ToSet(block_queue'[u]) \subseteq blocks_enqueued'
    BY <1>1, <2>2, <2>3, <2>5 DEF InOneQueue
  <2>9. \A q \in blocks_enqueued' : \E u \in EmergeThreads : q \in ToSet(block_queue'[u])
    BY <1>1, <2>2, <2>3, <2>5 DEF InOneQueue
  <2>10. \A u, v \in EmergeThreads :
           \A q \in ToSet(block_queue'[u]) \cap ToSet(block_queue'[v]) : u = v
    <3> SUFFICES ASSUME NEW u \in EmergeThreads, NEW v \in EmergeThreads,
                        NEW q \in ToSet(block_queue'[u]) \cap ToSet(block_queue'[v])
                 PROVE  u = v
      OBVIOUS
    <3>1. CASE q = p
      <4>1. \A w \in EmergeThreads : p \notin ToSet(block_queue[w])
        BY <1>1, <1>4 DEF InOneQueue
      <4>2. QED
        BY <2>3, <3>1, <4>1
    <3>2. CASE q # p
      BY <1>1, <2>3, <2>5, <3>2 DEF InOneQueue
    <3>3. QED
      BY <3>1, <3>2
  <2>11. InOneQueue'
    BY <2>6, <2>7, <2>8, <2>9, <2>10 DEF InOneQueue
  <2>12. QED
    BY <1>1, <2>1, <2>2, <2>3, <2>11
<1>5. QED
  BY <1>3, <1>4

(* Who asked is charged for a new entry.                                   *)
LEMMA PushCharges ==
  ASSUME EmergeInv, NEW p \in Positions, NEW a \in Askers, NEW gen \in BOOLEAN,
         NEW callbacks \in Seq(Requests), pushBlockEmergeData(p, a, gen, callbacks)
  PROVE  Charged' /\ peer_queue_count' \in [Askers -> 0 .. COUNT_SIZE - 1]
<1>1. /\ bedata \in [Positions -> [gen : BOOLEAN, peer : Askers, callbacks : Seq(Requests)]]
      /\ blocks_enqueued \subseteq Positions /\ IsFiniteSet(blocks_enqueued) /\ Charged
      /\ peer_queue_count \in [Askers -> 0 .. COUNT_SIZE - 1]
      /\ COUNT_SIZE \in Nat \ {0}
  BY TypesOfParts, EmergeAssumption DEF EmergeInv, InOneQueue
<1>2. CASE p \in blocks_enqueued
  <2>1. /\ UNCHANGED <<blocks_enqueued, peer_queue_count>>
        /\ \A q \in Positions : bedata'[q].peer = bedata[q].peer
    <3>1. PICK g : g = (bedata[p].gen \/ gen)
      OBVIOUS
    <3>2. bedata' = [bedata EXCEPT ![p].gen = g, ![p].callbacks = @ \o callbacks]
          /\ UNCHANGED <<blocks_enqueued, peer_queue_count>>
      BY <1>2, <3>1, Zenon DEF pushBlockEmergeData
    <3>3. QED
      BY <1>1, <3>2
  <2>2. \A b \in Askers : EntriesOf(b)' = EntriesOf(b)
    BY <1>1, <2>1 DEF EntriesOf
  <2>3. QED
    BY <1>1, <2>1, <2>2 DEF Charged
<1>3. CASE p \notin blocks_enqueued
  <2>1. /\ bedata' = [bedata EXCEPT ![p] = [gen |-> gen, peer |-> a, callbacks |-> callbacks]]
        /\ blocks_enqueued' = blocks_enqueued \union {p}
        /\ peer_queue_count' = [peer_queue_count EXCEPT ![a] = (@ + 1) % COUNT_SIZE]
    BY <1>3 DEF pushBlockEmergeData
  <2>2. bedata'[p].peer = a /\ \A q \in Positions \ {p} : bedata'[q] = bedata[q]
    BY <1>1, <2>1
  <2>3. EntriesOf(a)' = EntriesOf(a) \union {p} /\ p \notin EntriesOf(a)
    BY <1>1, <1>3, <2>1, <2>2 DEF EntriesOf
  <2>4. \A b \in Askers \ {a} : EntriesOf(b)' = EntriesOf(b)
    BY <1>1, <1>3, <2>1, <2>2 DEF EntriesOf
  <2>5. PICK E : E = EntriesOf(a)
    OBVIOUS
  <2>6. IsFiniteSet(E)
    BY <1>1, <2>5, FS_Subset DEF EntriesOf
  <2>7. Cardinality(E \union {p}) = Cardinality(E) + 1 /\ Cardinality(E) \in Nat
    BY <2>3, <2>5, <2>6, FS_AddElement, FS_CardinalityType
  <2>8. PICK n \in Nat : n = Cardinality(E)
    BY <2>7
  <2>9. peer_queue_count[a] = n % COUNT_SIZE
    BY <1>1, <2>5, <2>8 DEF Charged
  <2>10. (peer_queue_count[a] + 1) % COUNT_SIZE = (n + 1) % COUNT_SIZE
         /\ (n + 1) % COUNT_SIZE \in 0 .. COUNT_SIZE - 1
    <3>1. n + 1 \in Nat
      OBVIOUS
    <3>2. ((n % COUNT_SIZE) + 1) % COUNT_SIZE = (n + 1) % COUNT_SIZE
      BY <1>1, CountsWrap, Zenon
    <3>3. (n + 1) % COUNT_SIZE \in 0 .. COUNT_SIZE - 1
      BY <1>1, <3>1, CountsWrap, Zenon
    <3>4. QED
      BY <2>9, <3>2, <3>3
  <2>11. /\ peer_queue_count'[a] = (n + 1) % COUNT_SIZE
         /\ \A b \in Askers \ {a} : peer_queue_count'[b] = peer_queue_count[b]
         /\ peer_queue_count' \in [Askers -> 0 .. COUNT_SIZE - 1]
    BY <1>1, <2>1, <2>10
  <2>12. Cardinality(EntriesOf(a)') = n + 1
    BY <2>3, <2>5, <2>7, <2>8
  <2>13. Charged'
    BY <1>1, <2>4, <2>11, <2>12 DEF Charged
  <2>14. QED
    BY <2>11, <2>13
<1>4. QED
  BY <1>2, <1>3
(* The callback of a request is a new one.                                 *)
LEMMA NewCallbacks ==
  ASSUME EmergeTypeOK, asked < world.requests, NEW callbacks \in {<<>>, <<asked + 1>>}
  PROVE  /\ callbacks \in Seq(Requests) /\ Once(callbacks)
         /\ ToSet(callbacks) \subseteq Requests /\ ToSet(callbacks) \cap awaited = {}
         /\ ToSet(callbacks) = {} \/ ToSet(callbacks) = {asked + 1}
         /\ \A s \in Seq(Requests) :
              /\ s \o callbacks \in Seq(Requests)
              /\ ToSet(s \o callbacks) = ToSet(s) \union ToSet(callbacks)
              /\ Once(s) /\ ToSet(s) \cap ToSet(callbacks) = {} => Once(s \o callbacks)
<1>1. asked \in Nat /\ asked + 1 \in Requests /\ asked + 1 \notin awaited
  BY TypesOfParts DEF Requests
<1>2. CASE callbacks = <<>>
  <2>1. <<>> \in Seq(Requests) /\ \A s \in Seq(Requests) : s \o <<>> = s
    OBVIOUS
  <2>2. QED
    BY <1>2, <2>1, EmptyQueue
<1>3. CASE callbacks = <<asked + 1>>
  <2>1. /\ <<asked + 1>> \in Seq(Requests) /\ ToSet(<<asked + 1>>) = {asked + 1}
        /\ Once(<<asked + 1>>)
        /\ \A s \in Seq(Requests) : s \o <<asked + 1>> = Append(s, asked + 1)
    <3>1. <<>> \in Seq(Requests)
      OBVIOUS
    <3>2. QED
      BY <1>1, <3>1, JoinLast
  <2>2. \A s \in Seq(Requests) :
          /\ Append(s, asked + 1) \in Seq(Requests)
          /\ ToSet(Append(s, asked + 1)) = ToSet(s) \union {asked + 1}
          /\ Once(s) /\ asked + 1 \notin ToSet(s) => Once(Append(s, asked + 1))
    BY <1>1, PutLast
  <2>3. QED
    BY <1>1, <1>3, <2>1, <2>2
<1>4. QED
  BY <1>2, <1>3

(* Requests go with an entry from then on.                                 *)
LEMMA PushBedata ==
  ASSUME EmergeTypeOK, NEW p \in Positions, NEW a \in Askers, NEW gen \in BOOLEAN,
         NEW callbacks \in Seq(Requests), pushBlockEmergeData(p, a, gen, callbacks),
         \A s \in Seq(Requests) : s \o callbacks \in Seq(Requests)
  PROVE  /\ bedata' \in [Positions -> [gen : BOOLEAN, peer : Askers, callbacks : Seq(Requests)]]
         /\ bedata'[p].callbacks = IF p \in blocks_enqueued THEN bedata[p].callbacks \o callbacks
                                   ELSE callbacks
         /\ \A q \in Positions \ {p} : bedata'[q] = bedata[q]
         /\ blocks_enqueued' = blocks_enqueued \union {p}
<1>1. bedata \in [Positions -> [gen : BOOLEAN, peer : Askers, callbacks : Seq(Requests)]]
  BY TypesOfParts
<1>2. CASE p \in blocks_enqueued
  <2>1. PICK g \in BOOLEAN : g = (bedata[p].gen \/ gen)
    OBVIOUS
  <2>2. /\ bedata' = [bedata EXCEPT ![p].gen = g, ![p].callbacks = @ \o callbacks]
        /\ blocks_enqueued' = blocks_enqueued
    BY <1>2, <2>1, Zenon DEF pushBlockEmergeData
  <2>3. bedata[p].callbacks \o callbacks \in Seq(Requests)
    BY <1>1
  <2>4. PICK s \in Seq(Requests) : s = bedata[p].callbacks \o callbacks
    BY <2>3
  <2>5. bedata' = [bedata EXCEPT ![p] = [bedata[p] EXCEPT !.gen = g, !.callbacks = s]]
    BY <1>1, <2>2, <2>4
  <2>6. [bedata[p] EXCEPT !.gen = g, !.callbacks = s]
          \in [gen : BOOLEAN, peer : Askers, callbacks : Seq(Requests)]
        /\ [bedata[p] EXCEPT !.gen = g, !.callbacks = s].callbacks = s
    BY <1>1
  <2>7. QED
    BY <1>1, <1>2, <2>2, <2>4, <2>5, <2>6
<1>3. CASE p \notin blocks_enqueued
  <2>1. /\ bedata' = [bedata EXCEPT ![p] = [gen |-> gen, peer |-> a, callbacks |-> callbacks]]
        /\ blocks_enqueued' = blocks_enqueued \union {p}
    BY <1>3 DEF pushBlockEmergeData
  <2>2. QED
    BY <1>1, <1>3, <2>1
<1>4. QED
  BY <1>2, <1>3


LEMMA HeldBy ==
  \A r : r \in Held <=> \/ \E p \in blocks_enqueued : r \in AtEntry(p)
                        \/ \E t \in EmergeThreads : r \in AtThread(t)
<1>1. \A r : r \in UNION {ToSet(bedata[p].callbacks) : p \in blocks_enqueued}
             <=> \E p \in blocks_enqueued : r \in ToSet(bedata[p].callbacks)
  BY Zenon
<1>2. \A r : r \in UNION {ToSet(et[t].callbacks) : t \in EmergeThreads}
             <=> \E t \in EmergeThreads : r \in ToSet(et[t].callbacks)
  BY Zenon
<1>3. \A r : r \in Held <=> \/ r \in UNION {ToSet(bedata[p].callbacks) : p \in blocks_enqueued}
                         \/ r \in UNION {ToSet(et[t].callbacks) : t \in EmergeThreads}
  BY Zenon DEF Held
<1>4. QED
  BY <1>1, <1>2, <1>3 DEF AtEntry, AtThread

LEMMA HeldByNow ==
  \A r : r \in Held' <=> \/ \E p \in blocks_enqueued' : r \in AtEntry(p)'
                         \/ \E t \in EmergeThreads : r \in AtThread(t)'
<1>1. \A r : r \in UNION {ToSet(bedata'[p].callbacks) : p \in blocks_enqueued'}
             <=> \E p \in blocks_enqueued' : r \in ToSet(bedata'[p].callbacks)
  BY Zenon
<1>2. \A r : r \in UNION {ToSet(et'[t].callbacks) : t \in EmergeThreads}
             <=> \E t \in EmergeThreads : r \in ToSet(et'[t].callbacks)
  BY Zenon
<1>3. \A r : r \in Held' <=> \/ r \in UNION {ToSet(bedata'[p].callbacks) : p \in blocks_enqueued'}
                         \/ r \in UNION {ToSet(et'[t].callbacks) : t \in EmergeThreads}
  BY Zenon DEF Held
<1>4. QED
  BY <1>1, <1>2, <1>3 DEF AtEntry, AtThread

LEMMA PushKeepsCalls ==
  ASSUME EmergeInv, NEW p \in Positions, NEW a \in Askers, NEW gen \in BOOLEAN,
         NEW callbacks \in {<<>>, <<asked + 1>>}, asked < world.requests,
         pushBlockEmergeData(p, a, gen, callbacks), awaited' = awaited \union ToSet(callbacks),
         UNCHANGED <<et, called, excuse>>
  PROVE  CallbacksOnce' /\ CallsAreCounted' /\ Held' = Held \union ToSet(callbacks)
<1>1. EmergeTypeOK /\ CallbacksOnce /\ CallsAreCounted
  BY DEF EmergeInv
<1>2. PICK C : C = ToSet(callbacks)
  OBVIOUS
<1>3. /\ callbacks \in Seq(Requests) /\ Once(callbacks)
      /\ C \subseteq Requests /\ C \cap awaited = {}
      /\ \A s \in Seq(Requests) :
           /\ s \o callbacks \in Seq(Requests)
           /\ ToSet(s \o callbacks) = ToSet(s) \union C
           /\ Once(s) /\ ToSet(s) \cap C = {} => Once(s \o callbacks)
  BY <1>1, <1>2, NewCallbacks
<1>4. /\ bedata'[p].callbacks = IF p \in blocks_enqueued THEN bedata[p].callbacks \o callbacks
                                ELSE callbacks
      /\ \A q \in Positions \ {p} : bedata'[q] = bedata[q]
      /\ blocks_enqueued' = blocks_enqueued \union {p}
  BY <1>1, <1>3, PushBedata
<1>5. /\ bedata \in [Positions -> [gen : BOOLEAN, peer : Askers, callbacks : Seq(Requests)]]
      /\ blocks_enqueued \subseteq Positions
  BY <1>1, TypesOfParts
<1>6. C \cap Held = {} /\ C \cap excuse = {}
  BY <1>1, <1>3, TypesOfParts DEF CallsAreCounted
<1>7. /\ AtEntry(p)' = IF p \in blocks_enqueued THEN AtEntry(p) \union C ELSE C
      /\ Once(bedata'[p].callbacks)
  <2>1. CASE p \in blocks_enqueued
    <3>1. bedata[p].callbacks \in Seq(Requests) /\ Once(bedata[p].callbacks)
      BY <1>1, <1>5, <2>1 DEF CallbacksOnce
    <3>2. AtEntry(p) \cap C = {}
      BY <1>6, <2>1, HeldBy
    <3>3. QED
      BY <1>3, <1>4, <2>1, <3>1, <3>2 DEF AtEntry
  <2>2. CASE p \notin blocks_enqueued
    BY <1>2, <1>3, <1>4, <2>2 DEF AtEntry
  <2>3. QED
    BY <2>1, <2>2
<1>8. \A q \in blocks_enqueued \ {p} : AtEntry(q)' = AtEntry(q)
                                       /\ bedata'[q].callbacks = bedata[q].callbacks
  BY <1>4, <1>5 DEF AtEntry
<1>9. \A t \in EmergeThreads : AtThread(t)' = AtThread(t)
  BY DEF AtThread
<1>10. Held' = Held \union C
  BY <1>4, <1>7, <1>8, <1>9, HeldBy, HeldByNow
<1>11. CallsAreCounted'
  BY <1>1, <1>2, <1>3, <1>6, <1>10 DEF CallsAreCounted
<1>12. CallbacksOnce'
  <2>1. \A q \in blocks_enqueued' : Once(bedata'[q].callbacks)
    BY <1>1, <1>4, <1>7, <1>8 DEF CallbacksOnce
  <2>2. \A t \in EmergeThreads : Once(et'[t].callbacks)
    BY <1>1 DEF CallbacksOnce
  <2>3. \A t \in EmergeThreads : AtThread(t) \cap C = {}
    BY <1>6, HeldBy
  <2>4. \A q \in blocks_enqueued \ {p} : AtEntry(q) \cap C = {}
    BY <1>6, HeldBy
  <2>5. \A q, s \in blocks_enqueued' : \A r \in AtEntry(q)' \cap AtEntry(s)' : q = s
    BY <1>1, <1>4, <1>7, <1>8, <2>4 DEF CallbacksOnce
  <2>6. \A t, u \in EmergeThreads : \A r \in AtThread(t)' \cap AtThread(u)' : t = u
    BY <1>1, <1>9 DEF CallbacksOnce
  <2>7. \A q \in blocks_enqueued', t \in EmergeThreads : AtEntry(q)' \cap AtThread(t)' = {}
    BY <1>1, <1>4, <1>7, <1>8, <1>9, <2>3 DEF CallbacksOnce
  <2>8. QED
    BY <2>1, <2>2, <2>5, <2>6, <2>7 DEF CallbacksOnce
<1>13. QED
  BY <1>2, <1>10, <1>11, <1>12
LEMMA EnqueueKeeps ==
  ASSUME EmergeInv, NEW p \in Positions, NEW a \in Askers, NEW gen \in BOOLEAN,
         NEW force \in BOOLEAN, NEW callbacks \in {<<>>, <<asked + 1>>},
         enqueueBlockEmergeEx(p, a, gen, force, callbacks)
  PROVE  /\ EmergeInv' /\ Held' = Held \union ToSet(callbacks)
         /\ awaited' = awaited \union ToSet(callbacks)
         /\ ToSet(callbacks) \subseteq Requests \ awaited
<1>1. /\ asked < world.requests /\ asked' = asked + 1
      /\ pushBlockEmergeData(p, a, gen, callbacks)
      /\ awaited' = awaited \union ToSet(callbacks)
      /\ UNCHANGED <<world, queue_event, et, chunks_in_progress, emergeStop, asyncFatal>>
      /\ UNCHANGED <<called, excuse, loaded, generated, edited, everEdited, raced>>
      /\ UNCHANGED <<stored, storedGenerated, storedEdited, damaged>>
  BY DEF enqueueBlockEmergeEx, mapVars, diskVars, callVars, editVars
<1>2. EmergeTypeOK
  BY DEF EmergeInv
<1>3. /\ callbacks \in Seq(Requests) /\ ToSet(callbacks) \subseteq Requests
      /\ ToSet(callbacks) \cap awaited = {}
      /\ ToSet(callbacks) = {} \/ ToSet(callbacks) = {asked + 1}
      /\ \A s \in Seq(Requests) : s \o callbacks \in Seq(Requests)
  BY <1>1, <1>2, NewCallbacks
<1>4. /\ InOneQueue'
      /\ \A t \in EmergeThreads : block_queue'[t] # block_queue[t] => t \in unsignalled'
      /\ block_queue' \in [EmergeThreads -> Seq(Positions)]
      /\ unsignalled \subseteq unsignalled' /\ unsignalled' \subseteq EmergeThreads
  BY <1>3, PushKeepsQueues
<1>5. Charged' /\ peer_queue_count' \in [Askers -> 0 .. COUNT_SIZE - 1]
  BY <1>1, <1>3, PushCharges
<1>6. CallbacksOnce' /\ CallsAreCounted' /\ Held' = Held \union ToSet(callbacks)
  BY <1>1, PushKeepsCalls
<1>7. /\ bedata' \in [Positions -> [gen : BOOLEAN, peer : Askers, callbacks : Seq(Requests)]]
      /\ blocks_enqueued' = blocks_enqueued \union {p}
  BY <1>1, <1>2, <1>3, PushBedata
<1>8. EmergeTypeOK'
  <2>1. asked' \in 0 .. MaxRequests /\ awaited' \subseteq 1 .. asked' /\ excuse' \subseteq awaited'
        /\ called' \in [Requests -> Nat]
    <3>1. /\ asked \in 0 .. MaxRequests /\ awaited \subseteq 1 .. asked /\ excuse \subseteq awaited
          /\ called \in [Requests -> Nat] /\ world.requests \in 0 .. MaxRequests
          /\ MaxRequests \in Nat
      BY <1>2, TypesOfParts
    <3>2. asked' \in 0 .. MaxRequests
      BY <1>1, <3>1
    <3>3. awaited' \subseteq 1 .. asked'
      <4>1. asked \in Nat /\ 1 .. asked \subseteq 1 .. asked + 1 /\ asked + 1 \in 1 .. asked + 1
        BY <3>1
      <4>2. awaited \subseteq 1 .. asked + 1 /\ ToSet(callbacks) \subseteq 1 .. asked + 1
        BY <1>3, <3>1, <4>1
      <4>3. QED
        BY <1>1, <4>2
    <3>4. QED
      BY <1>1, <3>1, <3>2, <3>3
  <2>2. queue_event' \union unsignalled' \union emergeStop' \subseteq EmergeThreads
    BY <1>1, <1>2, <1>4 DEF EmergeTypeOK
  <2>3. QED
    BY <1>1, <1>2, <1>4, <1>5, <1>7, <2>1, <2>2 DEF EmergeTypeOK
<1>9. HandsAreFull'
  BY <1>1 DEF EmergeInv, HandsAreFull
<1>10. OneGeneratorPerChunk' /\ CopiesAreTrue' /\ EditsSurvive'
  <2>1. SameMaking
    BY <1>1 DEF SameMaking, IsMaking
  <2>2. QED
    BY <1>1, <2>1, ChunksStay, CopiesStay, EditsStay DEF EmergeInv, SameMaking
<1>11. Awake'
  BY <1>1, <1>4, AwakeIs DEF Awake, NoLostWakeUp, At
<1>12. QED
  BY <1>1, <1>3, <1>4, <1>5, <1>6, <1>8, <1>9, <1>10, <1>11 DEF EmergeInv

LEMMA AskKeeps ==
  ASSUME EmergeInv, NEW p \in Positions,
         \/ \E a \in EmergePeers, gen \in BOOLEAN : AskForClient(p, a, gen)
         \/ getBlockOrEmerge(p) \/ emerge_area(p)
  PROVE  EmergeInv' /\ \E N \in SUBSET (Requests \ awaited) :
                         Held' = Held \union N /\ awaited' = awaited \union N
                         /\ UNCHANGED <<called, excuse>>
<1>1. PICK a \in Askers, gen \in BOOLEAN, force \in BOOLEAN, callbacks \in {<<>>, <<asked + 1>>} :
        enqueueBlockEmergeEx(p, a, gen, force, callbacks)
  BY DEF AskForClient, getBlockOrEmerge, emerge_area, Askers
<1>2. UNCHANGED <<called, excuse>>
  BY <1>1 DEF enqueueBlockEmergeEx, callVars
<1>3. QED
  BY <1>1, <1>2, EnqueueKeeps

(* Threads are woken and stopped.                                          *)
LEMMA SignalKeeps ==
  ASSUME EmergeInv, NEW t \in EmergeThreads, Signal(t)
  PROVE  EmergeInv' /\ Held' = Held
<1>1. /\ unsignalled' = unsignalled \ {t} /\ queue_event' = queue_event \union {t}
      /\ UNCHANGED <<world, et, chunks_in_progress, emergeStop, asyncFatal, asked, awaited>>
      /\ UNCHANGED <<called, excuse, loaded, generated, edited, everEdited, raced>>
      /\ UNCHANGED <<stored, storedGenerated, storedEdited, damaged, queueVars, blocks_enqueued,
                     bedata, peer_queue_count, block_queue>>
  BY DEF Signal, queueVars, mapVars, diskVars, askVars, callVars, editVars
<1>2. EmergeTypeOK'
  BY <1>1 DEF EmergeInv, EmergeTypeOK
<1>3. HandsAreFull'
  BY <1>1 DEF EmergeInv, HandsAreFull
<1>4. SameMaking /\ SameCallbacks
  BY <1>1 DEF SameMaking, IsMaking, SameCallbacks
<1>5. OneGeneratorPerChunk' /\ CopiesAreTrue' /\ EditsSurvive'
  BY <1>1, <1>4, ChunksStay, CopiesStay, EditsStay DEF EmergeInv, SameMaking
<1>6. InOneQueue' /\ Charged'
  BY <1>1, QueuesStay DEF EmergeInv
<1>7. CallbacksOnce' /\ CallsAreCounted' /\ Held' = Held
  BY <1>1, <1>4, CallsStay DEF EmergeInv
<1>8. Awake'
  BY <1>1, AwakeIs DEF Awake, NoLostWakeUp, At
<1>9. QED
  BY <1>2, <1>3, <1>5, <1>6, <1>7, <1>8 DEF EmergeInv

LEMMA StopThreadKeeps ==
  ASSUME EmergeInv, NEW t \in EmergeThreads, StopThread(t)
  PROVE  EmergeInv' /\ Held' = Held
<1>1. /\ emergeStop' = emergeStop \union {t} /\ queue_event' = queue_event \union {t}
      /\ UNCHANGED <<world, et, chunks_in_progress, unsignalled, asyncFatal, asked, awaited>>
      /\ UNCHANGED <<called, excuse, loaded, generated, edited, everEdited, raced>>
      /\ UNCHANGED <<stored, storedGenerated, storedEdited, damaged, queueVars, blocks_enqueued,
                     bedata, peer_queue_count, block_queue>>
  BY DEF StopThread, ServerOnly, queueVars, mapVars, diskVars, askVars, callVars, editVars
<1>2. EmergeTypeOK'
  BY <1>1 DEF EmergeInv, EmergeTypeOK
<1>3. HandsAreFull'
  BY <1>1 DEF EmergeInv, HandsAreFull
<1>4. SameMaking /\ SameCallbacks
  BY <1>1 DEF SameMaking, IsMaking, SameCallbacks
<1>5. OneGeneratorPerChunk' /\ CopiesAreTrue' /\ EditsSurvive'
  BY <1>1, <1>4, ChunksStay, CopiesStay, EditsStay DEF EmergeInv, SameMaking
<1>6. InOneQueue' /\ Charged'
  BY <1>1, QueuesStay DEF EmergeInv
<1>7. CallbacksOnce' /\ CallsAreCounted' /\ Held' = Held
  BY <1>1, <1>4, CallsStay DEF EmergeInv
<1>8. Awake'
  BY <1>1, AwakeIs DEF Awake, NoLostWakeUp, At
<1>9. QED
  BY <1>2, <1>3, <1>5, <1>6, <1>7, <1>8 DEF EmergeInv

(* The server thread changes the map.                                      *)
LEMMA MapChangeKeeps ==
  ASSUME EmergeInv, ServerOnly, UNCHANGED <<queue_event, emergeStop>>,
         generated' \union edited' \subseteq loaded', loaded' \subseteq Positions,
         storedGenerated' \union storedEdited' \union damaged' \subseteq stored',
         stored' \subseteq Positions, everEdited' \subseteq Editable, raced' \subseteq everEdited',
         CopiesAreTrue', EditsSurvive'
  PROVE  EmergeInv' /\ Held' = Held
<1>1. /\ UNCHANGED <<world, et, chunks_in_progress, unsignalled, asyncFatal, asked, awaited>>
      /\ UNCHANGED <<called, excuse, queue_event, emergeStop, queueVars, blocks_enqueued,
                     bedata, peer_queue_count, block_queue>>
  BY DEF ServerOnly, queueVars, askVars, callVars
<1>2. EmergeTypeOK'
  BY <1>1 DEF EmergeInv, EmergeTypeOK
<1>3. HandsAreFull'
  BY <1>1 DEF EmergeInv, HandsAreFull
<1>4. SameMaking /\ SameCallbacks
  BY <1>1 DEF SameMaking, IsMaking, SameCallbacks
<1>5. OneGeneratorPerChunk'
  BY <1>1, <1>4, ChunksStay DEF EmergeInv
<1>6. InOneQueue' /\ Charged'
  BY <1>1, QueuesStay DEF EmergeInv
<1>7. CallbacksOnce' /\ CallsAreCounted' /\ Held' = Held
  BY <1>1, <1>4, CallsStay DEF EmergeInv
<1>8. Awake'
  BY <1>1 DEF EmergeInv, Awake, NoLostWakeUp, At
<1>9. QED
  BY <1>2, <1>3, <1>5, <1>6, <1>7, <1>8 DEF EmergeInv

LEMMA EditBlockKeeps ==
  ASSUME EmergeInv, NEW p \in Positions, EditBlock(p)
  PROVE  EmergeInv' /\ Held' = Held
<1>1. /\ p \in Editable /\ p \in loaded /\ p \notin everEdited
      /\ edited' = edited \union {p} /\ everEdited' = everEdited \union {p}
      /\ raced' = raced \union ({p} \cap InTheMaking)
      /\ ServerOnly /\ UNCHANGED <<queue_event, emergeStop, loaded, generated>>
      /\ UNCHANGED <<et, stored, storedGenerated, storedEdited, damaged>>
  BY DEF EditBlock, diskVars, ServerOnly
<1>2. EmergeTypeOK /\ CopiesAreTrue /\ EditsSurvive
  BY DEF EmergeInv
<1>3. \A t \in EmergeThreads : IsMaking(t) /\ p \in FullArea[Chunk[et[t].pos]] => p \in InTheMaking
  BY DEF InTheMaking, IsMaking, At
<1>4. CopiesAreTrue'
  <2> SUFFICES ASSUME NEW t \in EmergeThreads, IsMaking(t),
                      NEW q \in FullArea[Chunk[et[t].pos]], q \in everEdited', q \notin raced'
               PROVE  q \in et[t].copy
    BY <1>1 DEF CopiesAreTrue, IsMaking
  <2>1. q # p
    BY <1>1, <1>3
  <2>2. QED
    BY <1>1, <1>2, <2>1 DEF CopiesAreTrue, IsMaking
<1>5. EditsSurvive'
  BY <1>1, <1>2 DEF EditsSurvive
<1>6. QED
  BY <1>1, <1>2, <1>4, <1>5, MapChangeKeeps DEF EmergeTypeOK

LEMMA UnloadBlockKeeps ==
  ASSUME EmergeInv, NEW p \in Positions, UnloadBlock(p)
  PROVE  EmergeInv' /\ Held' = Held
<1>1. /\ p \in loaded /\ stored' = stored \union {p}
      /\ storedGenerated' = (storedGenerated \ {p}) \union ({p} \cap generated)
      /\ storedEdited' = (storedEdited \ {p}) \union ({p} \cap edited)
      /\ damaged' = damaged \ {p} /\ loaded' = loaded \ {p} /\ generated' = generated \ {p}
      /\ edited' = edited \ {p}
      /\ ServerOnly /\ UNCHANGED <<et, queue_event, emergeStop, everEdited, raced>>
  BY DEF UnloadBlock, Moved, editVars, ServerOnly
<1>2. EmergeTypeOK /\ CopiesAreTrue /\ EditsSurvive
  BY DEF EmergeInv
<1>3. CopiesAreTrue'
  BY <1>1, <1>2 DEF CopiesAreTrue
<1>4. EditsSurvive'
  BY <1>1, <1>2 DEF EditsSurvive
<1>5. QED
  BY <1>1, <1>2, <1>3, <1>4, MapChangeKeeps DEF EmergeTypeOK

LEMMA DeleteBlockKeeps ==
  ASSUME EmergeInv, NEW p \in Positions, DeleteBlock(p)
  PROVE  EmergeInv' /\ Held' = Held
<1>1. /\ loaded' = loaded \ {p} /\ generated' = generated \ {p} /\ edited' = edited \ {p}
      /\ stored' = stored \ {p} /\ storedGenerated' = storedGenerated \ {p}
      /\ storedEdited' = storedEdited \ {p} /\ damaged' = damaged \ {p}
      /\ everEdited' = everEdited \ {p} /\ raced' = raced \ {p}
      /\ ServerOnly /\ UNCHANGED <<et, queue_event, emergeStop>>
  BY DEF DeleteBlock, ServerOnly
<1>2. EmergeTypeOK /\ CopiesAreTrue /\ EditsSurvive
  BY DEF EmergeInv
<1>3. CopiesAreTrue'
  BY <1>1, <1>2 DEF CopiesAreTrue
<1>4. EditsSurvive'
  BY <1>1, <1>2 DEF EditsSurvive
<1>5. QED
  BY <1>1, <1>2, <1>3, <1>4, MapChangeKeeps DEF EmergeTypeOK
-----------------------------------------------------------------------------
(* A thread takes a position.                                              *)

LEMMA PopKeepsQueues ==
  ASSUME EmergeInv, NEW t \in EmergeThreads, block_queue[t] # <<>>,
         block_queue' = [block_queue EXCEPT ![t] = Tail(@)],
         popBlockEmergeData(Head(block_queue[t])), asked' = asked
  PROVE  /\ InOneQueue' /\ Charged'
         /\ Head(block_queue[t]) \in blocks_enqueued
         /\ block_queue' \in [EmergeThreads -> Seq(Positions)]
         /\ \A u \in EmergeThreads \ {t} : block_queue'[u] = block_queue[u]
         /\ peer_queue_count' \in [Askers -> 0 .. COUNT_SIZE - 1]
<1>1. /\ block_queue \in [EmergeThreads -> Seq(Positions)] /\ asked \in Nat
      /\ InOneQueue /\ Charged
      /\ bedata \in [Positions -> [gen : BOOLEAN, peer : Askers, callbacks : Seq(Requests)]]
      /\ blocks_enqueued \subseteq Positions /\ IsFiniteSet(blocks_enqueued)
      /\ peer_queue_count \in [Askers -> 0 .. COUNT_SIZE - 1]
      /\ COUNT_SIZE \in Nat \ {0}
  BY TypesOfParts, EmergeAssumption DEF EmergeInv, InOneQueue
<1>2. PICK p : p = Head(block_queue[t])
  OBVIOUS
<1>3. /\ blocks_enqueued' = blocks_enqueued \ {p} /\ bedata' = [bedata EXCEPT ![p] = NoData]
      /\ peer_queue_count' =
           [peer_queue_count EXCEPT ![bedata[p].peer] = (@ + COUNT_SIZE - 1) % COUNT_SIZE]
  BY <1>2 DEF popBlockEmergeData
<1>4. PICK s \in Seq(Positions) : s = block_queue[t]
  BY <1>1
<1>5. /\ p \in Positions /\ Tail(s) \in Seq(Positions)
      /\ ToSet(s) = ToSet(Tail(s)) \union {p} /\ Once(Tail(s)) /\ p \notin ToSet(Tail(s))
      /\ Len(Tail(s)) = Len(s) - 1 /\ Len(s) \in Nat
  <2>1. s # <<>> /\ Once(s)
    BY <1>1, <1>4 DEF InOneQueue
  <2>2. Len(Tail(s)) = Len(s) - 1 /\ Len(s) \in Nat
    BY <2>1
  <2>3. QED
    BY <1>2, <1>4, <2>1, <2>2, TakeFirst
<1>6. /\ block_queue'[t] = Tail(s) /\ \A u \in EmergeThreads \ {t} : block_queue'[u] = block_queue[u]
      /\ block_queue' \in [EmergeThreads -> Seq(Positions)]
  BY <1>1, <1>4, <1>5
<1>7. p \in blocks_enqueued /\ \A u \in EmergeThreads \ {t} : p \notin ToSet(block_queue[u])
  BY <1>1, <1>4, <1>5 DEF InOneQueue
<1>8. InOneQueue'
  <2>1. IsFiniteSet(blocks_enqueued')
    BY <1>1, <1>3, FS_Subset
  <2>2. \A u \in EmergeThreads : Once(block_queue'[u])
                                 /\ ToSet(block_queue'[u]) \subseteq blocks_enqueued'
    BY <1>1, <1>3, <1>4, <1>5, <1>6, <1>7 DEF InOneQueue
  <2>3. \A u \in EmergeThreads : Len(block_queue'[u]) <= asked'
    <3>1. Len(s) <= asked /\ asked \in Nat
      BY <1>1, <1>4 DEF InOneQueue
    <3>2. Len(block_queue'[t]) <= asked'
      <4>1. PICK k \in Nat : k = Len(s)
        BY <1>5
      <4>2. Len(block_queue'[t]) = k - 1 /\ k <= asked
        BY <1>5, <1>6, <3>1, <4>1, Zenon
      <4>3. QED
        BY <3>1, <4>1, <4>2
    <3>3. \A u \in EmergeThreads \ {t} : Len(block_queue'[u]) <= asked'
      BY <1>1, <1>6 DEF InOneQueue
    <3>4. QED
      BY <3>2, <3>3
  <2>4. \A q \in blocks_enqueued' : \E u \in EmergeThreads : q \in ToSet(block_queue'[u])
    <3> SUFFICES ASSUME NEW q \in blocks_enqueued, q # p
                 PROVE  \E u \in EmergeThreads : q \in ToSet(block_queue'[u])
      BY <1>3
    <3>1. PICK u \in EmergeThreads : q \in ToSet(block_queue[u])
      BY <1>1 DEF InOneQueue
    <3>2. q \in ToSet(block_queue'[u])
      BY <1>4, <1>5, <1>6, <3>1
    <3>3. QED
      BY <3>2
  <2>5. \A u \in EmergeThreads : ToSet(block_queue'[u]) \subseteq ToSet(block_queue[u])
    BY <1>4, <1>5, <1>6
  <2>6. \A u, v \in EmergeThreads :
          \A q \in ToSet(block_queue'[u]) \cap ToSet(block_queue'[v]) : u = v
    BY <1>1, <2>5 DEF InOneQueue
  <2>7. QED
    BY <2>1, <2>2, <2>3, <2>4, <2>6 DEF InOneQueue
<1>9. Charged' /\ peer_queue_count' \in [Askers -> 0 .. COUNT_SIZE - 1]
  <2>1. PICK a \in Askers : a = bedata[p].peer
    BY <1>1, <1>5
  <2>2. \A q \in Positions \ {p} : bedata'[q] = bedata[q]
    BY <1>1, <1>3
  <2>3. EntriesOf(a)' = EntriesOf(a) \ {p} /\ p \in EntriesOf(a)
    BY <1>1, <1>3, <1>7, <2>1, <2>2 DEF EntriesOf
  <2>4. \A b \in Askers \ {a} : EntriesOf(b)' = EntriesOf(b)
    BY <1>1, <1>3, <2>1, <2>2 DEF EntriesOf
  <2>5. PICK E : E = EntriesOf(a)
    OBVIOUS
  <2>6. IsFiniteSet(E)
    BY <1>1, <2>5, FS_Subset DEF EntriesOf
  <2>7. Cardinality(E \ {p}) = Cardinality(E) - 1 /\ Cardinality(E) \in Nat
    BY <2>3, <2>5, <2>6, FS_RemoveElement, FS_CardinalityType
  <2>8. Cardinality(E \ {p}) \in Nat
    BY <2>6, FS_RemoveElement, FS_CardinalityType
  <2>9. PICK n \in Nat : n = Cardinality(E)
    BY <2>7
  <2>10. n > 0 /\ n - 1 \in Nat
    BY <2>7, <2>8, <2>9
  <2>11. peer_queue_count[a] = n % COUNT_SIZE
    BY <1>1, <2>5, <2>9 DEF Charged
  <2>12. (peer_queue_count[a] + COUNT_SIZE - 1) % COUNT_SIZE = (n - 1) % COUNT_SIZE
         /\ (n - 1) % COUNT_SIZE \in 0 .. COUNT_SIZE - 1
    <3>1. ((n % COUNT_SIZE) + COUNT_SIZE - 1) % COUNT_SIZE = (n - 1) % COUNT_SIZE
      BY <1>1, <2>10, CountsWrap, Zenon
    <3>2. (n - 1) % COUNT_SIZE \in 0 .. COUNT_SIZE - 1
      BY <1>1, <2>10, CountsWrap, Zenon
    <3>3. QED
      BY <2>11, <3>1, <3>2
  <2>13. /\ peer_queue_count'[a] = (n - 1) % COUNT_SIZE
         /\ \A b \in Askers \ {a} : peer_queue_count'[b] = peer_queue_count[b]
         /\ peer_queue_count' \in [Askers -> 0 .. COUNT_SIZE - 1]
    BY <1>1, <1>3, <2>1, <2>12
  <2>14. Cardinality(EntriesOf(a)') = n - 1
    BY <2>3, <2>5, <2>7, <2>9
  <2>15. Charged'
    BY <1>1, <2>4, <2>13, <2>14 DEF Charged
  <2>16. QED
    BY <2>13, <2>15
<1>10. QED
  BY <1>2, <1>6, <1>7, <1>8, <1>9

(* The callbacks of the entry go to the thread, or are given up.           *)
LEMMA PopKeepsCalls ==
  ASSUME EmergeInv, NEW t \in EmergeThreads, NEW p \in blocks_enqueued,
         et[t].callbacks = <<>>, EtTypeOK', popBlockEmergeData(p),
         \A u \in EmergeThreads \ {t} : et'[u] = et[u],
         UNCHANGED <<awaited, called>>,
         \/ et'[t].callbacks = bedata[p].callbacks /\ excuse' = excuse
         \/ et'[t].callbacks = <<>> /\ excuse' = excuse \union AtEntry(p)
  PROVE  /\ CallbacksOnce' /\ CallsAreCounted'
         /\ bedata' \in [Positions -> [gen : BOOLEAN, peer : Askers, callbacks : Seq(Requests)]]
         /\ excuse' \subseteq awaited
         /\ \E N \in SUBSET Held : Held' = Held \ N /\ excuse' = excuse \union N
<1>1. /\ bedata \in [Positions -> [gen : BOOLEAN, peer : Askers, callbacks : Seq(Requests)]]
      /\ blocks_enqueued \subseteq Positions /\ CallbacksOnce /\ CallsAreCounted
      /\ excuse \subseteq awaited
  BY TypesOfParts DEF EmergeInv
<1>2. /\ blocks_enqueued' = blocks_enqueued \ {p} /\ bedata' = [bedata EXCEPT ![p] = NoData]
  BY DEF popBlockEmergeData
<1>3. /\ \A q \in blocks_enqueued \ {p} : bedata'[q] = bedata[q]
      /\ \A q \in blocks_enqueued \ {p} : AtEntry(q)' = AtEntry(q)
  BY <1>1, <1>2 DEF AtEntry
<1>4. \A u \in EmergeThreads \ {t} : AtThread(u)' = AtThread(u)
  BY DEF AtThread
<1>5. AtThread(t) = {} /\ Once(<<>>)
  BY EmptyQueue DEF AtThread
<1>6. NoData \in [gen : BOOLEAN, peer : Askers, callbacks : Seq(Requests)]
  <2>1. <<>> \in Seq(Requests) /\ PEER_ID_INEXISTENT \in Askers
    BY DEF Askers
  <2>2. QED
    BY <2>1 DEF NoData
<1>7. bedata' \in [Positions -> [gen : BOOLEAN, peer : Askers, callbacks : Seq(Requests)]]
  BY <1>1, <1>2, <1>6
<1>8. PICK C : C = AtEntry(p)
  OBVIOUS
<1>9. C \subseteq Held /\ \A q \in blocks_enqueued \ {p} : AtEntry(q) \cap C = {}
  BY <1>1, <1>8, HeldBy DEF CallbacksOnce
<1>10. \A u \in EmergeThreads : AtThread(u) \cap C = {}
  BY <1>1, <1>8 DEF CallbacksOnce
<1>11. CASE et'[t].callbacks = bedata[p].callbacks /\ excuse' = excuse
  <2>1. AtThread(t)' = C /\ Once(et'[t].callbacks)
    BY <1>1, <1>8, <1>11 DEF AtThread, AtEntry, CallbacksOnce
  <2>2. Held' = Held
    BY <1>2, <1>3, <1>4, <1>5, <1>8, <2>1, HeldBy, HeldByNow
  <2>3. CallsAreCounted'
    BY <1>1, <1>11, <2>2 DEF CallsAreCounted
  <2>4. \A q \in blocks_enqueued' : Once(bedata'[q].callbacks)
    BY <1>1, <1>2, <1>3 DEF CallbacksOnce
  <2>5. \A u \in EmergeThreads : Once(et'[u].callbacks)
    BY <1>1, <2>1 DEF CallbacksOnce
  <2>6. \A q, s \in blocks_enqueued' : \A r \in AtEntry(q)' \cap AtEntry(s)' : q = s
    BY <1>1, <1>2, <1>3 DEF CallbacksOnce
  <2>7. \A u, v \in EmergeThreads : \A r \in AtThread(u)' \cap AtThread(v)' : u = v
    BY <1>1, <1>4, <1>10, <2>1 DEF CallbacksOnce
  <2>8. \A q \in blocks_enqueued', u \in EmergeThreads : AtEntry(q)' \cap AtThread(u)' = {}
    BY <1>1, <1>2, <1>3, <1>4, <1>9, <2>1 DEF CallbacksOnce
  <2>9. CallbacksOnce'
    BY <2>4, <2>5, <2>6, <2>7, <2>8 DEF CallbacksOnce
  <2>10. Held' = Held \ {} /\ excuse' = excuse \union {}
    BY <1>11, <2>2
  <2>11. QED
    BY <1>1, <1>7, <1>11, <2>3, <2>9, <2>10
<1>12. CASE et'[t].callbacks = <<>> /\ excuse' = excuse \union AtEntry(p)
  <2>1. AtThread(t)' = {} /\ Once(et'[t].callbacks)
    BY <1>12, EmptyQueue DEF AtThread
  <2>2. Held' = Held \ C
    BY <1>2, <1>3, <1>4, <1>5, <1>8, <1>9, <1>10, <2>1, HeldBy, HeldByNow
  <2>3. CallsAreCounted' /\ excuse' \subseteq awaited
    BY <1>1, <1>8, <1>9, <1>12, <2>2 DEF CallsAreCounted
  <2>4. \A q \in blocks_enqueued' : Once(bedata'[q].callbacks)
    BY <1>1, <1>2, <1>3 DEF CallbacksOnce
  <2>5. \A u \in EmergeThreads : Once(et'[u].callbacks)
    BY <1>1, <2>1 DEF CallbacksOnce
  <2>6. \A q, s \in blocks_enqueued' : \A r \in AtEntry(q)' \cap AtEntry(s)' : q = s
    BY <1>1, <1>2, <1>3 DEF CallbacksOnce
  <2>7. \A u, v \in EmergeThreads : \A r \in AtThread(u)' \cap AtThread(v)' : u = v
    BY <1>1, <1>4, <2>1 DEF CallbacksOnce
  <2>8. \A q \in blocks_enqueued', u \in EmergeThreads : AtEntry(q)' \cap AtThread(u)' = {}
    BY <1>1, <1>2, <1>3, <1>4, <2>1 DEF CallbacksOnce
  <2>9. CallbacksOnce'
    BY <2>4, <2>5, <2>6, <2>7, <2>8 DEF CallbacksOnce
  <2>10. QED
    BY <1>7, <1>8, <1>9, <1>12, <2>2, <2>3, <2>9
<1>13. QED
  BY <1>11, <1>12
LEMMA PopBlockEmergeKeeps ==
  ASSUME EmergeInv, NEW t \in EmergeThreads, popBlockEmerge(t)
  PROVE  /\ EmergeInv' /\ UNCHANGED <<awaited, called>>
         /\ \E N \in SUBSET Held : Held' = Held \ N /\ excuse' = excuse \union N
<1>1. /\ et[t].pc = "pop" /\ et[t].callbacks = <<>> /\ EtTypeOK /\ EmergeTypeOK
  BY TypesOfParts DEF popBlockEmerge, At, EmergeInv, HandsAreFull
<1>2. /\ UNCHANGED <<world, unsignalled, asked, awaited, stored, storedGenerated, storedEdited,
                     damaged, emergeStop, edited, everEdited, raced, loaded, generated,
                     chunks_in_progress, queue_event, called, asyncFatal>>
  BY DEF popBlockEmerge, ThreadOnly, NoMap, askVars
<1>3. CASE block_queue[t] = <<>>
  <2>1. Moves(t, "wait") /\ UNCHANGED <<queueVars, excuse>>
    BY <1>3 DEF popBlockEmerge, Moves, Goto
  <2>2. OnlyMoves(t, "wait")
    BY <1>1, <1>2, <2>1 DEF OnlyMoves, EmergeTypeOK, ThreadPlaces, callVars, mapVars, diskVars,
       editVars, askVars
  <2>3. MovedOn(t, "wait")
    BY <1>1, <2>2, MovesOnly DEF OnlyMoves, MovedOn
  <2>4. Awake'
    BY <1>1, <1>2, <1>3, <2>1, <2>3, AwakeIs DEF Awake, NoLostWakeUp, At, MovedOn, queueVars
  <2>5. EmergeInv' /\ Held' = Held
    BY <1>1, <2>2, <2>4, MoveKeeps DEF IsMaking
  <2>6. Held' = Held \ {} /\ excuse' = excuse \union {}
    BY <2>1, <2>5
  <2>7. QED
    BY <1>2, <2>5, <2>6
<1>4. CASE block_queue[t] # <<>>
  <2>1. PICK p, d : p = Head(block_queue[t]) /\ d = bedata[p]
    OBVIOUS
  <2>2. /\ block_queue' = [block_queue EXCEPT ![t] = Tail(@)] /\ popBlockEmergeData(p)
        /\ \/ Moves(t, "check") /\ excuse' = excuse \union AtEntry(p)
           \/ /\ et' = [et EXCEPT ![t] = [Idle EXCEPT !.pc = "fetch", !.pos = p,
                                              !.gen = d.gen, !.callbacks = d.callbacks]]
              /\ excuse' = excuse
    BY <1>4, <2>1 DEF popBlockEmerge, Moves, Goto, AtEntry
  <2>3. /\ InOneQueue' /\ Charged' /\ p \in blocks_enqueued
        /\ block_queue' \in [EmergeThreads -> Seq(Positions)]
        /\ \A u \in EmergeThreads \ {t} : block_queue'[u] = block_queue[u]
        /\ peer_queue_count' \in [Askers -> 0 .. COUNT_SIZE - 1]
    BY <1>2, <1>4, <2>1, <2>2, PopKeepsQueues
  <2>4. p \in Positions /\ d \in [gen : BOOLEAN, peer : Askers, callbacks : Seq(Requests)]
    BY <1>1, <2>1, <2>3, TypesOfParts
  <2>5. PICK x \in {"check", "fetch"} :
          /\ EtTypeOK' /\ et'[t].pc = x /\ (x = "fetch" => et'[t].pos = p)
          /\ \A u \in EmergeThreads \ {t} : et'[u] = et[u]
          /\ \/ x = "fetch" /\ et'[t].callbacks = d.callbacks /\ excuse' = excuse
             \/ et'[t].callbacks = <<>> /\ excuse' = excuse \union AtEntry(p)
    <3>1. CASE Moves(t, "check") /\ excuse' = excuse \union AtEntry(p)
      <4>1. "check" \in ThreadPlaces
        BY DEF ThreadPlaces
      <4>2. EtTypeOK' /\ MovedOn(t, "check")
        BY <1>1, <3>1, <4>1, MovesOnly DEF MovedOn
      <4>3. QED
        BY <1>1, <3>1, <4>2 DEF MovedOn
    <3>2. CASE /\ et' = [et EXCEPT ![t] = [Idle EXCEPT !.pc = "fetch", !.pos = p,
                                               !.gen = d.gen, !.callbacks = d.callbacks]]
               /\ excuse' = excuse
      <4>1. PICK e : e = [Idle EXCEPT !.pc = "fetch", !.pos = p, !.gen = d.gen,
                                      !.callbacks = d.callbacks]
        OBVIOUS
      <4>2. e = [pc |-> "fetch", pos |-> p, gen |-> d.gen, callbacks |-> d.callbacks,
                 copy |-> {}, known |-> {}]
        BY <4>1 DEF Idle
      <4>3. e \in AThread /\ e.pc = "fetch" /\ e.pos = p /\ e.callbacks = d.callbacks
        BY <2>4, <4>2 DEF AThread, ThreadPlaces
      <4>4. et' \in [EmergeThreads -> AThread] /\ et'[t] = e
            /\ \A u \in EmergeThreads \ {t} : et'[u] = et[u]
        BY <1>1, <3>2, <4>1, <4>3, ThreadMoves DEF EtTypeOK
      <4>5. QED
        BY <3>2, <4>3, <4>4 DEF EtTypeOK
    <3>3. QED
      BY <2>2, <3>1, <3>2
  <2>6. /\ CallbacksOnce' /\ CallsAreCounted'
        /\ bedata' \in [Positions -> [gen : BOOLEAN, peer : Askers, callbacks : Seq(Requests)]]
        /\ excuse' \subseteq awaited
        /\ \E N \in SUBSET Held : Held' = Held \ N /\ excuse' = excuse \union N
    BY <1>1, <1>2, <2>1, <2>2, <2>3, <2>5, PopKeepsCalls
  <2>7. EmergeTypeOK'
    <3>1. blocks_enqueued' \subseteq Positions
      BY <1>1, <2>2 DEF popBlockEmergeData, EmergeTypeOK
    <3>2. QED
      BY <1>1, <1>2, <2>3, <2>5, <2>6, <3>1 DEF EmergeTypeOK, EtTypeOK, AThread, ThreadPlaces
  <2>8. HandsAreFull'
    BY <2>4, <2>5 DEF HandsAreFull, EmergeInv
  <2>9. SameMaking /\ \A u \in EmergeThreads : IsMaking(u)' => u # t
    BY <1>1, <2>5 DEF SameMaking, IsMaking
  <2>10. OneGeneratorPerChunk' /\ EditsSurvive'
    BY <1>2, <2>9, ChunksStay, EditsStay DEF EmergeInv
  <2>11. CopiesAreTrue'
    BY <1>2, <2>5, <2>9, CopiesStay DEF EmergeInv, SameMaking
  <2>12. Awake'
    BY <1>1, <1>2, <2>3, <2>5, AwakeIs DEF Awake, NoLostWakeUp, At
  <2>13. QED
    BY <1>2, <2>3, <2>6, <2>7, <2>8, <2>10, <2>11, <2>12 DEF EmergeInv
<1>5. QED
  BY <1>3, <1>4

(* A callback is called, or the thread has no more.                        *)
LEMMA CallbackKeeps ==
  ASSUME EmergeInv, NEW t \in EmergeThreads, runCompletionCallbacks(t)
  PROVE  /\ EmergeInv' /\ UNCHANGED <<awaited, excuse>>
         /\ \/ Held' = Held /\ called' = called
            \/ \E r \in Held : Held' = Held \ {r} /\ called' = [called EXCEPT ![r] = @ + 1]
<1>1. /\ et[t].pc = "report" /\ EtTypeOK /\ EmergeTypeOK /\ CallbacksOnce /\ CallsAreCounted
      /\ called \in [Requests -> Nat]
  BY TypesOfParts DEF runCompletionCallbacks, At, EmergeInv
<1>2. /\ UNCHANGED <<world, unsignalled, asked, awaited, stored, storedGenerated, storedEdited,
                     damaged, emergeStop, edited, everEdited, raced, loaded, generated,
                     chunks_in_progress, queue_event, excuse, asyncFatal, queueVars,
                     blocks_enqueued, bedata, peer_queue_count, block_queue>>
  BY DEF runCompletionCallbacks, ThreadOnly, NoMap, NoWork, askVars, queueVars
<1>3. PICK s \in Seq(Requests) : s = et[t].callbacks
  BY <1>1 DEF EtTypeOK, AThread
<1>4. PICK x \in {"check", "report"} :
        /\ EtTypeOK' /\ et'[t].pc = x
        /\ \A u \in EmergeThreads \ {t} : et'[u] = et[u]
        /\ \/ x = "check" /\ s = <<>> /\ et'[t].callbacks = <<>> /\ called' = called
           \/ x = "report" /\ s # <<>> /\ et'[t].callbacks = Tail(s)
              /\ called' = [called EXCEPT ![Head(s)] = @ + 1]
  <2>1. CASE s = <<>>
    <3>1. et' = [et EXCEPT ![t] = [Idle EXCEPT !.pc = "check"]] /\ called' = called
      BY <1>3, <2>1 DEF runCompletionCallbacks
    <3>2. PICK e : e = [Idle EXCEPT !.pc = "check"]
      OBVIOUS
    <3>3. e \in AThread /\ e.pc = "check" /\ e.callbacks = <<>>
      <4>1. e = [pc |-> "check", pos |-> NoPosition, gen |-> FALSE, callbacks |-> <<>>,
                 copy |-> {}, known |-> {}]
        BY <3>2 DEF Idle
      <4>2. "check" \in ThreadPlaces
        BY DEF ThreadPlaces
      <4>3. QED
        BY <3>2, <4>1, <4>2, IdleIsAThread
    <3>4. et' \in [EmergeThreads -> AThread] /\ et'[t] = e
          /\ \A u \in EmergeThreads \ {t} : et'[u] = et[u]
      BY <1>1, <3>1, <3>2, <3>3, ThreadMoves DEF EtTypeOK
    <3>5. QED
      BY <2>1, <3>1, <3>3, <3>4 DEF EtTypeOK
  <2>2. CASE s # <<>>
    <3>1. et' = [et EXCEPT ![t].callbacks = Tail(s)]
          /\ called' = [called EXCEPT ![Head(s)] = @ + 1]
      BY <1>1, <1>3, <2>2 DEF runCompletionCallbacks
    <3>2. PICK e : e = [et[t] EXCEPT !.callbacks = Tail(s)]
      OBVIOUS
    <3>3. Tail(s) \in Seq(Requests) /\ et[t] \in AThread
      BY <1>1, <2>2, TakeFirst DEF EtTypeOK
    <3>4. PICK z \in Seq(Requests) : z = Tail(s)
      BY <3>3
    <3>5. e \in AThread /\ e.pc = "report" /\ e.callbacks = Tail(s)
      BY <1>1, <3>2, <3>3, <3>4 DEF AThread
    <3>6. et' = [et EXCEPT ![t] = e]
      BY <3>1, <3>2
    <3>7. et' \in [EmergeThreads -> AThread] /\ et'[t] = e
          /\ \A u \in EmergeThreads \ {t} : et'[u] = et[u]
      BY <1>1, <3>5, <3>6, ThreadMoves DEF EtTypeOK
    <3>8. QED
      BY <2>2, <3>1, <3>5, <3>7 DEF EtTypeOK
  <2>3. QED
    BY <2>1, <2>2
<1>5. /\ \A u \in EmergeThreads \ {t} : AtThread(u)' = AtThread(u)
      /\ \A q : AtEntry(q)' = AtEntry(q)
  BY <1>2, <1>4 DEF AtThread, AtEntry
<1>6. /\ CallbacksOnce' /\ CallsAreCounted' /\ called' \in [Requests -> Nat]
      /\ \/ Held' = Held /\ called' = called
         \/ \E r \in Held : Held' = Held \ {r} /\ called' = [called EXCEPT ![r] = @ + 1]
  <2>1. CASE s = <<>>
    <3>1. et'[t].callbacks = et[t].callbacks /\ called' = called
      BY <1>3, <1>4, <2>1
    <3>2. SameCallbacks
      BY <1>4, <3>1 DEF SameCallbacks
    <3>3. QED
      BY <1>1, <1>2, <3>1, <3>2, CallsStay
  <2>2. CASE s # <<>>
    <3>1. PICK r : r = Head(s)
      OBVIOUS
    <3>2. /\ et'[t].callbacks = Tail(s) /\ called' = [called EXCEPT ![r] = @ + 1]
      BY <1>4, <2>2, <3>1
    <3>3. /\ r \in Requests /\ ToSet(s) = ToSet(Tail(s)) \union {r}
          /\ Once(Tail(s)) /\ r \notin ToSet(Tail(s))
      BY <1>1, <1>3, <2>2, <3>1, TakeFirst DEF CallbacksOnce
    <3>4. AtThread(t)' = AtThread(t) \ {r} /\ r \in AtThread(t) /\ Once(et'[t].callbacks)
      BY <1>3, <3>2, <3>3 DEF AtThread
    <3>5. r \in Held /\ (\A u \in EmergeThreads \ {t} : r \notin AtThread(u))
          /\ \A q \in blocks_enqueued : r \notin AtEntry(q)
      BY <1>1, <3>4, HeldBy DEF CallbacksOnce
    <3>6. Held' = Held \ {r}
      BY <1>2, <1>5, <3>4, <3>5, HeldBy, HeldByNow
    <3>7. r \in awaited /\ r \notin excuse /\ called[r] = 0
      BY <1>1, <3>3, <3>5 DEF CallsAreCounted
    <3>8. /\ called' \in [Requests -> Nat] /\ called'[r] = 1
          /\ \A k \in Requests \ {r} : called'[k] = called[k]
      BY <1>1, <3>2, <3>3, <3>7
    <3>9. CallsAreCounted'
      BY <1>1, <1>2, <3>6, <3>7, <3>8 DEF CallsAreCounted
    <3>10. \A u \in EmergeThreads : Once(et'[u].callbacks) /\ AtThread(u)' \subseteq AtThread(u)
      BY <1>1, <1>4, <1>5, <3>4 DEF CallbacksOnce
    <3>11. CallbacksOnce'
      BY <1>1, <1>2, <1>5, <3>10 DEF CallbacksOnce
    <3>12. QED
      BY <3>2, <3>5, <3>6, <3>8, <3>9, <3>11
  <2>3. QED
    BY <2>1, <2>2
<1>7. EmergeTypeOK'
  BY <1>1, <1>2, <1>4, <1>6 DEF EmergeTypeOK, EtTypeOK, AThread, ThreadPlaces
<1>8. HandsAreFull'
  BY <1>4 DEF HandsAreFull, EmergeInv
<1>9. SameMaking /\ \A u \in EmergeThreads : IsMaking(u)' => u # t
  BY <1>1, <1>4 DEF SameMaking, IsMaking
<1>10. OneGeneratorPerChunk' /\ EditsSurvive'
  BY <1>2, <1>9, ChunksStay, EditsStay DEF EmergeInv
<1>11. CopiesAreTrue'
  BY <1>2, <1>4, <1>9, CopiesStay DEF EmergeInv, SameMaking
<1>12. Awake'
  BY <1>1, <1>2, <1>4, AwakeIs DEF Awake, NoLostWakeUp, At
<1>13. InOneQueue' /\ Charged'
  BY <1>2, QueuesStay DEF EmergeInv
<1>14. QED
  BY <1>2, <1>6, <1>7, <1>8, <1>10, <1>11, <1>12, <1>13 DEF EmergeInv
-----------------------------------------------------------------------------
(* A chunk is finished, or begun.                                          *)

LEMMA FinishGenKeeps ==
  ASSUME EmergeInv, NEW t \in EmergeThreads, finishGen(t)
  PROVE  /\ EmergeInv' /\ Held' = Held /\ UNCHANGED <<awaited, called, excuse>>
<1>1. /\ et[t].pc = "finish" /\ EtTypeOK /\ EmergeTypeOK /\ OneGeneratorPerChunk
      /\ CopiesAreTrue /\ EditsSurvive /\ et[t] \in AThread
  BY TypesOfParts DEF finishGen, At, EmergeInv, EtTypeOK
<1>2. PICK p \in Positions : p = et[t].pos
  BY <1>1 DEF EmergeInv, HandsAreFull
<1>3. PICK c \in Chunks : c = Chunk[p]
  BY EmergeAssumption
<1>4. /\ UNCHANGED <<world, unsignalled, asked, awaited, stored, storedGenerated, storedEdited,
                     damaged, emergeStop, everEdited, raced, loaded, queue_event, called, excuse,
                     queueVars, blocks_enqueued, bedata, peer_queue_count, block_queue>>
  BY DEF finishGen, NoWork, askVars, queueVars, diskVars, callVars, editVars
<1>5. PICK kept \in SUBSET ((FullArea[c] \ et[t].known) \cap edited) :
        edited' = (edited \ FullArea[c]) \union (et[t].copy \cap loaded) \union kept
  BY <1>2, <1>3 DEF finishGen, finishBlockMake
<1>6. /\ generated' = generated \union (Central(c) \cap loaded)
      /\ chunks_in_progress' = chunks_in_progress \ {c}
      /\ et' = [et EXCEPT ![t].pc = "report", ![t].copy = {}, ![t].known = {}]
  BY <1>2, <1>3 DEF finishGen, finishBlockMake
<1>7. asyncFatal' \in BOOLEAN /\ (asyncFatal => asyncFatal')
  <2>1. asyncFatal \in BOOLEAN
    BY <1>1 DEF EmergeTypeOK
  <2>2. CASE asyncFatal' = asyncFatal
    BY <2>1, <2>2
  <2>3. CASE asyncFatal' = (asyncFatal \/ p \in loaded)
    BY <2>1, <2>3
  <2>4. QED
    BY <1>2, <2>2, <2>3 DEF finishGen
<1>8. PICK e : e = [et[t] EXCEPT !.pc = "report", !.copy = {}, !.known = {}]
  OBVIOUS
<1>9. e \in AThread /\ e.pc = "report" /\ e.callbacks = et[t].callbacks
  BY <1>1, <1>8 DEF AThread, ThreadPlaces
<1>10. et' \in [EmergeThreads -> AThread] /\ et'[t] = e
       /\ \A u \in EmergeThreads \ {t} : et'[u] = et[u]
  <2>1. et' = [et EXCEPT ![t] = e]
    BY <1>6, <1>8
  <2>2. QED
    BY <1>1, <1>9, <2>1, ThreadMoves DEF EtTypeOK
<1>11. EmergeTypeOK'
  <2>1. generated' \union edited' \subseteq loaded' /\ loaded' \subseteq Positions
    BY <1>1, <1>4, <1>5, <1>6 DEF EmergeTypeOK
  <2>2. chunks_in_progress' \subseteq Chunks
    BY <1>1, <1>6 DEF EmergeTypeOK
  <2>3. QED
    BY <1>1, <1>4, <1>7, <1>10, <2>1, <2>2 DEF EmergeTypeOK, EtTypeOK, AThread, ThreadPlaces
<1>12. HandsAreFull'
  BY <1>9, <1>10 DEF HandsAreFull, EmergeInv
<1>13. InOneQueue' /\ Charged'
  BY <1>4, QueuesStay DEF EmergeInv
<1>14. CallbacksOnce' /\ CallsAreCounted' /\ Held' = Held
  <2>1. SameCallbacks
    BY <1>9, <1>10 DEF SameCallbacks
  <2>2. QED
    BY <1>4, <2>1, CallsStay DEF EmergeInv
<1>15. MakingChunk(t, c) /\ \A d \in Chunks : ~MakingChunk(t, d)'
  BY <1>1, <1>2, <1>3, <1>9, <1>10 DEF MakingChunk, At
<1>16. \A u \in EmergeThreads \ {t}, d \in Chunks : MakingChunk(u, d)' <=> MakingChunk(u, d)
  BY <1>10 DEF MakingChunk, At
<1>17. \A d \in Chunks : MakingChunk(t, d) => d = c
  BY <1>2, <1>3 DEF MakingChunk
<1>18. OneGeneratorPerChunk'
  BY <1>1, <1>4, <1>6, <1>7, <1>15, <1>16, <1>17 DEF OneGeneratorPerChunk
<1>19. CopiesAreTrue'
  <2>1. \A u \in EmergeThreads : IsMaking(u)' => /\ IsMaking(u) /\ et'[u].pos = et[u].pos
                                                 /\ et'[u].copy = et[u].copy
    BY <1>9, <1>10 DEF IsMaking
  <2>2. QED
    BY <1>1, <1>4, <2>1, CopiesStay
<1>20. EditsSurvive'
  <2> SUFFICES ASSUME NEW q \in everEdited \ raced
               PROVE  IF q \in loaded THEN q \in edited' ELSE q \in storedEdited
    BY <1>4 DEF EditsSurvive
  <2>1. q \in FullArea[c] => q \in et[t].copy
    BY <1>1, <1>2, <1>3 DEF CopiesAreTrue
  <2>2. QED
    BY <1>1, <1>5, <2>1 DEF EditsSurvive
<1>21. Awake'
  BY <1>1, <1>4, <1>9, <1>10, AwakeIs DEF Awake, NoLostWakeUp, At
<1>22. QED
  BY <1>4, <1>11, <1>12, <1>13, <1>14, <1>18, <1>19, <1>20, <1>21 DEF EmergeInv

(* Blocks that are loaded have the changes they were stored with.          *)
LEMMA LoadAllKeeps ==
  ASSUME EmergeInv, NEW S \in SUBSET Positions, LoadAll(S),
         UNCHANGED <<storedEdited, everEdited, raced>>
  PROVE  /\ generated' \union edited' \subseteq loaded' /\ loaded' \subseteq Positions
         /\ EditsSurvive' /\ S \subseteq loaded'
<1>1. EmergeTypeOK /\ EditsSurvive
  BY DEF EmergeInv
<1>2. /\ loaded' = loaded \union S
      /\ generated' = generated \union (storedGenerated \cap (S \ loaded))
      /\ edited' = edited \union (storedEdited \cap (S \ loaded))
  BY DEF LoadAll
<1>3. generated \union edited \subseteq loaded /\ loaded \subseteq Positions
  BY <1>1 DEF EmergeTypeOK
<1>4. EditsSurvive'
  BY <1>1, <1>2 DEF EditsSurvive
<1>5. QED
  BY <1>2, <1>3, <1>4

(* What the three ways out of getBlockOrStartGen have in common.           *)
Fetching(t) ==
  /\ et[t].pc = "fetch" /\ NoWork
  /\ UNCHANGED <<world, unsignalled, askVars, diskVars, emergeStop, called, editVars>>

LEMMA FetchKeeps ==
  ASSUME EmergeInv, NEW t \in EmergeThreads, Fetching(t),
         asyncFatal' \in BOOLEAN, asyncFatal => asyncFatal',
         EtTypeOK', \A u \in EmergeThreads \ {t} : et'[u] = et[u],
         et'[t].pc \in {"make", "report", "ended"}, et'[t].pc = "make" => et'[t].pos \in Positions,
         et'[t].pc = "ended" => et'[t].callbacks = <<>>,
         generated' \union edited' \subseteq loaded', loaded' \subseteq Positions,
         chunks_in_progress' \subseteq Chunks, excuse' \subseteq awaited,
         CallbacksOnce', CallsAreCounted', OneGeneratorPerChunk', CopiesAreTrue', EditsSurvive'
  PROVE  EmergeInv'
<1>1. EmergeTypeOK
  BY DEF EmergeInv
<1>2. /\ UNCHANGED <<world, unsignalled, asked, awaited, stored, storedGenerated, storedEdited,
                     damaged, emergeStop, everEdited, raced, queue_event, called,
                     queueVars, blocks_enqueued, bedata, peer_queue_count, block_queue>>
  BY DEF Fetching, NoWork, askVars, queueVars, diskVars, editVars
<1>3. EmergeTypeOK'
  BY <1>1, <1>2 DEF EmergeTypeOK, EtTypeOK, AThread, ThreadPlaces
<1>4. HandsAreFull'
  BY DEF HandsAreFull, EmergeInv
<1>5. InOneQueue' /\ Charged'
  BY <1>2, QueuesStay DEF EmergeInv
<1>6. Awake'
  BY <1>2, AwakeIs DEF Awake, NoLostWakeUp, At, Fetching
<1>7. QED
  BY <1>3, <1>4, <1>5, <1>6 DEF EmergeInv

(* The block is there, or cannot be made, or is being made by another.     *)
LEMMA ReportsKeeps ==
  ASSUME EmergeInv, NEW t \in EmergeThreads, Fetching(t), Moves(t, "report"),
         NEW S \in SUBSET Positions, LoadAll(S), UNCHANGED <<asyncFatal, excuse>>,
         \/ UNCHANGED chunks_in_progress
         \/ \E c \in Chunks : /\ chunks_in_progress' = chunks_in_progress \union {c}
                              /\ \/ c \in chunks_in_progress
                                 \/ \E q \in FullArea[c] : world.reach[q] # "mapgen"
  PROVE  EmergeInv' /\ Held' = Held /\ UNCHANGED <<awaited, called, excuse>>
<1>1. /\ UNCHANGED <<world, unsignalled, asked, awaited, stored, storedGenerated, storedEdited,
                     damaged, emergeStop, everEdited, raced, queue_event, called,
                     queueVars, blocks_enqueued, bedata, peer_queue_count, block_queue>>
  BY DEF Fetching, NoWork, askVars, queueVars, diskVars, editVars
<1>2. EmergeTypeOK /\ EtTypeOK /\ OneGeneratorPerChunk /\ CopiesAreTrue
  BY TypesOfParts DEF EmergeInv
<1>3. EtTypeOK' /\ MovedOn(t, "report")
  <2>1. "report" \in ThreadPlaces
    BY DEF ThreadPlaces
  <2>2. QED
    BY <1>2, <2>1, MovesOnly DEF MovedOn
<1>4. CallbacksOnce' /\ CallsAreCounted' /\ Held' = Held
  <2>1. SameCallbacks
    BY <1>3 DEF SameCallbacks, MovedOn
  <2>2. QED
    BY <1>1, <2>1, CallsStay DEF EmergeInv
<1>5. /\ generated' \union edited' \subseteq loaded' /\ loaded' \subseteq Positions
      /\ EditsSurvive'
  BY <1>1, LoadAllKeeps
<1>6. SameMaking /\ \A u \in EmergeThreads : IsMaking(u)' => u # t
  BY <1>3 DEF SameMaking, IsMaking, MovedOn, Fetching
<1>7. OneGeneratorPerChunk'
  <2>1. \A u \in EmergeThreads, c \in Chunks : MakingChunk(u, c)' <=> MakingChunk(u, c)
    BY <1>6 DEF SameMaking, MakingChunk, IsMaking, At
  <2>2. QED
    BY <1>1, <1>2, <2>1 DEF OneGeneratorPerChunk
<1>8. CopiesAreTrue'
  BY <1>1, <1>2, <1>3, <1>6, CopiesStay DEF SameMaking, MovedOn
<1>9. chunks_in_progress' \subseteq Chunks /\ excuse' \subseteq awaited /\ asyncFatal' \in BOOLEAN
  BY <1>2 DEF EmergeTypeOK
<1>10. EmergeInv'
  BY <1>3, <1>4, <1>5, <1>7, <1>8, <1>9, FetchKeeps DEF MovedOn
<1>11. QED
  BY <1>1, <1>4, <1>10

(* Damaged data: the thread ends, its callbacks are given up.              *)
LEMMA LoadFailsKeeps ==
  ASSUME EmergeInv, NEW t \in EmergeThreads, Fetching(t), LoadFails(t),
         chunks_in_progress \subseteq chunks_in_progress', chunks_in_progress' \subseteq Chunks
  PROVE  /\ EmergeInv' /\ UNCHANGED <<awaited, called>>
         /\ \E N \in SUBSET Held : Held' = Held \ N /\ excuse' = excuse \union N
<1>1. /\ UNCHANGED <<world, unsignalled, asked, awaited, stored, storedGenerated, storedEdited,
                     damaged, emergeStop, everEdited, raced, queue_event, called,
                     queueVars, blocks_enqueued, bedata, peer_queue_count, block_queue>>
  BY DEF Fetching, NoWork, askVars, queueVars, diskVars, editVars
<1>2. /\ EmergeTypeOK /\ EtTypeOK /\ OneGeneratorPerChunk /\ CopiesAreTrue /\ EditsSurvive
      /\ CallbacksOnce /\ CallsAreCounted /\ excuse \subseteq awaited
  BY TypesOfParts DEF EmergeInv
<1>3. /\ asyncFatal' = TRUE /\ UNCHANGED <<loaded, generated, edited>>
      /\ excuse' = excuse \union AtThread(t)
      /\ et' = [et EXCEPT ![t] = [Idle EXCEPT !.pc = "ended"]]
  BY DEF LoadFails, AtThread
<1>4. /\ EtTypeOK' /\ et'[t].pc = "ended" /\ et'[t].callbacks = <<>>
      /\ \A u \in EmergeThreads \ {t} : et'[u] = et[u]
  <2>1. PICK e : e = [Idle EXCEPT !.pc = "ended"]
    OBVIOUS
  <2>2. e = [pc |-> "ended", pos |-> NoPosition, gen |-> FALSE, callbacks |-> <<>>,
             copy |-> {}, known |-> {}]
    BY <2>1 DEF Idle
  <2>3. e \in AThread /\ e.pc = "ended" /\ e.callbacks = <<>>
    <3>1. "ended" \in ThreadPlaces
      BY DEF ThreadPlaces
    <3>2. QED
      BY <2>1, <2>2, <3>1, IdleIsAThread
  <2>4. et' \in [EmergeThreads -> AThread] /\ et'[t] = e
        /\ \A u \in EmergeThreads \ {t} : et'[u] = et[u]
    BY <1>2, <1>3, <2>1, <2>3, ThreadMoves DEF EtTypeOK
  <2>5. QED
    BY <2>3, <2>4 DEF EtTypeOK
<1>5. PICK C : C = AtThread(t)
  OBVIOUS
<1>6. /\ AtThread(t)' = {} /\ Once(<<>>)
      /\ \A u \in EmergeThreads \ {t} : AtThread(u)' = AtThread(u) /\ AtThread(u) \cap C = {}
      /\ \A q \in blocks_enqueued : AtEntry(q)' = AtEntry(q) /\ AtEntry(q) \cap C = {}
      /\ C \subseteq Held
  BY <1>1, <1>2, <1>4, <1>5, EmptyQueue, HeldBy DEF AtThread, AtEntry, CallbacksOnce
<1>7. Held' = Held \ C
  BY <1>1, <1>5, <1>6, HeldBy, HeldByNow
<1>8. CallsAreCounted' /\ excuse' \subseteq awaited
  BY <1>1, <1>2, <1>3, <1>5, <1>6, <1>7 DEF CallsAreCounted
<1>9. CallbacksOnce'
  <2>1. \A u \in EmergeThreads : Once(et'[u].callbacks) /\ AtThread(u)' \subseteq AtThread(u)
    BY <1>2, <1>4, <1>6 DEF CallbacksOnce
  <2>2. QED
    BY <1>1, <1>2, <1>6, <2>1 DEF CallbacksOnce
<1>10. \A u \in EmergeThreads : IsMaking(u)' <=> IsMaking(u)
  BY <1>4 DEF IsMaking, Fetching
<1>11. SameMaking /\ \A u \in EmergeThreads : IsMaking(u)' => u # t
  BY <1>4, <1>10 DEF SameMaking, IsMaking
<1>12. OneGeneratorPerChunk'
  <2>1. \A u \in EmergeThreads, c \in Chunks : MakingChunk(u, c)' <=> MakingChunk(u, c)
    BY <1>11 DEF SameMaking, MakingChunk, IsMaking, At
  <2>2. QED
    BY <1>2, <1>3, <2>1 DEF OneGeneratorPerChunk
<1>13. CopiesAreTrue' /\ EditsSurvive'
  BY <1>1, <1>2, <1>3, <1>4, <1>11, CopiesStay, EditsStay DEF SameMaking
<1>14. generated' \union edited' \subseteq loaded' /\ loaded' \subseteq Positions
  BY <1>2, <1>3 DEF EmergeTypeOK
<1>15. EmergeInv'
  BY <1>3, <1>4, <1>8, <1>9, <1>12, <1>13, <1>14, FetchKeeps
<1>16. QED
  BY <1>1, <1>3, <1>5, <1>6, <1>7, <1>15

(* A chunk is begun, of what is loaded now.                                *)
LEMMA MakingBegins ==
  ASSUME EmergeInv, NEW t \in EmergeThreads, Fetching(t),
         NEW c \in Chunks, c = Chunk[et[t].pos], c \notin chunks_in_progress,
         chunks_in_progress' = chunks_in_progress \union {c}, LoadAll(FullArea[c]),
         et' = [et EXCEPT ![t].pc = "make", ![t].copy = edited' \cap FullArea[c],
                          ![t].known = generated' \cap FullArea[c]],
         UNCHANGED <<asyncFatal, excuse>>
  PROVE  EmergeInv' /\ Held' = Held /\ UNCHANGED <<awaited, called, excuse>>
<1>1. /\ UNCHANGED <<world, unsignalled, asked, awaited, stored, storedGenerated, storedEdited,
                     damaged, emergeStop, everEdited, raced, queue_event, called,
                     queueVars, blocks_enqueued, bedata, peer_queue_count, block_queue>>
  BY DEF Fetching, NoWork, askVars, queueVars, diskVars, editVars
<1>2. /\ EmergeTypeOK /\ EtTypeOK /\ OneGeneratorPerChunk /\ CopiesAreTrue /\ EditsSurvive
      /\ et[t] \in AThread /\ et[t].pos \in Positions /\ et[t].pc = "fetch"
  BY TypesOfParts DEF EmergeInv, HandsAreFull, EtTypeOK, Fetching
<1>3. PICK A \in SUBSET Positions : A = FullArea[c]
  BY EmergeAssumption
<1>4. /\ generated' \union edited' \subseteq loaded' /\ loaded' \subseteq Positions
      /\ EditsSurvive' /\ A \subseteq loaded'
  BY <1>1, <1>3, LoadAllKeeps
<1>5. PICK e : e = [et[t] EXCEPT !.pc = "make", !.copy = edited' \cap A, !.known = generated' \cap A]
  OBVIOUS
<1>6. /\ e \in AThread /\ e.pc = "make" /\ e.pos = et[t].pos /\ e.callbacks = et[t].callbacks
      /\ e.copy = edited' \cap A
  BY <1>2, <1>3, <1>5 DEF AThread, ThreadPlaces
<1>7. et' \in [EmergeThreads -> AThread] /\ et'[t] = e
      /\ \A u \in EmergeThreads \ {t} : et'[u] = et[u]
  <2>1. et' = [et EXCEPT ![t] = e]
    BY <1>3, <1>5
  <2>2. QED
    BY <1>2, <1>6, <2>1, ThreadMoves DEF EtTypeOK
<1>8. CallbacksOnce' /\ CallsAreCounted' /\ Held' = Held
  <2>1. SameCallbacks
    BY <1>6, <1>7 DEF SameCallbacks
  <2>2. QED
    BY <1>1, <2>1, CallsStay DEF EmergeInv
<1>9. CopiesAreTrue'
  <2> SUFFICES ASSUME NEW u \in EmergeThreads, IsMaking(u)',
                      NEW q \in FullArea[Chunk[et'[u].pos]], q \in everEdited, q \notin raced
               PROVE  q \in et'[u].copy
    BY <1>1 DEF CopiesAreTrue, IsMaking
  <2>1. CASE u = t
    <3>1. q \in A /\ q \in loaded'
      BY <1>3, <1>4, <1>6, <1>7, <2>1
    <3>2. q \in edited'
      BY <1>1, <1>4, <3>1 DEF EditsSurvive
    <3>3. QED
      BY <1>6, <1>7, <2>1, <3>1, <3>2
  <2>2. CASE u # t
    BY <1>2, <1>7, <2>2 DEF CopiesAreTrue, IsMaking
  <2>3. QED
    BY <2>1, <2>2
<1>10. OneGeneratorPerChunk'
  <2>1. /\ \A u \in EmergeThreads \ {t}, d \in Chunks : MakingChunk(u, d)' <=> MakingChunk(u, d)
        /\ \A d \in Chunks : MakingChunk(t, d)' <=> d = c
        /\ \A d \in Chunks : ~MakingChunk(t, d)
    BY <1>2, <1>6, <1>7 DEF MakingChunk, At
  <2>2. \A u \in EmergeThreads : ~MakingChunk(u, c)
    BY <1>2 DEF OneGeneratorPerChunk
  <2>3. QED
    BY <1>1, <1>2, <2>1, <2>2 DEF OneGeneratorPerChunk
<1>11. /\ chunks_in_progress' \subseteq Chunks /\ excuse' \subseteq awaited
       /\ asyncFatal' \in BOOLEAN /\ EtTypeOK'
  BY <1>2, <1>7 DEF EmergeTypeOK, EtTypeOK
<1>12. EmergeInv'
  BY <1>2, <1>4, <1>6, <1>7, <1>8, <1>9, <1>10, <1>11, FetchKeeps
<1>13. QED
  BY <1>1, <1>8, <1>12
LEMMA GetBlockKeeps ==
  ASSUME EmergeInv, NEW t \in EmergeThreads, getBlockOrStartGen(t)
  PROVE  /\ EmergeInv' /\ UNCHANGED <<awaited, called>>
         /\ \E N \in SUBSET Held : Held' = Held \ N /\ excuse' = excuse \union N
<1>1. Fetching(t)
  BY DEF getBlockOrStartGen, Fetching, At
<1>2. PICK p \in Positions : p = et[t].pos
  BY <1>1 DEF Fetching, EmergeInv, HandsAreFull
<1>3. PICK c \in Chunks : c = Chunk[p]
  BY EmergeAssumption
<1>4. EmergeTypeOK /\ chunks_in_progress \subseteq Chunks
  BY DEF EmergeInv, EmergeTypeOK
<1>5. ASSUME Moves(t, "report"), NEW S \in SUBSET Positions, LoadAll(S),
             UNCHANGED <<asyncFatal, excuse>>,
             \/ UNCHANGED chunks_in_progress
             \/ \E d \in Chunks : /\ chunks_in_progress' = chunks_in_progress \union {d}
                                  /\ \/ d \in chunks_in_progress
                                     \/ \E q \in FullArea[d] : world.reach[q] # "mapgen"
      PROVE  /\ EmergeInv' /\ UNCHANGED <<awaited, called>>
             /\ Held' = Held \ {} /\ excuse' = excuse \union {}
  BY <1>1, <1>5, ReportsKeeps
<1>6. {p} \in SUBSET Positions /\ {p} \cap stored \in SUBSET Positions
  BY <1>2
<1>7. CASE /\ Goto(t, "report") /\ LoadAll({p}) /\ UNCHANGED <<chunks_in_progress, asyncFatal, excuse>>
  BY <1>5, <1>6, <1>7 DEF Moves, Goto
<1>8. CASE LoadFails(t) /\ UNCHANGED chunks_in_progress
  BY <1>1, <1>4, <1>8, LoadFailsKeeps
<1>9. CASE /\ Goto(t, "report") /\ LoadAll({p} \cap stored)
           /\ UNCHANGED <<chunks_in_progress, asyncFatal, excuse>>
  BY <1>5, <1>6, <1>9 DEF Moves, Goto
<1>10. CASE initBlockMake(t, p)
  <2>1. chunks_in_progress' = chunks_in_progress \union {c}
    BY <1>3, <1>10, Zenon DEF initBlockMake
  <2>2. CASE /\ c \in chunks_in_progress \/ \E q \in FullArea[c] : world.reach[q] # "mapgen"
             /\ Goto(t, "report") /\ LoadAll({p} \cap stored) /\ UNCHANGED <<asyncFatal, excuse>>
    BY <1>5, <1>6, <2>1, <2>2 DEF Moves, Goto
  <2>3. CASE LoadFails(t)
    BY <1>1, <1>4, <2>1, <2>3, LoadFailsKeeps
  <2>4. CASE /\ c \notin chunks_in_progress /\ LoadAll(FullArea[c])
             /\ et' = [et EXCEPT ![t].pc = "make", ![t].copy = edited' \cap FullArea[c],
                                 ![t].known = generated' \cap FullArea[c]]
             /\ UNCHANGED <<asyncFatal, excuse>>
    <3>1. EmergeInv' /\ Held' = Held /\ UNCHANGED <<awaited, called, excuse>>
      BY <1>1, <1>2, <1>3, <2>1, <2>4, MakingBegins
    <3>2. Held' = Held \ {} /\ excuse' = excuse \union {}
      BY <3>1
    <3>3. QED
      BY <3>1, <3>2
  <2>5. QED
    BY <1>3, <1>10, <2>2, <2>3, <2>4, Zenon DEF initBlockMake
<1>11. QED
  BY <1>2, <1>7, <1>8, <1>9, <1>10, Zenon DEF getBlockOrStartGen

-----------------------------------------------------------------------------
(* Every step, and what it means for the requests.                         *)

RequestsMove ==
  \/ Held' = Held /\ UNCHANGED <<awaited, called, excuse>>
  \/ \E N \in SUBSET (Requests \ awaited) : /\ Held' = Held \union N
                                            /\ awaited' = awaited \union N
                                            /\ UNCHANGED <<called, excuse>>
  \/ \E N \in SUBSET Held : /\ Held' = Held \ N /\ excuse' = excuse \union N
                            /\ UNCHANGED <<awaited, called>>
  \/ \E r \in Held : /\ Held' = Held \ {r} /\ called' = [called EXCEPT ![r] = @ + 1]
                     /\ UNCHANGED <<awaited, excuse>>

LEMMA CallsUntouched ==
  \A t \in EmergeThreads :
    StartScripting(t) \/ CheckStop(t) \/ Wait(t) \/ makeChunk(t) \/ finishGen(t)
      \/ Signal(t) \/ StopThread(t) => UNCHANGED <<awaited, called, excuse>>
BY DEF StartScripting, CheckStop, Wait, makeChunk, finishGen, Signal, StopThread, ThreadOnly,
   ServerOnly, callVars, askVars

LEMMA EmergeKeeps ==
  ASSUME EmergeInv, [EmergeNext]_emergeVars
  PROVE  EmergeInv' /\ RequestsMove
<1>1. CASE UNCHANGED emergeVars
  <2>1. /\ UNCHANGED <<world, unsignalled, asked, awaited, stored, storedGenerated, storedEdited>>
        /\ UNCHANGED <<damaged, emergeStop, everEdited, raced, queue_event, called, excuse, et>>
        /\ UNCHANGED <<blocks_enqueued, bedata, peer_queue_count, block_queue>>
        /\ UNCHANGED <<loaded, generated, edited, chunks_in_progress, asyncFatal, queueVars>>
    BY <1>1 DEF emergeVars, queueVars, mapVars, diskVars, askVars, callVars, editVars
  <2>2. SameMaking /\ SameCallbacks
    BY <2>1 DEF SameMaking, IsMaking, SameCallbacks
  <2>3. EmergeTypeOK' /\ HandsAreFull'
    BY <2>1 DEF EmergeInv, EmergeTypeOK, HandsAreFull
  <2>4. OneGeneratorPerChunk' /\ CopiesAreTrue' /\ EditsSurvive'
    BY <2>1, <2>2, ChunksStay, CopiesStay, EditsStay DEF EmergeInv, SameMaking
  <2>5. InOneQueue' /\ Charged'
    BY <2>1, QueuesStay DEF EmergeInv
  <2>6. CallbacksOnce' /\ CallsAreCounted' /\ Held' = Held
    BY <2>1, <2>2, CallsStay DEF EmergeInv
  <2>7. Awake'
    BY <2>1 DEF EmergeInv, Awake, NoLostWakeUp, At
  <2>8. QED
    BY <2>1, <2>3, <2>4, <2>5, <2>6, <2>7 DEF EmergeInv, RequestsMove
<1>2. ASSUME NEW p \in Positions,
             \/ \E a \in EmergePeers, gen \in BOOLEAN : AskForClient(p, a, gen)
             \/ getBlockOrEmerge(p) \/ emerge_area(p)
      PROVE  EmergeInv' /\ RequestsMove
  BY <1>2, AskKeeps DEF RequestsMove
<1>3. ASSUME NEW p \in Positions, EditBlock(p) \/ UnloadBlock(p) \/ DeleteBlock(p)
      PROVE  EmergeInv' /\ RequestsMove
  <2>1. UNCHANGED <<awaited, called, excuse>>
    BY <1>3 DEF EditBlock, UnloadBlock, DeleteBlock, ServerOnly, callVars, askVars
  <2>2. EmergeInv' /\ Held' = Held
    BY <1>3, EditBlockKeeps, UnloadBlockKeeps, DeleteBlockKeeps
  <2>3. QED
    BY <2>1, <2>2 DEF RequestsMove
<1>4. ASSUME NEW t \in EmergeThreads,
             \/ StartScripting(t) \/ CheckStop(t) \/ Wait(t) \/ makeChunk(t) \/ finishGen(t)
             \/ Signal(t) \/ StopThread(t)
      PROVE  EmergeInv' /\ RequestsMove
  <2>1. UNCHANGED <<awaited, called, excuse>>
    BY <1>4, CallsUntouched
  <2>2. EmergeInv' /\ Held' = Held
    BY <1>4, StartScriptingKeeps, CheckStopKeeps, WaitKeeps, MakeChunkKeeps, FinishGenKeeps,
       SignalKeeps, StopThreadKeeps
  <2>3. QED
    BY <2>1, <2>2 DEF RequestsMove
<1>5. ASSUME NEW t \in EmergeThreads, popBlockEmerge(t) \/ getBlockOrStartGen(t)
      PROVE  EmergeInv' /\ RequestsMove
  BY <1>5, PopBlockEmergeKeeps, GetBlockKeeps DEF RequestsMove
<1>6. ASSUME NEW t \in EmergeThreads, runCompletionCallbacks(t)
      PROVE  EmergeInv' /\ RequestsMove
  BY <1>6, CallbackKeeps DEF RequestsMove
<1>7. QED
  BY <1>1, <1>2, <1>3, <1>4, <1>5, <1>6, Zenon DEF EmergeNext, ThreadStep

LEMMA EmergeBegins == EmergeInit => EmergeInv
<1> SUFFICES ASSUME EmergeInit PROVE EmergeInv
  OBVIOUS
<1>1. /\ world \in Worlds /\ stored = world.generated \union world.damaged
      /\ storedGenerated = world.generated /\ damaged = world.damaged /\ storedEdited = {}
      /\ blocks_enqueued = {} /\ bedata = [p \in Positions |-> NoData]
      /\ peer_queue_count = [a \in Askers |-> 0]
      /\ block_queue = [t \in EmergeThreads |-> <<>>] /\ queue_event = {} /\ unsignalled = {}
      /\ et = [t \in EmergeThreads |-> [Idle EXCEPT !.pc = "start"]]
      /\ chunks_in_progress = {} /\ loaded = {} /\ generated = {} /\ edited = {}
      /\ emergeStop = {} /\ asyncFatal = FALSE /\ asked = 0 /\ awaited = {}
      /\ called = [r \in Requests |-> 0] /\ excuse = {} /\ everEdited = {} /\ raced = {}
  BY DEF EmergeInit
<1>2. PICK e : e = [Idle EXCEPT !.pc = "start"]
  OBVIOUS
<1>3. /\ e \in AThread /\ e.pc = "start" /\ e.callbacks = <<>>
      /\ \A t \in EmergeThreads : et[t] = e
      /\ et \in [EmergeThreads -> AThread]
  <2>1. "start" \in ThreadPlaces
    BY DEF ThreadPlaces
  <2>2. e = [pc |-> "start", pos |-> NoPosition, gen |-> FALSE, callbacks |-> <<>>,
             copy |-> {}, known |-> {}]
    BY <1>2 DEF Idle
  <2>3. e \in AThread
    BY <1>2, <2>1, IdleIsAThread
  <2>4. QED
    BY <1>1, <1>2, <2>2, <2>3
<1>4. EmergeTypeOK
  <2>1. world \in [reach : [Positions -> {"mapgen", "map", "outside"}],
                   generated : SUBSET Positions, damaged : SUBSET Positions,
                   movable : SUBSET Positions, requests : 0 .. MaxRequests]
    BY <1>1, EmergeAssumption
  <2>2. NoData \in [gen : BOOLEAN, peer : Askers, callbacks : Seq(Requests)]
    <3>1. <<>> \in Seq(Requests) /\ PEER_ID_INEXISTENT \in Askers
      BY DEF Askers
    <3>2. QED
      BY <3>1 DEF NoData
  <2>3. bedata \in [Positions -> [gen : BOOLEAN, peer : Askers, callbacks : Seq(Requests)]]
    BY <1>1, <2>2
  <2>4. block_queue \in [EmergeThreads -> Seq(Positions)]
    BY <1>1
  <2>5. peer_queue_count \in [Askers -> 0 .. COUNT_SIZE - 1] /\ asked \in 0 .. MaxRequests
    BY <1>1, EmergeAssumption
  <2>6. called \in [Requests -> Nat]
    BY <1>1
  <2>7. storedGenerated \union storedEdited \union damaged \subseteq stored
        /\ stored \subseteq Positions
    BY <1>1, <2>1
  <2>8. QED
    BY <1>1, <1>3, <2>3, <2>4, <2>5, <2>6, <2>7 DEF EmergeTypeOK, AThread, ThreadPlaces
<1>5. HandsAreFull /\ CopiesAreTrue /\ EditsSurvive /\ Awake
  BY <1>1, <1>3 DEF HandsAreFull, CopiesAreTrue, EditsSurvive, Awake, NoLostWakeUp, At
<1>6. InOneQueue
  <2>1. \A t \in EmergeThreads : block_queue[t] = <<>>
    BY <1>1
  <2>2. Len(<<>>) = 0 /\ asked = 0
    BY <1>1
  <2>3. IsFiniteSet(blocks_enqueued)
    BY <1>1, FS_EmptySet
  <2>4. QED
    BY <1>1, <2>1, <2>2, <2>3, EmptyQueue DEF InOneQueue
<1>7. Charged
  <2>1. \A a \in Askers : EntriesOf(a) = {}
    BY <1>1 DEF EntriesOf
  <2>2. Cardinality({}) = 0 /\ 0 % COUNT_SIZE = 0
    <3>1. COUNT_SIZE \in Nat \ {0}
      BY EmergeAssumption
    <3>2. \A m \in Nat \ {0} : 0 % m = 0
      BY Z3
    <3>3. QED
      BY <3>1, <3>2, FS_EmptySet
  <2>3. QED
    BY <1>1, <2>1, <2>2 DEF Charged
<1>8. OneGeneratorPerChunk
  BY <1>1, <1>3 DEF OneGeneratorPerChunk, MakingChunk, At
<1>9. CallbacksOnce /\ CallsAreCounted
  <2>1. \A t \in EmergeThreads : AtThread(t) = {} /\ Once(et[t].callbacks)
    BY <1>3, EmptyQueue DEF AtThread
  <2>2. Held = {}
    BY <1>1, <2>1, HeldBy
  <2>3. QED
    BY <1>1, <2>1, <2>2 DEF CallbacksOnce, CallsAreCounted
<1>10. QED
  BY <1>4, <1>5, <1>6, <1>7, <1>8, <1>9 DEF EmergeInv
-----------------------------------------------------------------------------
(* What the invariant says of the queues.                                  *)

LEMMA EmergeInvSound == EmergeInv => EmergeIsSound /\ EditsSurvive /\ EmergeTypeOK
<1> SUFFICES ASSUME EmergeInv PROVE QueuesAgree
  BY DEF EmergeInv, EmergeIsSound, Awake
<1>1. /\ block_queue \in [EmergeThreads -> Seq(Positions)] /\ asked \in 0 .. MaxRequests
      /\ MaxRequests \in Nat /\ InOneQueue /\ Charged
  BY TypesOfParts DEF EmergeInv
<1>2. ASSUME NEW p \in Positions
      PROVE  Cardinality({e \in EmergeThreads \X (1 .. MaxRequests) :
                            e[2] <= Len(block_queue[e[1]]) /\ block_queue[e[1]][e[2]] = p})
               = IF p \in blocks_enqueued THEN 1 ELSE 0
  <2>1. PICK S : S = {e \in EmergeThreads \X (1 .. MaxRequests) :
                        e[2] <= Len(block_queue[e[1]]) /\ block_queue[e[1]][e[2]] = p}
    OBVIOUS
  <2>2. \A t \in EmergeThreads : /\ Len(block_queue[t]) \in Nat /\ Len(block_queue[t]) <= MaxRequests
                                 /\ ToSet(block_queue[t])
                                      = {block_queue[t][i] : i \in 1 .. Len(block_queue[t])}
    <3> TAKE t \in EmergeThreads
    <3>1. Len(block_queue[t]) \in Nat /\ Len(block_queue[t]) <= asked
      BY <1>1 DEF InOneQueue
    <3>2. Len(block_queue[t]) <= MaxRequests
      <4>1. PICK k \in Nat : k = Len(block_queue[t])
        BY <3>1
      <4>2. k <= asked
        BY <3>1, <4>1
      <4>3. k <= MaxRequests
        BY <1>1, <4>2
      <4>4. QED
        BY <4>1, <4>3
    <3>3. block_queue[t] \in Seq(Positions)
      BY <1>1
    <3>4. QED
      BY <3>1, <3>2, <3>3, QueueSet
  <2>3. CASE p \notin blocks_enqueued
    <3>1. \A t \in EmergeThreads : \A i \in 1 .. Len(block_queue[t]) : block_queue[t][i] # p
      BY <1>1, <2>2, <2>3 DEF InOneQueue
    <3>2. S = {}
      <4> SUFFICES ASSUME NEW e \in S PROVE FALSE
        OBVIOUS
      <4>1. PICK t \in EmergeThreads, i \in 1 .. MaxRequests : e = <<t, i>>
        BY <2>1
      <4>2. i <= Len(block_queue[t]) /\ block_queue[t][i] = p
        BY <2>1, <4>1
      <4>3. i \in 1 .. Len(block_queue[t])
        BY <2>2, <4>2
      <4>4. QED
        BY <3>1, <4>2, <4>3
    <3>3. QED
      BY <2>1, <2>3, <3>2, FS_EmptySet
  <2>4. CASE p \in blocks_enqueued
    <3>1. PICK t \in EmergeThreads : p \in ToSet(block_queue[t])
      BY <1>1, <2>4 DEF InOneQueue
    <3>2. PICK n \in 1 .. Len(block_queue[t]) : block_queue[t][n] = p
      BY <2>2, <3>1
    <3>3. n \in 1 .. MaxRequests /\ n <= Len(block_queue[t])
      <4>1. PICK k \in Nat : k = Len(block_queue[t]) /\ k <= MaxRequests
        BY <2>2
      <4>2. n \in 1 .. k
        BY <4>1
      <4>3. n \in 1 .. MaxRequests /\ n <= k
        BY <1>1, <4>1, <4>2
      <4>4. QED
        BY <4>1, <4>3
    <3>4. <<t, n>> \in S
      BY <2>1, <3>2, <3>3
    <3>5. ASSUME NEW e \in S PROVE e = <<t, n>>
      <4>1. PICK u \in EmergeThreads, i \in 1 .. MaxRequests : e = <<u, i>>
        BY <2>1
      <4>2. i <= Len(block_queue[u]) /\ block_queue[u][i] = p
        BY <2>1, <3>5, <4>1
      <4>3. i \in 1 .. Len(block_queue[u]) /\ p \in ToSet(block_queue[u])
        <5>1. PICK k \in Nat : k = Len(block_queue[u])
          BY <2>2
        <5>2. i \in 1 .. k
          BY <1>1, <4>2, <5>1
        <5>3. QED
          BY <2>2, <4>2, <5>1, <5>2
      <4>4. u = t
        BY <1>1, <3>1, <4>3 DEF InOneQueue
      <4>5. i = n
        BY <1>1, <3>2, <4>2, <4>3, <4>4 DEF InOneQueue, Once
      <4>6. QED
        BY <4>1, <4>4, <4>5
    <3>6. S = {<<t, n>>}
      BY <3>4, <3>5
    <3>7. QED
      BY <2>1, <2>4, <3>6, FS_Singleton
  <2>5. QED
    BY <2>3, <2>4
<1>3. \A a \in Askers :
        peer_queue_count[a] = Cardinality({p \in blocks_enqueued : bedata[p].peer = a}) % COUNT_SIZE
  BY <1>1 DEF Charged, EntriesOf
<1>4. QED
  BY <1>2, <1>3 DEF QueuesAgree

(* The status of a request, and how it may change.                         *)
LEMMA RequestStatusIs ==
  CallsAreCounted =>
    \A r \in Requests :
      RequestStatus[r] = IF r \notin awaited THEN "new" ELSE IF r \in Held THEN "pending"
                         ELSE IF r \in excuse THEN "dropped" ELSE "answered"
<1> SUFFICES ASSUME CallsAreCounted, NEW r \in Requests
             PROVE  RequestStatus[r] = IF r \notin awaited THEN "new"
                                       ELSE IF r \in Held THEN "pending"
                                       ELSE IF r \in excuse THEN "dropped" ELSE "answered"
  OBVIOUS
<1>1. called[r] = IF r \in awaited \ (Held \union excuse) THEN 1 ELSE 0
  BY DEF CallsAreCounted
<1>2. RequestStatus[r] = IF r \notin awaited THEN "new"
                         ELSE IF r \in Held THEN "pending"
                         ELSE IF called[r] = 1 THEN "answered"
                         ELSE IF called[r] = 0 THEN "dropped" ELSE "answered twice"
  BY DEF RequestStatus
<1>3. CASE r \in awaited \ (Held \union excuse)
  BY <1>1, <1>2, <1>3
<1>4. CASE r \notin awaited \/ r \in Held
  BY <1>2, <1>4
<1>5. CASE r \in awaited /\ r \notin Held /\ r \in excuse
  <2>1. called[r] = 0 /\ 0 # 1
    BY <1>1, <1>5
  <2>2. QED
    BY <1>2, <1>5, <2>1
<1>6. QED
  BY <1>3, <1>4, <1>5

LEMMA EmergeImplementsJobs ==
  ASSUME CallsAreCounted, CallsAreCounted', RequestsMove
  PROVE  EmergeJobs!Next
<1>1. DOMAIN RequestStatus' = Requests
  BY DEF RequestStatus
<1>2. ASSUME NEW r \in Requests
      PROVE  RequestStatus'[r] = RequestStatus[r] \/ EmergeJobs!Submit(r)
             \/ EmergeJobs!Answer(r) \/ EmergeJobs!Drop(r)
  <2>1. RequestStatus[r] = IF r \notin awaited THEN "new" ELSE IF r \in Held THEN "pending"
                           ELSE IF r \in excuse THEN "dropped" ELSE "answered"
    BY RequestStatusIs
  <2>2. RequestStatus'[r] = IF r \notin awaited' THEN "new" ELSE IF r \in Held' THEN "pending"
                            ELSE IF r \in excuse' THEN "dropped" ELSE "answered"
    <3>1. called'[r] = IF r \in awaited' \ (Held' \union excuse') THEN 1 ELSE 0
      BY DEF CallsAreCounted
    <3>2. RequestStatus'[r] = IF r \notin awaited' THEN "new"
                              ELSE IF r \in Held' THEN "pending"
                              ELSE IF called'[r] = 1 THEN "answered"
                              ELSE IF called'[r] = 0 THEN "dropped" ELSE "answered twice"
      BY DEF RequestStatus
    <3>3. CASE r \in awaited' \ (Held' \union excuse')
      BY <3>1, <3>2, <3>3
    <3>4. CASE r \notin awaited' \/ r \in Held'
      BY <3>2, <3>4
    <3>5. CASE r \in awaited' /\ r \notin Held' /\ r \in excuse'
      <4>1. called'[r] = 0 /\ 0 # 1
        BY <3>1, <3>5
      <4>2. QED
        BY <3>2, <3>5, <4>1
    <3>6. QED
      BY <3>3, <3>4, <3>5
  <2>3. Held \subseteq awaited /\ Held \cap excuse = {}
    BY DEF CallsAreCounted
  <2>4. CASE Held' = Held /\ UNCHANGED <<awaited, called, excuse>>
    BY <2>1, <2>2, <2>4
  <2>5. CASE \E N \in SUBSET (Requests \ awaited) : /\ Held' = Held \union N
                                                    /\ awaited' = awaited \union N
                                                    /\ UNCHANGED <<called, excuse>>
    BY <2>1, <2>2, <2>3, <2>5 DEF EmergeJobs!Submit
  <2>6. CASE \E N \in SUBSET Held : /\ Held' = Held \ N /\ excuse' = excuse \union N
                                    /\ UNCHANGED <<awaited, called>>
    BY <2>1, <2>2, <2>3, <2>6 DEF EmergeJobs!Drop
  <2>7. CASE \E k \in Held : /\ Held' = Held \ {k} /\ called' = [called EXCEPT ![k] = @ + 1]
                             /\ UNCHANGED <<awaited, excuse>>
    BY <2>1, <2>2, <2>3, <2>7 DEF EmergeJobs!Answer
  <2>8. QED
    BY <2>4, <2>5, <2>6, <2>7 DEF RequestsMove
<1>3. QED
  BY <1>1, <1>2 DEF EmergeJobs!Next

LEMMA EmergeJobsBegin == EmergeInit => EmergeJobs!Init
<1> SUFFICES ASSUME EmergeInit PROVE RequestStatus = [r \in Requests |-> "new"]
  BY DEF EmergeJobs!Init
<1>1. awaited = {}
  BY DEF EmergeInit
<1>2. QED
  BY <1>1 DEF RequestStatus

(* The queues and counts agree, no thread sleeps over work, a chunk has    *)
(* one generator, a change of a block survives but for one made while it   *)
(* is generated, and a callback is called once or given up for a reason,   *)
(* for any number of threads, positions and requests (EmergeManager).      *)
THEOREM EmergeCorrect == EmergeSpec => EmergeIsCorrect
<1>1. EmergeInit => EmergeInv /\ EmergeJobs!Init
  BY EmergeBegins, EmergeJobsBegin
<1>2. EmergeInv /\ [EmergeNext]_emergeVars
        => EmergeInv' /\ [EmergeJobs!Next]_<<RequestStatus, excuse>>
  <2> SUFFICES ASSUME EmergeInv, [EmergeNext]_emergeVars
               PROVE  EmergeInv' /\ EmergeJobs!Next
    OBVIOUS
  <2>1. EmergeInv' /\ RequestsMove
    BY EmergeKeeps
  <2>2. CallsAreCounted /\ CallsAreCounted'
    BY <2>1 DEF EmergeInv
  <2>3. QED
    BY <2>1, <2>2, EmergeImplementsJobs
<1>3. EmergeInv => EmergeIsSound /\ EditsSurvive
  BY EmergeInvSound
<1>4. QED
  BY <1>1, <1>2, <1>3, PTL DEF EmergeSpec, EmergeIsCorrect, EachCallbackOnce, EmergeJobs!Spec
=============================================================================
