------------------------- MODULE ThreadProxyProofs -------------------------
(***************************************************************************)
(* The contexts of lab32 for any clients and any reuse of thread ids: what *)
(* the cleaner may delete, what the map knows, what hits return, and the   *)
(* descriptors.  The key under the cleaner's iterator names a context that *)
(* stopped working; a key that is to be erased has no other thread the map *)
(* should know.                                                            *)
(***************************************************************************)
EXTENDS ThreadProxy, CommonLemmas

Labels ==
    {"none", "failed", "read", "find", "sendHit", "parse", "connect", "write", "readResponse",
     "add", "send", "stop", "close", "ended"}

TypeOK ==
    /\ newest \in Clients \cup {None}
    /\ key \in Keys \cup {-1}
    /\ dead \in SUBSET Keys
    /\ threadMap \in [Keys -> Clients \cup {None}]
    /\ pc \in [Clients -> Labels]
    /\ tid \in [Clients -> Keys]
    /\ joined \in SUBSET Clients /\ deleted \in SUBSET Clients /\ refused \in SUBSET Clients

\* Whom the map, the cleaner and the server thread know.
MapInv ==
    /\ server = "insert" => newest \in Clients /\ pc[newest] # "none"
    /\ \A n \in Keys : threadMap[n] # None =>
         tid[threadMap[n]] = n /\ pc[threadMap[n]] # "none"
    /\ cleaner = "join" =>
         /\ key \in Keys /\ threadMap[key] # None
         /\ pc[threadMap[key]] \in {"failed", "close", "ended"}

\* Who was joined and deleted.
GoneInv ==
    /\ \A c \in joined : pc[c] = "ended"
    /\ \A c \in deleted : pc[c] \in {"failed", "ended"}
    /\ \A c \in refused : pc[c] # "none"

\* Of the threads under a key that is to be erased, the map knows no other.
DeadInv ==
    cleaner \in {"next", "join", "erase"} =>
        \A n \in dead :
            /\ threadMap[n] # None
            /\ \A c \in Unjoined(n) : c \in refused \/ (server = "insert" /\ newest = c)

IInv == TypeOK /\ MapInv /\ GoneInv /\ DeadInv /\ Registered

USE TidAssumption, TextAssumption

-----------------------------------------------------------------------------
LEMMA NextKey == ASSUME TypeOK, Later # {} PROVE Min(Later) \in Later
<1>1. Later \in SUBSET (0..MaxTid)
  BY DEF Later, Entries, Keys, Tids
<1>2. \E x \in Later : \A y \in Later : x <= y
  BY <1>1, LeastMember
<1> QED
  BY <1>2 DEF Min

LEMMA InitInv == Init => IInv
BY DEF Init, InitServer, IInv, TypeOK, MapInv, GoneInv, DeadInv, Registered, Labels, Keys, HasThread, Unjoined

\* A step that leaves the map and the threads alone.
LEMMA QuietInvariance ==
    ASSUME IInv, UNCHANGED <<registry, pc, newest, dead, key>>,
           server' = "insert" <=> server = "insert",
           cleaner' # "join" \/ UNCHANGED cleaner,
           cleaner' \in {"next", "erase"} => cleaner \in {"next", "join", "erase"}
    PROVE  IInv'
BY DEF registry, IInv, TypeOK, MapInv, GoneInv, DeadInv, Registered, HasThread, Unjoined

\* A new client, with or without a thread.
LEMMA AddInvariance ==
    ASSUME IInv, NEW c \in Clients, AddClient(c) \/ AddClientFails(c) PROVE IInv'
<1> USE DEF IInv
<1>1. /\ server = "loop" /\ server' = "insert" /\ newest' = c /\ pc[c] = "none"
      /\ UNCHANGED <<collector, threadMap, joined, deleted, refused>>
  BY DEF AddClient, AddClientFails, ServerUnchanged
<1>2. PICK t \in Keys : tid' = [tid EXCEPT ![c] = t] /\ (AddClient(c) => t \in Free)
  BY DEF AddClient, AddClientFails, Free, Keys
<1>3. /\ pc' \in {[pc EXCEPT ![c] = "read"], [pc EXCEPT ![c] = "failed"]}
      /\ pc' = [pc EXCEPT ![c] = "read"] => t \in Free
  BY <1>1, <1>2 DEF AddClient, AddClientFails, Goto, TypeOK
<1>4. TypeOK'
  BY <1>1, <1>2, <1>3 DEF TypeOK, collector, Labels
<1>5. c \notin joined \cup deleted \cup refused /\ \A n \in Keys : threadMap[n] # c
  BY <1>1, TextAssumption DEF GoneInv, MapInv, TypeOK
<1>6. MapInv'
  BY <1>1, <1>2, <1>3, <1>5 DEF MapInv, TypeOK, collector
<1>7. GoneInv'
  BY <1>1, <1>3, <1>5 DEF GoneInv, TypeOK
<1>8. \A n \in Keys : Unjoined(n)' \subseteq Unjoined(n) \cup {c}
  BY <1>1, <1>2, <1>3 DEF Unjoined, HasThread, TypeOK
<1>9. DeadInv'
  BY <1>1, <1>8 DEF DeadInv, TypeOK, collector
<1>10. Registered'
  BY <1>1, <1>2, <1>3 DEF Registered, HasThread, TypeOK
<1> QED
  BY <1>4, <1>6, <1>7, <1>9, <1>10

\* The new client enters the map, or its key is there.
LEMMA InsertInvariance == IInv /\ Insert => IInv'
<1> SUFFICES ASSUME IInv, Insert PROVE IInv'
  OBVIOUS
<1> USE DEF IInv
<1>1. /\ server = "insert" /\ server' = "stdin" /\ newest \in Clients
      /\ UNCHANGED <<newest, tid, joined, deleted, pc, collector>>
  BY DEF Insert, ServerUnchanged, MapInv
<1>2. \A n : Unjoined(n)' = Unjoined(n)
  BY <1>1 DEF Unjoined, HasThread
<1>3. CASE threadMap[tid[newest]] = None
  <2>1. threadMap' = [threadMap EXCEPT ![tid[newest]] = newest] /\ UNCHANGED refused
    BY <1>3 DEF Insert
  <2>2. TypeOK'
    BY <1>1, <2>1 DEF TypeOK, collector
  <2>3. MapInv'
    BY <1>1, <1>3, <2>1, TextAssumption DEF MapInv, TypeOK, collector
  <2>4. GoneInv'
    BY <1>1, <2>1 DEF GoneInv
  <2>5. \A n \in dead : cleaner \in {"next", "join", "erase"} => newest \notin Unjoined(n)
    BY <1>1, <1>3 DEF DeadInv, Unjoined
  <2>6. DeadInv'
    BY <1>1, <1>2, <1>3, <2>1, <2>5, TextAssumption DEF DeadInv, TypeOK, collector
  <2>7. Registered'
    BY <1>1, <1>3, <2>1, TextAssumption DEF Registered, HasThread, TypeOK
  <2> QED
    BY <2>2, <2>3, <2>4, <2>6, <2>7
<1>4. CASE threadMap[tid[newest]] # None
  <2>1. refused' = refused \cup {newest} /\ UNCHANGED threadMap
    BY <1>4 DEF Insert
  <2>2. TypeOK' /\ MapInv' /\ GoneInv'
    BY <1>1, <2>1 DEF TypeOK, MapInv, GoneInv, collector
  <2>3. DeadInv'
    BY <1>1, <1>2, <2>1 DEF DeadInv, collector
  <2>4. Registered'
    BY <1>1, <2>1 DEF Registered, HasThread
  <2> QED
    BY <2>2, <2>3, <2>4
<1> QED
  BY <1>3, <1>4

\* The cleaner: where its iterator stands, whom it joins, what it erases.
LEMMA CleanerInvariance == IInv /\ CleanerStep => IInv'
<1> SUFFICES ASSUME IInv, CleanerStep PROVE IInv'
  OBVIOUS
<1>1. CASE LoopTest
  BY <1>1 DEF LoopTest, CleanerUnchanged, registry, IInv, TypeOK, MapInv, GoneInv, DeadInv,
     Registered, HasThread, Unjoined
<1>2. CASE NextEntry
  <2>1. Min(Later) \in Keys /\ threadMap[Min(Later)] # None
    BY <1>2, NextKey DEF NextEntry, IInv, Later, Entries
  <2> DEFINE n == Min(Later)
  <2> HIDE DEF n
  <2>2. key' = n /\ n \in Keys /\ threadMap[n] # None /\ cleaner = "next"
    BY <1>2, <2>1 DEF NextEntry, n
  <2>3. cleaner' = IF IsWorking(threadMap[n]) THEN "next" ELSE "join"
    BY <1>2 DEF NextEntry, n
  <2>4. ~IsWorking(threadMap[n]) => pc[threadMap[n]] \in {"failed", "close", "ended"}
    BY <2>2 DEF IsWorking, Running, HasThread, IInv, TypeOK, MapInv, Labels
  <2>5. UNCHANGED <<process, cleanerWorking, dead, alive, registry, server, newest, pc>>
    BY <1>2 DEF NextEntry, CleanerUnchanged
  <2> QED
    BY <2>2, <2>3, <2>4, <2>5 DEF registry, IInv, TypeOK, MapInv, GoneInv, DeadInv,
       Registered, HasThread, Unjoined
<1>3. CASE EndOfMap
  BY <1>3, QuietInvariance DEF EndOfMap, CleanerUnchanged, registry
<1>4. CASE JoinThread
  <2> USE DEF IInv
  <2>1. /\ cleaner = "join" /\ cleaner' = "next" /\ key \in Keys /\ threadMap[key] \in Clients
        /\ joined' = joined \cup Unjoined(key)
        /\ deleted' = deleted \cup {threadMap[key]}
        /\ dead' = dead \cup {key}
        /\ UNCHANGED <<key, threadMap, tid, refused, server, newest, pc>>
        /\ \A c \in Unjoined(key) : pc[c] = "ended"
    BY <1>4 DEF JoinThread, CleanerUnchanged, MapInv, TypeOK
  <2>2. TypeOK'
    BY <2>1 DEF TypeOK, Unjoined
  <2>3. MapInv'
    BY <2>1 DEF MapInv
  <2>4. pc[threadMap[key]] \in {"failed", "ended"}
    <3>1. pc[threadMap[key]] = "close" => threadMap[key] \in Unjoined(key)
      BY <2>1 DEF Unjoined, HasThread, MapInv, GoneInv
    <3> QED
      BY <2>1, <3>1 DEF MapInv
  <2>5. GoneInv'
    BY <2>1, <2>4 DEF GoneInv
  <2>6. \A n : Unjoined(n)' \subseteq Unjoined(n)
    BY <2>1 DEF Unjoined, HasThread
  <2>7. Unjoined(key)' = {}
    BY <2>1 DEF Unjoined, HasThread
  <2>8. DeadInv'
    BY <2>1, <2>6, <2>7 DEF DeadInv, MapInv
  <2>9. Registered'
    BY <2>1 DEF Registered, HasThread
  <2> QED
    BY <2>2, <2>3, <2>5, <2>8, <2>9
<1>5. CASE JoinNobody
  BY <1>5, QuietInvariance DEF JoinNobody, CleanerUnchanged, collector, registry
<1>6. CASE Erase
  <2> USE DEF IInv
  <2>1. /\ cleaner = "erase" /\ cleaner' = "test"
        /\ threadMap' = [n \in Keys |-> IF n \in dead THEN None ELSE threadMap[n]]
        /\ UNCHANGED <<key, dead, tid, joined, deleted, refused, server, newest, pc>>
    BY <1>6 DEF Erase, CleanerUnchanged
  <2>2. TypeOK' /\ MapInv' /\ GoneInv' /\ DeadInv'
    BY <2>1 DEF TypeOK, MapInv, GoneInv, DeadInv
  <2>3. ASSUME NEW c \in Clients, HasThread(c), c \notin joined \cup refused,
               ~(server = "insert" /\ newest = c)
        PROVE  threadMap'[tid[c]] = c
    <3>1. tid[c] \notin dead
      BY <2>1, <2>3 DEF DeadInv, Unjoined, TypeOK
    <3> QED
      BY <2>1, <2>3, <3>1 DEF Registered, TypeOK
  <2>4. Registered'
    BY <2>1, <2>3 DEF Registered, HasThread
  <2> QED
    BY <2>2, <2>4
<1> QED
  BY <1>1, <1>2, <1>3, <1>4, <1>5, <1>6 DEF CleanerStep

\* A client thread goes on; once it stopped working it only ends.
Advance(c, label) ==
    /\ pc[c] \notin {"none", "failed", "ended"}
    /\ label \in Labels \ {"none", "failed"}
    /\ pc[c] = "close" => label = "ended"
    /\ pc' = [pc EXCEPT ![c] = label]

LEMMA AdvanceInvariance ==
    ASSUME IInv, NEW c \in Clients, ClientUnchanged,
           UNCHANGED pc \/ \E label \in Labels : Advance(c, label)
    PROVE  IInv'
<1>1. CASE UNCHANGED pc
  BY <1>1, QuietInvariance DEF ClientUnchanged, collector
<1>2. ASSUME NEW label \in Labels, Advance(c, label) PROVE IInv'
  <2> USE DEF IInv, ClientUnchanged, collector, registry
  <2>1. \A d : HasThread(d)' <=> HasThread(d)
    BY <1>2 DEF Advance, HasThread, TypeOK
  <2>2. \A n : Unjoined(n)' = Unjoined(n)
    BY <2>1 DEF Unjoined
  <2>3. TypeOK'
    BY <1>2 DEF Advance, TypeOK
  <2>4. MapInv'
    BY <1>2 DEF Advance, TypeOK, MapInv
  <2>5. GoneInv'
    BY <1>2 DEF Advance, TypeOK, GoneInv
  <2>6. DeadInv'
    BY <2>2 DEF DeadInv
  <2>7. Registered'
    BY <2>1 DEF Registered
  <2> QED
    BY <2>3, <2>4, <2>5, <2>6, <2>7
<1> QED
  BY <1>1, <1>2

LEMMA ClientInvariance ==
    ASSUME IInv, NEW c \in Clients, ClientStep(c) \/ ClientEvent(c) PROVE IInv'
<1>1. ClientUnchanged /\ (UNCHANGED pc \/ \E label \in Labels : Advance(c, label))
  <2> USE DEF At, Goto, Reply, Killed, Advance, Labels
  <2>1. CASE ClientStep(c)
    BY <2>1 DEF ClientStep, FindInCash, Parse, AddToCash, StopWorking, CloseSocket
  <2>2. CASE ClientEvent(c)
    BY <2>2 DEF ClientEvent, Read, SendHit, CreateHTTPSocket, WriteRequest, ReadResponse, SendResponse
  <2> QED
    BY <2>1, <2>2
<1> QED
  BY <1>1, AdvanceInvariance

LEMMA ServerInvariance == IInv /\ (ServerStep \/ ServerEvent) => IInv'
<1> SUFFICES ASSUME IInv, ServerStep \/ ServerEvent PROVE IInv'
  OBVIOUS
<1> USE DEF ServerUnchanged, registry, collector
<1>1. CASE ConnectSocket \/ CreateCashContext \/ CloseApp
  BY <1>1, QuietInvariance DEF ConnectSocket, CreateCashContext, CloseApp
<1>2. CASE CreateCleaner
  BY <1>2, QuietInvariance DEF CreateCleaner
<1>3. CASE StopRoutine \/ JoinCleaner \/ InsertRaces
  BY <1>3, QuietInvariance DEF StopRoutine, JoinCleaner, InsertRaces
<1>4. CASE PollStdin \/ ServerFails
  BY <1>4, QuietInvariance DEF PollStdin, ServerFails
<1> QED
  BY <1>1, <1>2, <1>3, <1>4, InsertInvariance, AddInvariance DEF ServerStep, ServerEvent

\* The map, the cleaner and the threads agree in every reachable state.
THEOREM Invariance == Spec => []IInv
<1>1. IInv /\ [Next]_vars => IInv'
  <2> SUFFICES ASSUME IInv, [Next]_vars PROVE IInv'
    OBVIOUS
  <2>1. CASE UNCHANGED vars
    BY <2>1, QuietInvariance DEF vars, collector
  <2> QED
    BY <2>1, ServerInvariance, CleanerInvariance, ClientInvariance DEF Next
<1> QED
  BY InitInv, <1>1, PTL DEF Spec

\* Cleaner.cpp 20-37, Context.cpp 14-50: whatever ids are used again and whatever a failed
\* creation left in the map, no context is deleted under its thread.
THEOREM ContextsOutliveThreads == Spec => []ContextOutlivesThread
<1>1. IInv => ContextOutlivesThread
  BY DEF IInv, GoneInv, ContextOutlivesThread, Running, HasThread
<1> QED
  BY <1>1, Invariance, PTL

\* Context.cpp 10-12: a thread that is not joined is under its id in the map, unless insert
\* refused it.
THEOREM ThreadsRegistered == Spec => []Registered
BY Invariance, PTL DEF IInv

-----------------------------------------------------------------------------
(* What the threads exchange, and their descriptors.                       *)

DataInv ==
    /\ cache \in [Requests -> Responses \cup {None}]
    /\ request \in [Clients -> Requests \cup {Malformed, None}]
    /\ response \in [Clients -> Responses \cup {None}]
    /\ \A c \in Clients : pc[c] = "sendHit" =>
         request[c] \in Requests /\ cache[request[c]] # None /\ response[c] = cache[request[c]]
    /\ \A c \in Clients :
         /\ <<c, "http">> \in sockets => pc[c] \in {"write", "readResponse"}
         /\ <<c, "user">> \in sockets => pc[c] \notin {"none", "failed", "ended"}

\* Who stores a response does so only where there is none: the hits that are being sent
\* stay what is stored.
LEMMA ClientData ==
    ASSUME IInv, DataInv, NEW c \in Clients, ClientStep(c) \/ ClientEvent(c) PROVE DataInv'
<1> USE DEF At, Goto, DataInv, IInv, TypeOK
<1>1. CASE FindInCash(c)
  BY <1>1 DEF FindInCash
<1>2. CASE AddToCash(c)
  BY <1>2 DEF AddToCash
<1>3. CASE Parse(c) \/ StopWorking(c) \/ CloseSocket(c)
  BY <1>3 DEF Parse, Killed, exchange, StopWorking, CloseSocket
<1>4. CASE Read(c)
  BY <1>4 DEF Read
<1>5. CASE SendHit(c) \/ SendResponse(c)
  BY <1>5 DEF SendHit, SendResponse, Reply, Forget, Killed, exchange
<1>6. CASE CreateHTTPSocket(c)
  BY <1>6 DEF CreateHTTPSocket, Forget, exchange
<1>7. CASE WriteRequest(c)
  BY <1>7 DEF WriteRequest, Forget, Killed, exchange
<1>8. CASE ReadResponse(c)
  BY <1>8 DEF ReadResponse
<1> QED
  BY <1>1, <1>2, <1>3, <1>4, <1>5, <1>6, <1>7, <1>8 DEF ClientStep, ClientEvent

LEMMA OtherData ==
    ASSUME IInv, DataInv, ServerStep \/ ServerEvent \/ CleanerStep PROVE DataInv'
<1> USE DEF DataInv, IInv, TypeOK, exchange
<1>1. CASE \E c \in Clients : AddClient(c) \/ AddClientFails(c)
  BY <1>1 DEF AddClient, AddClientFails, ServerUnchanged, Goto
<1>2. CASE CleanerStep
  BY <1>2 DEF CleanerStep, LoopTest, NextEntry, EndOfMap, JoinThread, JoinNobody, Erase, CleanerUnchanged
<1>3. CASE ServerStep \/ PollStdin \/ ServerFails
  BY <1>3 DEF ServerStep, ConnectSocket, CreateCashContext, CreateCleaner, CloseApp, Insert,
     InsertRaces, StopRoutine, JoinCleaner, PollStdin, ServerFails, ServerUnchanged
<1> QED
  BY <1>1, <1>2, <1>3 DEF ServerEvent

THEOREM DataInvariance == Spec => []DataInv
<1>1. Init => DataInv
  BY DEF Init, DataInv
<1>2. IInv /\ DataInv /\ [Next]_vars => DataInv'
  <2> SUFFICES ASSUME IInv, DataInv, [Next]_vars PROVE DataInv'
    OBVIOUS
  <2>1. CASE UNCHANGED vars
    BY <2>1 DEF vars, exchange, DataInv
  <2> QED
    BY <2>1, ClientData, OtherData DEF Next
<1> QED
  BY <1>1, <1>2, Invariance, PTL DEF Spec

\* ThreadContext.cpp 55-113: every user that is served from the cache gets the response
\* stored first.
THEOREM HitsAreEqual == Spec => []HitsAgree
<1>1. DataInv => HitsAgree
  BY DEF DataInv, HitsAgree
<1> QED
  BY <1>1, DataInvariance, PTL

\* ThreadContext.cpp 44-140: no path out of handleRequest leaves a descriptor open behind
\* a thread that ended.
THEOREM SocketsClosed == Spec => []SocketsFollowThreads
<1>1. DataInv => SocketsFollowThreads
  BY DEF DataInv, SocketsFollowThreads
<1> QED
  BY <1>1, DataInvariance, PTL
=============================================================================
