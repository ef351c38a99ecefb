----------------------------- MODULE ThreadProxy -----------------------------
(***************************************************************************)
(* lab32: a proxy with one thread per client.  The server thread accepts   *)
(* clients and enters their contexts into _threadMap under their thread    *)
(* ids; a cleaner thread walks the map, joins the threads that stopped     *)
(* working and erases their entries; a client thread answers requests from *)
(* the shared cache or from the origin.  _threadMap has no lock.           *)
(*                                                                         *)
(* Thread ids are addresses of stacks: an id is free again as soon as its  *)
(* thread is joined.  After undefined behaviour the model stops.           *)
(***************************************************************************)
EXTENDS Integers, FiniteSetsExt

CONSTANTS
    Clients,    \* connections, each with the ThreadContext made for it
    MaxTid,     \* thread ids are 1..MaxTid
    Requests,   \* texts that parse
    Malformed,  \* a text that does not
    Responses,  \* what may be read from an origin
    Empty,      \* the empty response, one of them
    None        \* no context, no text, no entry of the cache

ASSUME TidAssumption == MaxTid \in Nat \ {0}
ASSUME TextAssumption ==
    /\ Malformed \notin Requests /\ Empty \in Responses
    /\ None \notin Clients \cup Requests \cup Responses \cup {Malformed}

Tids == 1..MaxTid
Keys == Tids \cup {0}   \* _tid is 0 until pthread_create writes it

VARIABLES
    process,        \* "up", "killed" or "undefined"
    server,         \* where the server thread stands
    newest,         \* the context addClient has just made
    cleaner,        \* where the cleaner thread stands
    cleanerWorking, \* Cleaner::_isWorking
    key,            \* the key its iterator stands on, -1 before the first
    dead,           \* keysToDelete
    alive,          \* aliveTreadCount
    threadMap,      \* _threadMap, None where a key is absent
    pc,             \* where each client thread stands
    tid,            \* _tid of each context
    joined,         \* contexts whose thread has been joined
    deleted,        \* contexts deleted
    refused,        \* contexts whose key was already in the map
    cache,          \* _requestResponse
    request,        \* what each client thread has read
    response,       \* what it will send
    sockets         \* descriptors open for each context

collector == <<cleaner, cleanerWorking, key, dead, alive>>
registry == <<threadMap, tid, joined, deleted, refused>>
exchange == <<cache, request, response>>
vars == <<process, server, newest, collector, registry, pc, exchange, sockets>>

Goto(c, label) == pc' = [pc EXCEPT ![c] = label]

HasThread(c) == pc[c] \notin {"none", "failed"}
Running(c) == HasThread(c) /\ pc[c] # "ended"
IsWorking(c) == Running(c) /\ pc[c] # "close"

\* The threads an id stands for; an id is free when there is none.
Unjoined(t) == {c \in Clients : tid[c] = t /\ HasThread(c) /\ c \notin joined}
Free == {t \in Tids : Unjoined(t) = {}}

Up == process = "up"

-----------------------------------------------------------------------------
(* The server thread.                                                      *)

ServerUnchanged == UNCHANGED <<collector, exchange>>

\* connectSocket and the constructors of the contexts: a call that fails throws, and
\* main catches it.
ConnectSocket ==
    /\ Up /\ server = "socket"
    /\ server' \in {"context", "left"}
    /\ UNCHANGED <<process, newest, registry, pc, sockets>> /\ ServerUnchanged

CreateCashContext ==
    /\ Up /\ server = "context"
    /\ server' \in {"cleaner", "left"}
    /\ UNCHANGED <<process, newest, registry, pc, sockets>> /\ ServerUnchanged

\* The server goes on without a cleaner when its thread cannot be created.
CreateCleaner ==
    /\ Up /\ server = "cleaner"
    /\ cleaner' \in {"test", "absent"}
    /\ cleanerWorking' = (cleaner' = "test")
    /\ server' = "loop"
    /\ UNCHANGED <<process, newest, key, dead, alive, registry, pc, exchange, sockets>>

\* main closes the log and leaves by pthread_exit: the clients' threads go on.
CloseApp ==
    /\ Up /\ server \in {"exited", "left"}
    /\ server' = "closed"
    /\ UNCHANGED <<process, newest, registry, pc, sockets>> /\ ServerUnchanged

\* acceptNewClient: the new context starts its thread.
AddClient(c) ==
    /\ Up /\ server = "loop" /\ pc[c] = "none"
    /\ \E t \in Free :
         /\ tid' = [tid EXCEPT ![c] = t]
         /\ Goto(c, "read")
    /\ sockets' = sockets \cup {<<c, "user">>}
    /\ newest' = c
    /\ server' = "insert"
    /\ UNCHANGED <<process, threadMap, joined, deleted, refused>> /\ ServerUnchanged

\* Without a thread the socket is closed, and the context is entered all the same:
\* under 0, or under an id that was written before its thread could not be started.
AddClientFails(c) ==
    /\ Up /\ server = "loop" /\ pc[c] = "none"
    /\ \E t \in Free \cup {0} : tid' = [tid EXCEPT ![c] = t]
    /\ Goto(c, "failed")
    /\ newest' = c
    /\ server' = "insert"
    /\ UNCHANGED <<process, threadMap, joined, deleted, refused, sockets>> /\ ServerUnchanged

\* Mutant: the entry is overwritten.
InsertMutant ==
    /\ Up /\ server = "insert"
    /\ threadMap' = [threadMap EXCEPT ![tid[newest]] = newest]
    /\ server' = "stdin"
    /\ UNCHANGED <<process, newest, tid, joined, deleted, refused, pc, sockets>> /\ ServerUnchanged

\* map::insert does nothing when the key is there.
Insert ==
    /\ Up /\ server = "insert"
    /\ IF threadMap[tid[newest]] = None
         THEN threadMap' = [threadMap EXCEPT ![tid[newest]] = newest] /\ UNCHANGED refused
         ELSE refused' = refused \cup {newest} /\ UNCHANGED threadMap
    /\ server' = "stdin"
    /\ UNCHANGED <<process, newest, tid, joined, deleted, pc, sockets>> /\ ServerUnchanged

\* An insert that overlaps the cleaner's use of the map is a data race.
InsertRaces ==
    /\ Up /\ server = "insert"
    /\ cleaner \in {"next", "erase"}
    /\ process' = "undefined"
    /\ UNCHANGED <<server, newest, registry, pc, sockets>> /\ ServerUnchanged

\* poll timed out, or the accepted client is entered: look at stdin.
PollStdin ==
    /\ Up /\ server \in {"loop", "stdin"}
    /\ \/ server' = "loop"
       \/ server' = "quit"
    /\ UNCHANGED <<process, newest, registry, pc, sockets>> /\ ServerUnchanged

\* A failed poll, or a failed accept, whose exception is not the pointer the catch
\* clause names, leaves startServer: its local cleaner is gone under a running thread.
ServerFails ==
    /\ Up /\ server \in {"loop", "stdin"}
    /\ process' = IF cleaner = "absent" THEN "up" ELSE "undefined"
    /\ server' = "left"
    /\ UNCHANGED <<newest, registry, pc, sockets>> /\ ServerUnchanged

\* Mutant: the flag stays set.
StopRoutineMutant ==
    /\ Up /\ server = "quit"
    /\ server' = "joinCleaner"
    /\ UNCHANGED <<process, newest, collector, registry, pc, exchange, sockets>>

StopRoutine ==
    /\ Up /\ server = "quit"
    /\ cleanerWorking' = FALSE
    /\ server' = "joinCleaner"
    /\ UNCHANGED <<process, newest, cleaner, key, dead, alive, registry, pc, exchange, sockets>>

\* stopRoutine waits for the cleaner; without one it joins an id nobody wrote.
JoinCleaner ==
    /\ Up /\ server = "joinCleaner"
    /\ \/ /\ cleaner \in {"exited", "absent"}
          /\ server' = "exited"
          /\ UNCHANGED process
       \/ /\ cleaner = "absent"
          /\ process' = "undefined"
          /\ UNCHANGED server
    /\ UNCHANGED <<newest, registry, pc, sockets>> /\ ServerUnchanged

-----------------------------------------------------------------------------
(* The cleaner thread.                                                     *)

CleanerUnchanged == UNCHANGED <<server, newest, pc, exchange, sockets>>

\* startRoutine: while (_isWorking || aliveTreadCount != 0)
LoopTest ==
    /\ Up /\ cleaner = "test"
    /\ cleaner' = IF cleanerWorking \/ alive # 0 THEN "next" ELSE "exited"
    /\ key' = -1
    /\ dead' = {}
    /\ UNCHANGED <<process, cleanerWorking, alive, registry>> /\ CleanerUnchanged

Entries == {k \in Keys : threadMap[k] # None}

\* Mutant: the iterator is advanced twice.
LaterMutant == {k \in Entries : k > key + 1}

Later == {k \in Entries : k > key}

\* joinDeadClients moves its iterator and asks the context there.
NextEntry ==
    /\ Up /\ cleaner = "next" /\ Later # {}
    /\ key' = Min(Later)
    /\ cleaner' = IF IsWorking(threadMap[Min(Later)]) THEN "next" ELSE "join"
    /\ UNCHANGED <<process, cleanerWorking, dead, alive, registry>> /\ CleanerUnchanged

EndOfMap ==
    /\ Up /\ cleaner = "next" /\ Later = {}
    /\ cleaner' = "erase"
    /\ UNCHANGED <<process, cleanerWorking, key, dead, alive, registry>> /\ CleanerUnchanged

\* Mutant: deletes without joining.
JoinThreadMutant ==
    /\ Up /\ cleaner = "join"
    /\ UNCHANGED joined
    /\ deleted' = deleted \cup {threadMap[key]}
    /\ dead' = dead \cup {key}
    /\ cleaner' = "next"
    /\ UNCHANGED <<process, cleanerWorking, key, alive, threadMap, tid, refused>> /\ CleanerUnchanged

\* pthread_join of the key waits for the thread that has this id now; the context
\* of the entry is deleted, its entry stays for the time being.
JoinThread ==
    /\ Up /\ cleaner = "join"
    /\ key # 0
    /\ \A c \in Unjoined(key) : pc[c] = "ended"
    /\ joined' = joined \cup Unjoined(key)
    /\ deleted' = deleted \cup {threadMap[key]}
    /\ dead' = dead \cup {key}
    /\ cleaner' = "next"
    /\ UNCHANGED <<process, cleanerWorking, key, alive, threadMap, tid, refused>> /\ CleanerUnchanged

\* No thread has this id.
JoinNobody ==
    /\ Up /\ cleaner = "join"
    /\ key = 0 \/ Unjoined(key) = {}
    /\ process' = "undefined"
    /\ UNCHANGED <<collector, registry>> /\ CleanerUnchanged

Erase ==
    /\ Up /\ cleaner = "erase"
    /\ threadMap' = [k \in Keys |-> IF k \in dead THEN None ELSE threadMap[k]]
    /\ alive' = Cardinality(Entries \ dead)
    /\ cleaner' = "test"
    /\ UNCHANGED <<process, cleanerWorking, key, dead, tid, joined, deleted, refused>> /\ CleanerUnchanged

-----------------------------------------------------------------------------
(* A client thread: startRoutine and handleRequest.                        *)

ClientUnchanged == UNCHANGED <<server, newest, collector, registry>>
At(c, label) == Up /\ pc[c] = label

\* read from the user: a request, or the end.
Read(c) ==
    /\ At(c, "read")
    /\ \/ \E text \in Requests \cup {Malformed} :
            /\ request' = [request EXCEPT ![c] = text]
            /\ Goto(c, "find")
       \/ Goto(c, "stop") /\ UNCHANGED request
    /\ UNCHANGED <<process, cache, response, sockets>> /\ ClientUnchanged

\* findInCash: an empty response is no hit.
FindInCash(c) ==
    /\ At(c, "find")
    /\ LET found == request[c] \in Requests /\ cache[request[c]] \notin {None, Empty}
       IN  IF found
             THEN /\ response' = [response EXCEPT ![c] = cache[request[c]]]
                  /\ Goto(c, "sendHit")
             ELSE Goto(c, "parse") /\ UNCHANGED response
    /\ UNCHANGED <<process, cache, request, sockets>> /\ ClientUnchanged

\* A peer that is gone turns a write into SIGPIPE, which is not ignored; so does an
\* exception that leaves the thread.
Killed ==
    /\ process' = "killed"
    /\ UNCHANGED <<pc, exchange, sockets>>

\* handleRequest returns: what was read for it is gone.
Forget(c) ==
    /\ request' = [request EXCEPT ![c] = None]
    /\ response' = [response EXCEPT ![c] = None]
    /\ UNCHANGED <<process, cache>>

\* The response is written to the user: the next request, or an error.
Reply(c) ==
    /\ \/ Goto(c, "read") /\ Forget(c) /\ UNCHANGED sockets
       \/ Goto(c, "stop") /\ Forget(c) /\ UNCHANGED sockets
       \/ Killed
    /\ ClientUnchanged

SendHit(c) == At(c, "sendHit") /\ Reply(c)

\* findHostAndPort is content with the text.
HostFound(text) == text # Malformed

\* parsingHeading: nobody catches its exception in this thread.
Parse(c) ==
    /\ At(c, "parse")
    /\ IF HostFound(request[c])
         THEN Goto(c, "connect") /\ UNCHANGED <<process, exchange, sockets>>
         ELSE Killed
    /\ ClientUnchanged

CreateHTTPSocket(c) ==
    /\ At(c, "connect")
    /\ \/ Goto(c, "write") /\ sockets' = sockets \cup {<<c, "http">>} /\ UNCHANGED <<process, exchange>>
       \/ Goto(c, "stop") /\ UNCHANGED sockets /\ Forget(c)
    /\ ClientUnchanged

\* The request goes to the origin; a failed write closes the socket.
WriteRequest(c) ==
    /\ At(c, "write")
    /\ \/ Goto(c, "readResponse") /\ UNCHANGED <<process, exchange, sockets>>
       \/ Goto(c, "stop") /\ Forget(c) /\ sockets' = sockets \ {<<c, "http">>}
       \/ Killed
    /\ ClientUnchanged

\* readResponse: whatever ends the reading, an error too, it was the response.
ReadResponse(c) ==
    /\ At(c, "readResponse")
    /\ \E r \in Responses : response' = [response EXCEPT ![c] = r]
    /\ sockets' = sockets \ {<<c, "http">>}
    /\ Goto(c, "add")
    /\ UNCHANGED <<process, cache, request>> /\ ClientUnchanged

\* Mutant: the last response wins.
AddToCashMutant(c) ==
    /\ At(c, "add")
    /\ cache' = [cache EXCEPT ![request[c]] = response[c]]
    /\ Goto(c, "send")
    /\ UNCHANGED <<process, request, response, sockets>> /\ ClientUnchanged

AddToCash(c) ==
    /\ At(c, "add")
    /\ cache' = [cache EXCEPT ![request[c]] = IF @ = None THEN response[c] ELSE @]
    /\ Goto(c, "send")
    /\ UNCHANGED <<process, request, response, sockets>> /\ ClientUnchanged

SendResponse(c) == At(c, "send") /\ Reply(c)

\* _isWorking = false, then close, then the thread ends.
StopWorking(c) ==
    /\ At(c, "stop")
    /\ Goto(c, "close")
    /\ UNCHANGED <<process, exchange, sockets>> /\ ClientUnchanged

CloseSocket(c) ==
    /\ At(c, "close")
    /\ sockets' = sockets \ {<<c, "user">>}
    /\ Goto(c, "ended")
    /\ UNCHANGED <<process, exchange>> /\ ClientUnchanged

-----------------------------------------------------------------------------
\* ServerImpl::ServerImpl: the socket comes first, then the contexts.
InitServer ==
    /\ server = "socket"
    /\ newest = None

Init ==
    /\ process = "up"
    /\ InitServer
    /\ cleaner = "absent"
    /\ cleanerWorking = FALSE
    /\ key = -1
    /\ dead = {}
    /\ alive = 0
    /\ threadMap = [k \in Keys |-> None]
    /\ pc = [c \in Clients |-> "none"]
    /\ tid = [c \in Clients |-> 0]
    /\ joined = {}
    /\ deleted = {}
    /\ refused = {}
    /\ cache = [q \in Requests |-> None]
    /\ request = [c \in Clients |-> None]
    /\ response = [c \in Clients |-> None]
    /\ sockets = {}

ServerStep == ConnectSocket \/ CreateCashContext \/ CreateCleaner \/ CloseApp
              \/ Insert \/ InsertRaces \/ StopRoutine \/ JoinCleaner
ServerEvent == (\E c \in Clients : AddClient(c) \/ AddClientFails(c)) \/ PollStdin \/ ServerFails

CleanerStep == LoopTest \/ NextEntry \/ EndOfMap \/ JoinThread \/ JoinNobody \/ Erase

ClientStep(c) == FindInCash(c) \/ Parse(c) \/ AddToCash(c) \/ StopWorking(c) \/ CloseSocket(c)
ClientEvent(c) == Read(c) \/ SendHit(c) \/ CreateHTTPSocket(c) \/ WriteRequest(c)
                  \/ ReadResponse(c) \/ SendResponse(c)

Next == ServerStep \/ ServerEvent \/ CleanerStep
        \/ \E c \in Clients : ClientStep(c) \/ ClientEvent(c)

Spec == Init /\ [][Next]_vars

\* Threads that can run do; what waits for a peer or for stdin may wait for ever.
Fairness == WF_vars(ServerStep) /\ WF_vars(CleanerStep) /\ \A c \in Clients : WF_vars(ClientStep(c))
FairSpec == Spec /\ Fairness

-----------------------------------------------------------------------------
(* Properties.                                                             *)

\* The cleaner deletes a context only when no thread uses it any more, although
\* ids are used again and the entry of a failed creation may name another's thread.
ContextOutlivesThread == \A c \in deleted : ~Running(c)

\* Every context whose thread has not been joined is in the map, unless insert
\* refused it because its id still stood there: no erase loses a new client.
Registered ==
    \A c \in Clients :
        HasThread(c) /\ c \notin joined \cup refused /\ ~(server = "insert" /\ newest = c)
            => threadMap[tid[c]] = c

\* Users served from the cache all get the first response that was stored, whatever
\* the origins answered to those that missed meanwhile.
HitsAgree ==
    \A c \in Clients : pc[c] = "sendHit" => response[c] = cache[request[c]]

\* A thread that ended left no socket open, on any of the paths out of handleRequest.
SocketsFollowThreads ==
    \A c \in Clients :
        /\ <<c, "http">> \in sockets => pc[c] \in {"write", "readResponse"}
        /\ pc[c] \in {"failed", "ended"} => <<c, "user">> \notin sockets

\* The cleaner may wait for a thread that was not made for the entry it stands on.
WaitsForStranger ==
    cleaner = "join" /\ \E c \in Unjoined(key) : c # threadMap[key] /\ Running(c)

\* A client whose thread ended and that is in the map is collected, as long as the
\* cleaner lives and does not wait for somebody else's thread.
EndedIsCollected ==
    \A c \in Clients :
        (pc[c] = "ended" /\ threadMap[tid[c]] = c) ~>
            \/ c \in deleted
            \/ WaitsForStranger
            \/ cleaner \in {"absent", "exited"} \/ process # "up"

\* After "q", once no client is served any more, the server thread gets out and main ends.
QuitEnds ==
    (server = "quit" /\ \A c \in Clients : ~Running(c))
        ~> (server = "closed" \/ process # "up")
=============================================================================
