-------------------------- MODULE HandlerOneClient --------------------------
(***************************************************************************)
(* One handler thread of lab32v2: the poll loop that serves one user, its  *)
(* list of at most two clients (the origin server in front of the user),   *)
(* and the buffer the two share.                                           *)
(*                                                                         *)
(* Modelled: HandlerOneClientImpl, BufferImpl without its cache reads      *)
(* (those are CashTransfer's), and the state of ClientImpl.  The streams   *)
(* are sequences of units <<sender, number>>; the heading of a request is  *)
(* its first ReqHead units, that of a response its first RespHead units.   *)
(* Each iteration over the list is three steps: the poll events up to the  *)
(* connection (lines 62-119), the END_WORK tests (120-143), the sending    *)
(* (144-176).  Only this thread touches the state; what the peers do comes *)
(* between its steps.                                                      *)
(***************************************************************************)
EXTENDS Integers, Sequences, SequencesExt

CONSTANTS
    Requests,    \* requests a user may make: [kind, body]
    Responses,   \* responses an origin may give: [ok, known, body, marker]
    ReqHead,     \* units of a request's heading
    RespHead,    \* units of a response's heading
    BufMax,      \* units that BUF_SIZE - 1 bytes stand for
    Extra,       \* units a user may send after its request
    EarlyReply,  \* origins may speak from the moment they are connected
    SlowPeers    \* the peers' sockets may refuse data for a while

ASSUME HeadAssumption ==
    /\ ReqHead \in Nat \ {0} /\ RespHead \in Nat \ {0} /\ BufMax \in Nat
ASSUME PeerAssumption ==
    /\ Extra \in Nat /\ EarlyReply \in BOOLEAN /\ SlowPeers \in BOOLEAN
    /\ ReqHead + Extra <= BufMax   \* one write takes a heading and what came with it
ASSUME MessageAssumption ==
    /\ Requests \subseteq [kind : {"get", "post", "bad"}, body : Nat]
    /\ \A r \in Requests : r.kind = "get" => r.body = 0   \* what a GET sends more is Extra
    /\ Responses \subseteq [ok : BOOLEAN, known : BOOLEAN, body : Nat, marker : BOOLEAN]

Clients == {"user", "server"}

VARIABLES
    pc,        \* the server: "listen", "accept", "create"; its new thread: "start"; the
               \* handler: "poll", "event", "connect", "check", "send", "sent", "fromCash",
               \* "exit"; "abandoned" (no thread for the user), "ended" (the process) and
               \* "astray" (what an origin said was taken for the end of the request)
    list,      \* _clientList
    it,        \* position of the iterator in it
    live,      \* client objects allocated and not deleted
    pair,      \* the user's _pair points to the server
    handling,  \* the server's _listHandlingEvent holds the user
    events,    \* _structPollFd.events of each client
    revents,   \* _structPollFd.revents of each client
    b,         \* the fields of the shared BufferImpl
    bufLive,   \* that object is allocated
    elem,      \* the element of the cache the response goes to
    pollFailed,\* poll returned -1
    request, response,                        \* what the peers have to say
    userSent, userRead, userClosed, toUser,   \* the user's connection
    originSent, originRead, originClosed, toOrigin   \* the server's connection

links == <<list, live, pair, handling, bufLive>>
user == <<userSent, userRead, userClosed, toUser>>
origin == <<originSent, originRead, originClosed, toOrigin>>
script == <<request, response>>
vars == <<pc, it, links, events, revents, b, elem, pollFailed, script, user, origin>>

AllEvents == {"in", "out", "rdhup"}

\* A new BufferImpl, with the connection of the user recorded.
NewBuffer ==
    [statusClient |-> "WRITE_REQUEST_HEADING", statusServer |-> "READ_REQUEST", buf |-> <<>>,
     clientConnect |-> TRUE, serverConnect |-> FALSE, ready |-> FALSE, endSend |-> FALSE,
     readyConnect |-> FALSE, lengthBody |-> 0, haveLength |-> FALSE,
     addData |-> FALSE, getCash |-> FALSE, error |-> FALSE]

NoElement == [content |-> <<>>, connected |-> FALSE, ended |-> FALSE]

Init ==
    /\ pc = "listen"
    /\ list = <<>>
    /\ it = 1
    /\ live = {}
    /\ pair = FALSE
    /\ handling = FALSE
    /\ events = [c \in Clients |-> IF c = "user" THEN {"in", "rdhup"} ELSE AllEvents]
    /\ revents = [c \in Clients |-> {}]
    /\ b = NewBuffer
    /\ bufLive = FALSE
    /\ elem = NoElement
    /\ pollFailed = FALSE
    /\ request \in Requests
    /\ response \in Responses
    /\ userSent = 0 /\ userRead = 0 /\ userClosed = FALSE /\ toUser = <<>>
    /\ originSent = 0 /\ originRead = 0 /\ originClosed = FALSE /\ toOrigin = <<>>

-----------------------------------------------------------------------------
(* main and startServer, up to the thread of this user.                    *)

beforeThread == <<it, links, events, revents, b, elem, pollFailed, script, user, origin>>

\* Any call that fails throws, and main ends with what it caught.
ConnectSocket ==
    /\ pc = "listen"
    /\ pc' \in {"accept", "ended"}
    /\ UNCHANGED beforeThread

AcceptNewClientSock ==
    /\ pc = "accept"
    /\ pc' = "create"
    /\ UNCHANGED beforeThread

\* accept fails for this user or for a later one: the exception is thrown by value
\* and caught as a pointer, so it leaves startServer.  The arguments of the threads
\* go with it, read or not, and the process ends under their hands.
AcceptFails ==
    /\ pc \in {"accept", "start", "poll"}
    /\ pc' = "ended"
    /\ UNCHANGED beforeThread

\* The socket of a user whose thread could not be created is neither served nor closed.
CreateThread ==
    /\ pc = "create"
    /\ pc' \in {"start", "abandoned"}
    /\ UNCHANGED beforeThread

StartingMethodForThread ==
    /\ pc = "start"
    /\ pc' = "poll"
    /\ list' = <<"user">> /\ live' = {"user"} /\ bufLive' = TRUE
    /\ UNCHANGED <<pair, handling, it, events, revents, b, elem, pollFailed, script, user, origin>>

StartServer ==
    ConnectSocket \/ AcceptNewClientSock \/ AcceptFails \/ CreateThread \/ StartingMethodForThread

-----------------------------------------------------------------------------
(* The peers.                                                              *)

RequestLength == ReqHead + request.body
ResponseLength == RespHead + response.body

UserSends ==
    /\ "user" \in live /\ ~userClosed
    /\ userSent < RequestLength + Extra
    /\ userSent' = userSent + 1
    /\ UNCHANGED <<pc, it, links, events, revents, b, elem, pollFailed, script,
                   userRead, userClosed, toUser, origin>>

UserCloses ==
    /\ "user" \in live /\ ~userClosed
    /\ userClosed' = TRUE
    /\ UNCHANGED <<pc, it, links, events, revents, b, elem, pollFailed, script,
                   userSent, userRead, toUser, origin>>

\* An orderly origin waits for all of the request, another one for nothing.
OriginSends ==
    /\ "server" \in live /\ ~originClosed
    /\ originSent < ResponseLength
    /\ EarlyReply \/ Len(toOrigin) >= RequestLength
    /\ originSent' = originSent + 1
    /\ UNCHANGED <<pc, it, links, events, revents, b, elem, pollFailed, script,
                   originRead, originClosed, toOrigin, user>>

OriginCloses ==
    /\ "server" \in live /\ ~originClosed
    /\ originClosed' = TRUE
    /\ UNCHANGED <<pc, it, links, events, revents, b, elem, pollFailed, script,
                   originSent, originRead, toOrigin, user>>

Pending(c) == IF c = "user" THEN userSent - userRead ELSE originSent - originRead
Closed(c) == IF c = "user" THEN userClosed ELSE originClosed

-----------------------------------------------------------------------------
(* The loop.                                                               *)

\* A new connection takes the first write.
HasRoom(c, room) == c \in room \/ (c = "server" /\ toOrigin = <<>>)

\* What poll found for the clients of the list goes to their objects.
SaveResultPollSet(room) ==
    revents' = [c \in Clients |->
         {e \in events[c] :
             /\ c \in ToSet(list)
             /\ e = "rdhup" => Closed(c)
             /\ e = "in" => Pending(c) > 0 \/ Closed(c)
             /\ e = "out" => HasRoom(c, room)}]

\* setPollSetBeforePoll, poll, saveResultPollSet; a timeout finds no event.  The peers
\* in room have taken enough of what they were sent.
PollWith(room) ==
    /\ pc = "poll" /\ list # <<>>
    /\ SaveResultPollSet(room)
    /\ it' = 1
    /\ pc' = "event"
    /\ UNCHANGED <<links, events, b, elem, pollFailed, script, user, origin>>

Poll == \E room \in IF SlowPeers THEN SUBSET Clients ELSE {Clients} : PollWith(room)

\* poll returns -1: the loop is left, nothing is deleted.
PollError ==
    /\ pc = "poll" /\ list # <<>>
    /\ pc' = "exit"
    /\ pollFailed' = TRUE
    /\ UNCHANGED <<it, links, events, revents, b, elem, script, user, origin>>

\* The list is empty: the thread ends.
Finish ==
    /\ pc = "poll" /\ list = <<>>
    /\ pc' = "exit"
    /\ UNCHANGED <<it, links, events, revents, b, elem, pollFailed, script, user, origin>>

\* it++ at position i, in a list of n clients.
Advance(i, n) ==
    /\ it' = i + 1
    /\ pc' = IF i + 1 > n THEN "poll" ELSE "event"

\* After it = erase(it) the loop's it++ skips a client; from end() it goes on
\* to begin(), as in the circular std::list of libstdc++.
AdvanceErased(n) ==
    /\ it' = IF it > n THEN 1 ELSE it + 1
    /\ pc' = IF it' > n THEN "poll" ELSE "event"

-----------------------------------------------------------------------------
(* Deletion.                                                               *)

\* The server's list of those to tell holds at most the user.
AddClientToHandlingEvent == handling' = TRUE
EraseIt == handling' = FALSE

\* _clientList.erase, at the place of c.
Erase(s, c) == RemoveAt(s, CHOOSE i \in DOMAIN s : s[i] = c)

\* Mutant: the user keeps its pointer to the server.
DeleteServerPairMutant ==
    /\ list' = Erase(list, "server")
    /\ live' = live \ {"server"}
    /\ UNCHANGED pair
    /\ handling' = FALSE
    /\ events' = IF handling THEN [events EXCEPT !["user"] = AllEvents] ELSE events
    /\ elem' = IF b.addData THEN [elem EXCEPT !.connected = FALSE] ELSE elem
    /\ b' = [b EXCEPT !.statusServer = "END_WORK", !.serverConnect = FALSE]
    /\ bufLive' = (bufLive /\ b.clientConnect)

\* Mutant: the element is not told.
DeleteServerElementMutant ==
    /\ list' = Erase(list, "server")
    /\ live' = live \ {"server"}
    /\ pair' = (pair /\ ~handling)
    /\ handling' = FALSE
    /\ events' = IF handling THEN [events EXCEPT !["user"] = AllEvents] ELSE events
    /\ UNCHANGED elem
    /\ b' = [b EXCEPT !.statusServer = "END_WORK", !.serverConnect = FALSE]
    /\ bufLive' = (bufLive /\ b.clientConnect)

\* deleteClientServer, the client's place in the list included.
DeleteServer ==
    /\ list' = Erase(list, "server")
    /\ live' = live \ {"server"}
    /\ pair' = (pair /\ ~handling)
    /\ handling' = FALSE
    /\ events' = IF handling THEN [events EXCEPT !["user"] = AllEvents] ELSE events
    /\ elem' = IF b.addData THEN [elem EXCEPT !.connected = FALSE] ELSE elem
    /\ b' = [b EXCEPT !.statusServer = "END_WORK", !.serverConnect = FALSE]
    /\ bufLive' = (bufLive /\ b.clientConnect)

\* deleteClientUser takes the server along, unless it is filling the cache.
DeleteUser ==
    LET serverToo == pair /\ ~b.addData
        gone == IF serverToo THEN Clients ELSE {"user"}
    IN  /\ list' = Erase(IF serverToo THEN Erase(list, "server") ELSE list, "user")
        /\ live' = live \ gone
        /\ EraseIt
        /\ b' = [b EXCEPT !.statusClient = "END_WORK", !.clientConnect = FALSE,
                          !.statusServer = IF serverToo THEN "END_WORK" ELSE @,
                          !.serverConnect = @ /\ ~serverToo]
        /\ bufLive' = (bufLive /\ b'.serverConnect)
        /\ pair' = FALSE
        /\ UNCHANGED <<events, elem>>

\* deleteClient and continue.
Delete(c) ==
    /\ IF c = "user" THEN DeleteUser ELSE DeleteServer
    /\ AdvanceErased(Len(list'))
    /\ UNCHANGED <<pollFailed, script>>

-----------------------------------------------------------------------------
(* BufferImpl, as functions of its fields.                                 *)

\* The unit with which "\r\n\r\n" arrives: the last of a heading.
HeadingEnd(u) ==
    \/ u = <<"user", ReqHead>>
    \/ u = <<"user", RequestLength + ReqHead>>   \* a second request behind the first
    \/ u = <<"origin", RespHead>>
\* The unit with which "0\r\n\r\n" arrives, if the response has it at all.
BodyEnd(u) == response.marker /\ u = <<"origin", ResponseLength>>

Has(buf, Test(_)) == \E i \in DOMAIN buf : Test(buf[i])
PosEndHeading(buf) == CHOOSE i \in DOMAIN buf :
    HeadingEnd(buf[i]) /\ \A j \in 1..(i - 1) : ~HeadingEnd(buf[j])

\* findHostAndPort throws when the heading names no host.
HostFound == request.kind # "bad"
ParsingHeading == IF HostFound THEN request.kind ELSE "bad"

\* What a heading announces, that of an answer or one of the user's taken for it.
FindContentLength(sender) ==
    IF sender = "origin" THEN [known |-> response.known, length |-> response.body]
    ELSE [known |-> request.kind = "post", length |-> request.body]

\* parsingResponseHeading does not find "200 OK".
IsResponseWithError(sender) == sender # "origin" \/ ~response.ok

\* parsHead turns a heading it cannot parse into an answer for the user.
RejectHeading(x) ==
    [x EXCEPT !.buf = <<<<"error", 1>>>>, !.statusClient = "READ_RESPONSE",
              !.ready = TRUE, !.endSend = TRUE, !.error = TRUE]

WrightRequestHeading(x, hit) ==
    IF ~Has(x.buf, HeadingEnd) THEN x
    ELSE IF ParsingHeading = "bad" THEN RejectHeading(x)
    ELSE IF hit THEN [x EXCEPT !.getCash = TRUE, !.buf = <<>>, !.statusClient = "READ_RESPONSE"]
    ELSE IF ParsingHeading = "get"
      THEN [x EXCEPT !.readyConnect = TRUE, !.ready = TRUE, !.endSend = TRUE]
    ELSE LET left == FindContentLength("user").length - (Len(x.buf) - PosEndHeading(x.buf))
         IN  [x EXCEPT !.readyConnect = TRUE, !.ready = TRUE,
                       !.statusClient = "WRITE_REQUEST_BODY",
                       !.lengthBody = left, !.endSend = @ \/ left <= 0]

WrightRequestBody(x, n) ==
    [x EXCEPT !.ready = TRUE, !.lengthBody = @ - n, !.endSend = @ \/ x.lengthBody - n <= 0]

\* Only a 200 answer of known length to a GET is cached, and only if the cache
\* takes it (store).
Cached(x, store) ==
    LET sender == x.buf[PosEndHeading(x.buf)][1]
    IN  /\ store /\ request.kind = "get"
        /\ ~IsResponseWithError(sender) /\ FindContentLength(sender).known

WrightResponseHeading(x, store) ==
    IF ~Has(x.buf, HeadingEnd) THEN x
    ELSE LET pos == PosEndHeading(x.buf)
             announced == FindContentLength(x.buf[pos][1])
             known == announced.known
             left == announced.length - (Len(x.buf) - pos)
         IN  [x EXCEPT !.addData = @ \/ Cached(x, store), !.ready = TRUE,
                       !.statusServer = "WRITE_RESPONSE_BODY", !.haveLength = known,
                       !.lengthBody = IF known THEN left ELSE @,
                       !.endSend = \/ @
                                   \/ known /\ left <= 0
                                   \/ ~known /\ Has(x.buf, BodyEnd)]

WrightResponseBody(x, n) ==
    [x EXCEPT !.ready = TRUE,
              !.lengthBody = IF x.haveLength THEN @ - n ELSE @,
              !.endSend = \/ @
                          \/ x.haveLength /\ x.lengthBody - n <= 0
                          \/ ~x.haveLength /\ Has(x.buf, BodyEnd)]

\* Once the user is gone the body goes to the cache only.
Taken(x, chunk) ==
    [x EXCEPT !.buf = IF ~x.clientConnect /\ x.statusServer = "WRITE_RESPONSE_BODY"
                        THEN <<>> ELSE @ \o chunk]

ReadFromSocket(chunk, hit, store) ==
    LET x == Taken(b, chunk)
    IN  IF b.statusClient = "WRITE_REQUEST_HEADING" THEN WrightRequestHeading(x, hit)
        ELSE IF b.statusClient = "WRITE_REQUEST_BODY" THEN WrightRequestBody(x, Len(chunk))
        ELSE IF b.statusServer = "WRITE_RESPONSE_HEADING" THEN WrightResponseHeading(x, store)
        ELSE IF b.statusServer = "WRITE_RESPONSE_BODY" THEN WrightResponseBody(x, Len(chunk))
        ELSE x

\* Mutant: the body is appended with what is still in the buffer.
ElementAfterMutant(chunk) ==
    IF b.statusClient \in {"WRITE_REQUEST_HEADING", "WRITE_REQUEST_BODY"} \/ ~b'.addData THEN elem
    ELSE IF b.statusServer = "WRITE_RESPONSE_HEADING"
      THEN [content |-> b.buf \o chunk, connected |-> TRUE, ended |-> b'.lengthBody <= 0]
    ELSE IF b.statusServer = "WRITE_RESPONSE_BODY"
      THEN [elem EXCEPT !.content = @ \o b.buf \o chunk, !.ended = @ \/ b'.lengthBody <= 0]
    ELSE elem

\* What the same read does to the element: the heading makes it and brings what
\* came with it, the body is appended; the flags follow the buffer's countdown.
ElementAfter(chunk) ==
    IF b.statusClient \in {"WRITE_REQUEST_HEADING", "WRITE_REQUEST_BODY"} \/ ~b'.addData THEN elem
    ELSE IF b.statusServer = "WRITE_RESPONSE_HEADING"
      THEN [content |-> b.buf \o chunk, connected |-> TRUE, ended |-> b'.lengthBody <= 0]
    ELSE IF b.statusServer = "WRITE_RESPONSE_BODY"
      THEN [elem EXCEPT !.content = @ \o chunk, !.ended = @ \/ b'.lengthBody <= 0]
    ELSE elem

\* sendBuf takes at most BUF_SIZE - 1 bytes from the front, proofSend drops them.
Sent(x) == SubSeq(x.buf, 1, IF Len(x.buf) < BufMax THEN Len(x.buf) ELSE BufMax)

\* Mutant: the last unit sent stays in the buffer.
ProofSendMutant(x) ==
    LET rest == [x EXCEPT !.buf = SubSeq(@, Len(Sent(x)), Len(@))]
    IN  IF rest.buf # <<>> THEN rest
        ELSE IF ~x.endSend THEN [rest EXCEPT !.ready = FALSE]
        ELSE IF x.statusClient = "READ_RESPONSE" /\ x.error
          THEN [rest EXCEPT !.statusClient = "END_WORK", !.endSend = FALSE]
        ELSE IF x.statusServer = "READ_REQUEST"
          THEN [rest EXCEPT !.statusClient = "READ_RESPONSE",
                            !.statusServer = "WRITE_RESPONSE_HEADING",
                            !.endSend = FALSE, !.ready = FALSE]
        ELSE IF x.statusClient = "READ_RESPONSE"
          THEN [rest EXCEPT !.statusClient = "END_WORK", !.statusServer = "END_WORK",
                            !.ready = FALSE]
        ELSE [rest EXCEPT !.ready = FALSE]

ProofSend(x) ==
    LET rest == [x EXCEPT !.buf = SubSeq(@, Len(Sent(x)) + 1, Len(@))]
    IN  IF rest.buf # <<>> THEN rest
        ELSE IF ~x.endSend THEN [rest EXCEPT !.ready = FALSE]
        ELSE IF x.statusClient = "READ_RESPONSE" /\ x.error
          THEN [rest EXCEPT !.statusClient = "END_WORK", !.endSend = FALSE]
        ELSE IF x.statusServer = "READ_REQUEST"
          THEN [rest EXCEPT !.statusClient = "READ_RESPONSE",
                            !.statusServer = "WRITE_RESPONSE_HEADING",
                            !.endSend = FALSE, !.ready = FALSE]
        ELSE IF x.statusClient = "READ_RESPONSE"
          THEN [rest EXCEPT !.statusClient = "END_WORK", !.statusServer = "END_WORK",
                            !.ready = FALSE]
        ELSE [rest EXCEPT !.ready = FALSE]

-----------------------------------------------------------------------------
(* One iteration of handlingEvent for the client under the iterator.       *)

Current == list[it]

\* The peer hung up: the client goes, read data or not.
EventHangup ==
    /\ pc = "event"
    /\ "rdhup" \in revents[Current]
    /\ Delete(Current)
    /\ UNCHANGED <<revents, user, origin>>

EventNone ==
    /\ pc = "event"
    /\ revents[Current] \cap {"in", "rdhup"} = {}
    /\ pc' = "check"
    /\ UNCHANGED <<it, links, events, revents, b, elem, pollFailed, script, user, origin>>

\* Nothing is read after all: the peer reset the connection since the poll.
ReadError ==
    /\ pc = "event"
    /\ "in" \in revents[Current] /\ "rdhup" \notin revents[Current]
    /\ Closed(Current)
    /\ revents' = [revents EXCEPT ![Current] = {}]
    /\ Advance(it, Len(list))
    /\ UNCHANGED <<links, events, b, elem, pollFailed, script, user, origin>>

Chunk(c) ==
    LET read == IF c = "user" THEN userRead ELSE originRead
        n == IF Pending(c) < BufMax THEN Pending(c) ELSE BufMax
    IN  [i \in 1..n |-> <<IF c = "user" THEN "user" ELSE "origin", read + i>>]

\* The other side is polled for output now, if the heading was not rejected.
Rearm(c) ==
    IF b'.error /\ ~b.error THEN events
    ELSE IF c = "server" /\ handling THEN [events EXCEPT !["user"] = AllEvents]
    ELSE IF c = "user" /\ pair THEN [events EXCEPT !["server"] = AllEvents]
    ELSE events

\* A read from the origin while the request is not out finds the heading again: if
\* it is a hit now, the element's bytes go to whoever of the two has room first,
\* which is not followed here.
Read ==
    /\ pc = "event"
    /\ "in" \in revents[Current] /\ "rdhup" \notin revents[Current]
    /\ revents' = [revents EXCEPT ![Current] = {}]
    /\ \E hit, store \in BOOLEAN :
         /\ b' = ReadFromSocket(Chunk(Current), hit, store)
         /\ IF Current = "user" /\ b'.getCash
              THEN pc' = "fromCash" /\ events' = events
              ELSE /\ pc' = IF b'.getCash THEN "astray" ELSE "connect"
                   /\ events' = Rearm(Current)
    /\ elem' = ElementAfter(Chunk(Current))
    /\ IF Current = "user"
         THEN userRead' = userRead + Len(Chunk("user")) /\ UNCHANGED originRead
         ELSE originRead' = originRead + Len(Chunk("server")) /\ UNCHANGED userRead
    /\ UNCHANGED <<it, links, pollFailed, script, userSent, userClosed, toUser,
                   originSent, originClosed, toOrigin>>

NoConnect ==
    /\ pc = "connect" /\ ~b.readyConnect
    /\ pc' = "check"
    /\ UNCHANGED <<it, links, events, revents, b, elem, pollFailed, script, user, origin>>

\* connectToClient: a client that waits for every event, and a new stream.
ConnectToClient ==
    /\ events' = [events EXCEPT !["server"] = AllEvents]
    /\ revents' = [revents EXCEPT !["server"] = {}]
    /\ originSent' = 0 /\ originRead' = 0 /\ originClosed' = FALSE /\ toOrigin' = <<>>

\* connectToClient succeeds: the server goes to the front of the list.
Connect ==
    /\ pc = "connect" /\ b.readyConnect /\ "server" \notin ToSet(list)
    /\ b' = [b EXCEPT !.readyConnect = FALSE, !.serverConnect = TRUE]
    /\ list' = <<"server">> \o list
    /\ it' = it + 1
    /\ live' = live \cup {"server"}
    /\ pair' = TRUE
    /\ AddClientToHandlingEvent
    /\ ConnectToClient
    /\ pc' = "check"
    /\ UNCHANGED <<bufLive, elem, pollFailed, script, user>>

\* A second server for the same buffer.  The next poll writes behind _pollSet, unless
\* the user leaves before and takes the buffer from the second one: undefined.
ConnectSecond ==
    /\ pc = "connect" /\ b.readyConnect /\ "server" \in ToSet(list)
    /\ pc' = "astray"
    /\ UNCHANGED <<it, links, events, revents, b, elem, pollFailed, script, user, origin>>

\* It fails: the client whose data asked for it goes, and the thread with it.
ConnectFails ==
    /\ pc = "connect" /\ b.readyConnect
    /\ IF Current = "user" THEN DeleteUser ELSE DeleteServer
    /\ it' = 1
    /\ pc' = "exit"
    /\ UNCHANGED <<revents, pollFailed, script, user, origin>>

\* Mutant: the user goes with the server, data left or not.
WorkEndedMutant(c) ==
    IF c = "server"
      THEN \/ b.statusClient = "END_WORK" /\ ~b.addData
           \/ b.statusServer = "END_WORK"
           \/ b.statusClient = "END_WORK" /\ b.endSend
      ELSE \/ b.statusClient = "END_WORK"
           \/ b.statusServer = "END_WORK"

\* Which clients the END_WORK tests delete.
WorkEnded(c) ==
    IF c = "server"
      THEN \/ b.statusClient = "END_WORK" /\ ~b.addData
           \/ b.statusServer = "END_WORK"
           \/ b.statusClient = "END_WORK" /\ b.endSend
      ELSE \/ b.statusClient = "END_WORK"
           \/ b.statusServer = "END_WORK" /\ ~b.ready

CheckEnded ==
    /\ pc = "check" /\ WorkEnded(Current)
    /\ Delete(Current)
    /\ UNCHANGED <<revents, user, origin>>

CheckGoesOn ==
    /\ pc = "check" /\ ~WorkEnded(Current)
    /\ pc' = "send"
    /\ UNCHANGED <<it, links, events, revents, b, elem, pollFailed, script, user, origin>>

\* The buffer holds something for this client.
HasTurn(c) ==
    IF c = "server" THEN b.statusServer = "READ_REQUEST" ELSE b.statusClient = "READ_RESPONSE"

SendNothing ==
    /\ pc = "send"
    /\ "out" \notin revents[Current] \/ (b.ready /\ ~HasTurn(Current))
    /\ revents' = [revents EXCEPT ![Current] = IF "out" \in @ THEN {} ELSE @]
    /\ Advance(it, Len(list))
    /\ UNCHANGED <<links, events, b, elem, pollFailed, script, user, origin>>

\* Mutant: an idle client is not watched for a hang-up.
SendIdleMutant ==
    /\ pc = "send"
    /\ "out" \in revents[Current] /\ ~b.ready
    /\ revents' = [revents EXCEPT ![Current] = {}]
    /\ events' = [events EXCEPT ![Current] = {}]
    /\ Advance(it, Len(list))
    /\ UNCHANGED <<links, b, elem, pollFailed, script, user, origin>>

\* Nothing to send: the client is watched for a hang-up only.
SendIdle ==
    /\ pc = "send"
    /\ "out" \in revents[Current] /\ ~b.ready
    /\ revents' = [revents EXCEPT ![Current] = {}]
    /\ events' = [events EXCEPT ![Current] = {"rdhup"}]
    /\ Advance(it, Len(list))
    /\ UNCHANGED <<links, b, elem, pollFailed, script, user, origin>>

\* The request is out: the server is watched for the answer, the user for room.
RearmForResponse(c) ==
    IF c = "server" /\ b'.statusServer = "WRITE_RESPONSE_HEADING" /\ ~b'.ready
      THEN [events EXCEPT !["server"] = {"in", "rdhup"},
                          !["user"] = IF handling THEN AllEvents ELSE @]
      ELSE events

\* The handler is in a write, which lasts until the peer has taken what the socket
\* does not hold.
InWrite == pc = "send" /\ "out" \in revents[Current] /\ b.ready /\ HasTurn(Current)

SendSome ==
    /\ InWrite
    /\ revents' = [revents EXCEPT ![Current] = {}]
    /\ IF Current = "user"
         THEN /\ toUser' = IF userClosed THEN toUser ELSE toUser \o Sent(b)
              /\ UNCHANGED toOrigin
         ELSE /\ toOrigin' = IF originClosed THEN toOrigin ELSE toOrigin \o Sent(b)
              /\ UNCHANGED toUser
    /\ b' = ProofSend(b)
    /\ events' = RearmForResponse(Current)
    /\ IF Current = "user" /\ b'.statusServer = "END_WORK" /\ ~b'.ready
         THEN pc' = "sent" /\ UNCHANGED it
         ELSE Advance(it, Len(list))
    /\ UNCHANGED <<links, elem, pollFailed, script, userSent, userRead, userClosed,
                   originSent, originRead, originClosed>>

\* The whole response is out: the user goes at once.
SentAll ==
    /\ pc = "sent"
    /\ Delete("user")
    /\ UNCHANGED <<revents, user, origin>>

\* handlingEvent returned true: getFromCash serves the user, deleteClientUser and
\* the end of the thread follow.
FromCash ==
    /\ pc = "fromCash"
    /\ DeleteUser
    /\ pc' = "exit"
    /\ UNCHANGED <<it, revents, pollFailed, script, user, origin>>

-----------------------------------------------------------------------------
Iteration ==
    \/ EventHangup \/ EventNone \/ ReadError \/ Read
    \/ NoConnect \/ Connect \/ ConnectSecond \/ ConnectFails
    \/ CheckEnded \/ CheckGoesOn
    \/ SendNothing \/ SendIdle \/ SendSome \/ SentAll
Peers == UserSends \/ UserCloses \/ OriginSends \/ OriginCloses

Next == StartServer \/ Poll \/ Finish \/ Iteration \/ FromCash \/ PollError \/ Peers

Spec == Init /\ [][Next]_vars

\* The thread runs: poll returns at least every ten seconds, a connect ends, and what
\* lies between two calls takes no time.  A write may last for ever.  A slow user's
\* socket has room again and again.  Nothing else is assumed of the peers, nor of
\* getFromCash, which waits for another thread's origin.
Fairness ==
    /\ WF_vars((Poll \/ Finish \/ Iteration) /\ ~InWrite)
    /\ SF_vars(Poll /\ \E room \in SUBSET Clients : "user" \in room /\ PollWith(room))
FairSpec == Spec /\ Fairness

-----------------------------------------------------------------------------
(* Properties.                                                             *)

\* The origin said something before it was sent anything.
SpokeFirst == originSent > 0 /\ toOrigin = <<>>

\* No pointer dangles: listed clients, of which the two entries of _pollSet have
\* room for two, are allocated and share an allocated buffer, the links between
\* the two point to allocated clients.  And nothing leaks: a thread that ends by
\* itself has deleted its clients and its buffer.  Only an origin that speaks before
\* the request is written brings the thread to connect another server beside it, or
\* to end without its user.
ObjectsSound ==
    /\ ToSet(list) \subseteq live /\ Len(list) <= 2
    /\ live # {} => bufLive
    /\ pair /\ "user" \in live => "server" \in live
    /\ handling /\ "server" \in live => "user" \in live
    /\ pc = "exit" /\ ~pollFailed => (live = {} /\ ~bufLive) \/ SpokeFirst
    /\ pc = "astray" => SpokeFirst

\* The readers of the cache are told when the download stops: an element marked
\* connected has its server still in this thread's list, as long as the thread has not
\* gone astray (ObjectsSound).
ElementFollowsServer == elem.connected => "server" \in ToSet(list)

\* With a user that stops at its request and an origin that waits for all of it,
\* the origin receives the request and the user the response, each in order,
\* without gaps and without bytes of the other.
Streams == \* prefix of the units of one sender
    /\ toOrigin = [i \in 1..Len(toOrigin) |-> <<"user", i>>]
    /\ toUser # <<<<"error", 1>>>> => toUser = [i \in 1..Len(toUser) |-> <<"origin", i>>]

\* The element holds the response from its first unit, however the user fares,
\* and it is marked complete only with all that was declared.
CacheHoldsResponse ==
    /\ elem.content = [i \in 1..Len(elem.content) |-> <<"origin", i>>]
    /\ elem.ended => Len(elem.content) = ResponseLength

\* A user that hangs up is deleted, whatever state the exchange is in: unless it is
\* being served from the cache, where nobody looks, the process ends, or the thread
\* hangs in a write to a peer that takes nothing more.
HangupNoticed ==
    \/ userClosed ~> ("user" \notin live \/ pc \in {"fromCash", "ended"} \/ pollFailed)
    \/ <>[]InWrite

\* A complete response whose end can be told reaches the user to its last unit, and
\* then the thread ends: unless the user leaves, poll or an accept fails, the origin
\* hangs up before all of it was read, or a peer takes nothing more of a write.
ResponseDelivered ==
    \/ (originSent = ResponseLength /\ (response.known \/ response.marker))
        ~> \/ pc = "exit" /\ Len(toUser) = ResponseLength
           \/ userClosed \/ pollFailed \/ pc = "ended"
           \/ originClosed /\ originRead < ResponseLength
    \/ <>[]InWrite

\* "send error and disconnect": a user whose heading is rejected gets the answer
\* that parsHead prepares.
RejectedUserIsAnswered ==
    b.error ~> (toUser = <<<<"error", 1>>>> \/ userClosed \/ pollFailed \/ pc = "ended")
=============================================================================
