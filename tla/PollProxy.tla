----------------------------- MODULE PollProxy -----------------------------
(***************************************************************************)
(* The proxy of lab31/v2: one thread and one poll loop that serve every    *)
(* user, every origin server and the cache.                                *)
(*                                                                         *)
(* Connection <<u, 0>> is the one user u opened, <<u, k>> with k > 0 the   *)
(* k-th one opened to an origin for u; all of them share u's BufferImpl.   *)
(* What a peer does is chosen by the step that observes it: data and hang- *)
(* ups by poll, the size of a read by the read, a reset by the write.  A   *)
(* stream is a sequence of units <<sender, key or user, number>>.          *)
(***************************************************************************)
EXTENDS Integers, Sequences, SequencesExt, FiniteSets

CONSTANTS
    NumUsers,    \* users that ever connect
    Scripts,     \* what the peers of a user have to say, as pairs of a request
                 \* [key, kind, body, extra] and a response [ok, known, length, body, marker]
    ReqHead,     \* units of a request's heading
    RespHead,    \* units of a response's heading
    BufMax,      \* units that BUF_SIZE - 1 bytes stand for
    MaxPushy,    \* users that send more than their request
    MaxDials,    \* connections opened for one user; further ones fail
    MaxCashSize, \* MAX_CASH_SIZE in units
    LengthMod    \* _lengthBody, an unsigned long long, counts modulo this

ASSUME PollAssumption ==
    /\ NumUsers \in Nat /\ MaxDials \in Nat /\ MaxPushy \in Nat
    /\ ReqHead \in Nat \ {0} /\ RespHead \in Nat \ {0} /\ LengthMod \in Nat \ {0}
    /\ \A w \in Scripts : ReqHead + w[1].extra <= BufMax   \* one write takes a heading
                                                         \* and what came with it

Users == 1..NumUsers
Conns == Users \X (0..MaxDials)
NoUser == 0

VARIABLES
    process,   \* "up", "exit", "killed" by SIGPIPE, or "undefined" after a use after delete
    pc,        \* "socket", "configure", "poll", "handle" or "accept"
    list,      \* _clientList
    it,        \* position of the iterator in it
    update,    \* isNeedUpdatePollSet
    pollSet,   \* the connections in _pollSet[1..]
    revents,   \* _structPollFd.revents of each client
    knock,     \* POLLIN on the listening socket
    b,         \* each user's BufferImpl
    live,      \* users whose buffer is allocated and not deleted
    elem,      \* the element each user's response made, on the list or not
    cash,      \* _listCash, as the makers of its elements
    bytes,     \* _byteInCash
    request, response,   \* what the peers of each user have to say
    dials,     \* connections to origins opened for each user
    closed,    \* peers that hung up
    got,       \* units read from each connection
    out        \* units written to each connection

cache == <<elem, cash, bytes>>
script == <<request, response>>
peers == <<dials, closed, got, out>>
vars == <<process, pc, list, it, update, pollSet, revents, knock, b, live, cache, script, peers>>

NoEvent == [in |-> "none", out |-> FALSE]
NewBuffer ==
    [statusClient |-> "WRITE_REQUEST_HEADING", statusServer |-> "READ_REQUEST",
     heading |-> <<>>, buf |-> <<>>, clientConnect |-> TRUE, serverConnect |-> FALSE,
     ready |-> FALSE, endSend |-> FALSE, readyConnect |-> FALSE, lengthBody |-> 0,
     haveLength |-> FALSE, addData |-> FALSE, getCash |-> FALSE, readFromCash |-> 0,
     element |-> NoUser, error |-> FALSE]
NewElement(head) ==
    [head |-> head, content |-> <<>>, ended |-> FALSE, connected |-> FALSE, users |-> 0]
NoRequest == [key |-> "none", kind |-> "bad", body |-> 0, extra |-> 0]
ASSUME ScriptsAssumption == \A w \in Scripts : w[1] # NoRequest
NoResponse == [ok |-> FALSE, known |-> FALSE, length |-> 0, body |-> 0, marker |-> FALSE]

\* What a user sends behind the heading of a GET is extra; an announced length is
\* the int that atoi makes of the digits behind "Content-Length: ".
ASSUME LengthsAssumption ==
    /\ BufMax \in Nat
    /\ \A w \in Scripts :
        /\ w[1].kind = "get" => w[1].body = 0
        /\ w[2].body \in Nat /\ w[2].length \in 0..(LengthMod - 1)

Init ==
    /\ process = "up" /\ pc = "socket"
    /\ list = <<>> /\ it = 1 /\ update = FALSE /\ pollSet = <<>>
    /\ revents = [c \in Conns |-> NoEvent]
    /\ knock = FALSE
    /\ b = [u \in Users |-> NewBuffer]
    /\ live = {}
    /\ elem = [u \in Users |-> NewElement(<<>>)] /\ cash = <<>> /\ bytes = 0
    /\ request = [u \in Users |-> NoRequest] /\ response = [u \in Users |-> NoResponse]
    /\ dials = [u \in Users |-> 0]
    /\ closed = {}
    /\ got = [c \in Conns |-> 0]
    /\ out = [c \in Conns |-> <<>>]

Accepted == Cardinality({u \in Users : request[u] # NoRequest})

-----------------------------------------------------------------------------
(* The streams.                                                            *)

IsUser(c) == c[2] = 0
RequestLength(u) == ReqHead + request[u].body
ResponseLength(u) == RespHead + response[u].body

\* Restriction: an origin answers once it has the whole request.
Pending(c) ==
    LET u == c[1]
    IN  IF IsUser(c) THEN RequestLength(u) + request[u].extra - got[c]
        ELSE IF Len(out[c]) >= RequestLength(u) THEN ResponseLength(u) - got[c]
        ELSE 0

Chunk(c, n) ==
    [i \in 1..n |-> IF IsUser(c) THEN <<"user", request[c[1]].key, got[c] + i>>
                                 ELSE <<"origin", c[1], got[c] + i>>]

\* The unit with which "\r\n\r\n" arrives: the last of a heading.
HeadingEnd(u, unit) ==
    \/ unit[1] = "user" /\ unit[3] \in {ReqHead, RequestLength(u) + ReqHead}
    \/ unit[1] = "origin" /\ unit[3] = RespHead
\* The unit with which "0\r\n\r\n" arrives, if the response has it at all.
BodyEnd(u, unit) ==
    response[u].marker /\ unit[1] = "origin" /\ unit[3] = ResponseLength(u)

HasHeading(u, buf) == \E i \in DOMAIN buf : HeadingEnd(u, buf[i])
HasBodyEnd(u, buf) == \E i \in DOMAIN buf : BodyEnd(u, buf[i])
PosEndHeading(u, buf) ==
    CHOOSE i \in DOMAIN buf : HeadingEnd(u, buf[i]) /\ \A j \in 1..(i - 1) : ~HeadingEnd(u, buf[j])

-----------------------------------------------------------------------------
(* CashImpl.  A state of it is a record [elem, cash, bytes].               *)

Here == [elem |-> elem, cash |-> cash, bytes |-> bytes]

Stored(s, head) == {u \in ToSet(s.cash) : s.elem[u].head = head}

\* Its place on the list; CacheConsistent says that there is only one.
Place(s, head) == CHOOSE i \in DOMAIN s.cash : s.elem[s.cash[i]].head = head

\* findResponseInCash moves the element to the back, the hit is counted.
Hit(s, head) ==
    LET i == Place(s, head)
    IN  [s EXCEPT !.cash = Append(RemoveAt(@, i), s.cash[i]),
                  !.elem[s.cash[i]].users = @ + 1]

\* The sum is compared as an unsigned number: a negative one is large.
Full(n) == n < 0 \/ n >= MaxCashSize

\* One round of the eviction loop at position w.at, 0 being end(): erase
\* returns the next element and the loop's increment skips it; behind the last
\* one the increment of end() gives begin().
EvictStep(w, size) ==
    LET u == w.s.cash[w.at]
        rest == RemoveAt(w.s.cash, w.at)
        left == w.s.bytes - Len(w.s.elem[u].content) - Len(w.s.elem[u].head)
        next(i, n) == IF i > n THEN 0 ELSE i
    IN  IF w.at = 0 THEN w
        ELSE IF w.s.elem[u].users > 0 THEN [w EXCEPT !.at = next(@ + 1, Len(w.s.cash))]
        ELSE [s |-> [w.s EXCEPT !.cash = rest, !.bytes = left],
              at |-> IF ~Full(left + size) THEN 0
                     ELSE IF w.at > Len(rest) THEN next(1, Len(rest))
                     ELSE next(w.at + 1, Len(rest))]

\* Every round erases an element or moves on, and the walk wraps only after erasing.
Rounds(s) == Len(s.cash) * (Len(s.cash) + 1)
EvictWalk(s, size) ==
    LET walk[i \in 0..Rounds(s)] ==
          IF i = 0 THEN [s |-> s, at |-> IF s.cash = <<>> THEN 0 ELSE 1]
          ELSE EvictStep(walk[i - 1], size)
    IN  walk
Evict(s, size) == EvictWalk(s, size)[Rounds(s)].s

\* addStringToCash: the element of user u, unless there is no room for it.
AddStringToCash(s, u, head, length) ==
    LET size == length + Len(head)
        room == IF Full(s.bytes + size) THEN Evict(s, size) ELSE s
    IN  IF Full(room.bytes + size) THEN [s |-> room, added |-> FALSE]
        ELSE [s |-> [room EXCEPT !.bytes = @ + size, !.cash = Append(@, u),
                                 !.elem[u] = NewElement(head)],
              added |-> TRUE]

-----------------------------------------------------------------------------
(* BufferImpl: x is a buffer, s the cache.                                 *)

\* findHostAndPort throws when the heading names no host; that of an answer names none.
HostFound(u, heading) == heading[1][1] = "user" /\ request[u].kind # "bad"
ParsingHeading(u, heading) == IF HostFound(u, heading) THEN request[u].kind ELSE "bad"

\* What a heading announces, that of an answer or one of the user's taken for it.
FindContentLength(u, sender) ==
    IF sender = "origin" THEN [known |-> response[u].known, length |-> response[u].length]
    ELSE [known |-> request[u].kind = "post", length |-> request[u].body]

\* parsingResponseHeading does not find "200 OK".
IsResponseWithError(u, sender) == sender # "origin" \/ ~response[u].ok

\* parsHead turns a heading it cannot parse into an answer for the user.
RejectHeading(x) ==
    [x EXCEPT !.buf = <<<<"error", 0, 1>>>>, !.statusClient = "READ_RESPONSE",
              !.ready = TRUE, !.endSend = TRUE, !.error = TRUE]

WrightRequestHeading(x, s, u) ==
    LET pos == PosEndHeading(u, x.buf)
        heading == SubSeq(x.buf, 1, pos)
        y == [x EXCEPT !.heading = heading]
        left == (FindContentLength(u, "user").length - (Len(x.buf) - pos)) % LengthMod
    IN  IF ~HasHeading(u, x.buf) THEN [x |-> x, s |-> s]
        ELSE IF ParsingHeading(u, heading) = "bad" THEN [x |-> RejectHeading(y), s |-> s]
        ELSE IF Stored(s, heading) # {}
          THEN [x |-> [y EXCEPT !.getCash = TRUE, !.buf = <<>>, !.statusClient = "READ_RESPONSE",
                                !.element = s.cash[Place(s, heading)]],
                s |-> Hit(s, heading)]
        ELSE IF ParsingHeading(u, heading) = "get"
          THEN [x |-> [y EXCEPT !.readyConnect = TRUE, !.ready = TRUE, !.endSend = TRUE], s |-> s]
        ELSE [x |-> [y EXCEPT !.readyConnect = TRUE, !.ready = TRUE,
                              !.statusClient = "WRITE_REQUEST_BODY", !.lengthBody = left,
                              !.endSend = @ \/ left = 0],
              s |-> s]

WrightRequestBody(x, n) ==
    LET left == (x.lengthBody - n) % LengthMod
    IN  [x EXCEPT !.ready = TRUE, !.lengthBody = left, !.endSend = @ \/ left = 0]

\* Mutant: nobody looks whether the key is stored by now.
ToBeCashedMutant(x, s, u, pos) ==
    /\ ~IsResponseWithError(u, x.buf[pos][1]) /\ FindContentLength(u, x.buf[pos][1]).known
    /\ request[u].kind = "get"

\* A response of known length to a GET that did not fail, if nobody stored one
\* meanwhile.
ToBeCashed(x, s, u, pos) ==
    /\ ~IsResponseWithError(u, x.buf[pos][1]) /\ FindContentLength(u, x.buf[pos][1]).known
    /\ request[u].kind = "get"
    /\ Stored(s, x.heading) = {}

WrightResponseHeading(x, s, u) ==
    LET pos == PosEndHeading(u, x.buf)
        announced == FindContentLength(u, x.buf[pos][1])
        known == announced.known
        left == (announced.length - (Len(x.buf) - pos)) % LengthMod
        try == AddStringToCash(s, u, x.heading, announced.length + pos)
        add == ToBeCashed(x, s, u, pos) /\ try.added
        finished == IF known THEN left = 0 ELSE HasBodyEnd(u, x.buf)
    IN  IF ~HasHeading(u, x.buf) THEN [x |-> x, s |-> s]
        ELSE [x |-> [x EXCEPT !.addData = add, !.element = IF add THEN u ELSE @,
                              !.ready = TRUE, !.statusServer = "WRITE_RESPONSE_BODY",
                              !.haveLength = known, !.lengthBody = IF known THEN left ELSE @,
                              !.endSend = @ \/ finished],
              s |-> IF add THEN [try.s EXCEPT !.elem[u] = [@ EXCEPT !.content = x.buf,
                                              !.connected = TRUE, !.ended = finished]]
                    ELSE IF ToBeCashed(x, s, u, pos) THEN try.s ELSE s]

WrightResponseBody(x, s, u, chunk) ==
    LET left == (x.lengthBody - Len(chunk)) % LengthMod
        finished == IF x.haveLength THEN left = 0 ELSE HasBodyEnd(u, x.buf)
        e == x.element
        old == s.elem[e]
    IN  [x |-> [x EXCEPT !.ready = TRUE, !.lengthBody = IF x.haveLength THEN left ELSE @,
                         !.endSend = @ \/ finished],
         s |-> IF x.addData
                 THEN [s EXCEPT !.elem[e] = [old EXCEPT !.content = @ \o chunk,
                                                        !.ended = @ \/ finished]]
                 ELSE s]

\* readFromSocket: only the two statuses say whose data this is.
ReadFromSocket(u, chunk) ==
    LET x == [b[u] EXCEPT !.buf = @ \o chunk]
    IN  IF x.statusClient = "WRITE_REQUEST_HEADING" THEN WrightRequestHeading(x, Here, u)
        ELSE IF x.statusClient = "WRITE_REQUEST_BODY"
          THEN [x |-> WrightRequestBody(x, Len(chunk)), s |-> Here]
        ELSE IF x.statusServer = "WRITE_RESPONSE_HEADING" THEN WrightResponseHeading(x, Here, u)
        ELSE IF x.statusServer = "WRITE_RESPONSE_BODY"
          THEN WrightResponseBody(x, Here, u, chunk)
        ELSE [x |-> x, s |-> Here]

Least(m, n) == IF m < n THEN m ELSE n

Behind(x) == Len(elem[x.element].content) > x.readFromCash

\* The assignment in isReadyToSend is left out: _isReadyToSend is read here only.
IsReadyToSend(x) == x.ready \/ (x.getCash /\ Behind(x))

\* sendBuf: at most BUF_SIZE - 1 bytes, of the element or of the buffer.
SendBuf(x) ==
    IF x.getCash
      THEN LET c == elem[x.element].content
           IN  SubSeq(c, x.readFromCash + 1, Least(Len(c), x.readFromCash + BufMax))
      ELSE SubSeq(x.buf, 1, Least(Len(x.buf), BufMax))

\* proofSend for a buffer that is served from the cache.
ProofSendCash(x, n) ==
    LET e == elem[x.element]
    IN  [x EXCEPT !.readFromCash = @ + n,
                  !.ready = Len(e.content) # x.readFromCash + n,
                  !.endSend = @ \/ e.ended,
                  !.statusClient = IF e.ended THEN "END_WORK" ELSE @,
                  !.error = @ \/ (~e.ended /\ ~e.connected)]

ProofSend(x, n) ==
    LET rest == [x EXCEPT !.buf = SubSeq(@, n + 1, Len(@))]
        done == [rest EXCEPT !.ready = FALSE, !.endSend = FALSE]
    IN  IF x.getCash THEN ProofSendCash(x, n)
        ELSE IF rest.buf # <<>> THEN rest
        ELSE IF ~x.endSend THEN [rest EXCEPT !.ready = FALSE]
        ELSE IF x.statusClient = "READ_RESPONSE" /\ x.error
          THEN [rest EXCEPT !.statusClient = "END_WORK"]
        ELSE IF x.statusServer = "READ_REQUEST"
          THEN [done EXCEPT !.statusClient = "READ_RESPONSE",
                            !.statusServer = "WRITE_RESPONSE_HEADING"]
        ELSE IF x.statusClient = "READ_RESPONSE"
          THEN [done EXCEPT !.statusClient = "END_WORK", !.statusServer = "END_WORK"]
        ELSE done

-----------------------------------------------------------------------------
(* The loop.                                                               *)

Current == list[it]
Buf == Current[1]

\* The i-th client is given the events of the i-th entry of _pollSet.
SetPollElements(found) ==
    [c \in Conns |->
        LET at == {i \in DOMAIN list : list[i] = c /\ i \in DOMAIN pollSet}
        IN  IF at = {} THEN NoEvent ELSE found[pollSet[CHOOSE i \in at : TRUE]]]

\* A timeout finds no event and changes nothing.  POLLOUT beside POLLIN is
\* left out: the read resets both.
Poll ==
    /\ process = "up" /\ pc = "poll"
    /\ \E data \in SUBSET {c \in ToSet(list) \ closed : Pending(c) > 0},
          newcomer \in BOOLEAN :
       \E hangups \in SUBSET (ToSet(list) \ (closed \cup data)) :
       \E writable \in SUBSET {c \in ToSet(list) \ (closed \cup data \cup hangups) : IsUser(c)} :
         LET found == [c \in Conns |->
                 IF c \in data THEN [in |-> "data", out |-> FALSE]
                 ELSE IF c \in closed \cup hangups THEN [in |-> "eof", out |-> FALSE]
                 ELSE [in |-> "none", out |-> ~IsUser(c) \/ c \in writable]]
         IN  /\ newcomer => Accepted < NumUsers
             /\ newcomer \/ \E c \in ToSet(list) : found[c] # NoEvent
             /\ closed' = closed \cup hangups
             /\ knock' = newcomer
             /\ revents' = SetPollElements(found)
    /\ pc' = IF list = <<>> THEN "accept" ELSE "handle"
    /\ UNCHANGED <<process, list, it, update, pollSet, b, live, cache, script, dials, got, out>>

\* The iterator at position i of a list of n clients; end() ends the pass.
ItAt(i, n) ==
    /\ it' = IF i > n THEN 1 ELSE i
    /\ pc' = IF i > n THEN "accept" ELSE "handle"

NextClient(n) == ItAt(it + 1, n)

\* After it = erase(it) the loop's it++ skips a client; from end() it goes on
\* to begin(), as in the circular std::list of libstdc++.
NextAfterErase(n) == ItAt(IF it > n THEN 1 ELSE it + 1, n)

\* Mutant: the user's element goes on counting it.
ReleasedMutant(x, e) == IF ~IsUser(Current) /\ x.addData THEN [e EXCEPT ![x.element].connected = FALSE] ELSE e

\* The element in the cache, when the user it is sent to or the origin that fills it goes.
Released(x, e) ==
    IF IsUser(Current) /\ x.getCash THEN [e EXCEPT ![x.element].users = @ - 1]
    ELSE IF ~IsUser(Current) /\ x.addData THEN [e EXCEPT ![x.element].connected = FALSE]
    ELSE e

\* deleteClient, on top of what the read before it did to the buffer, the cache
\* and the stream.  What is deleted or closed for good has no state any more;
\* an origin's connection is remembered as long as the buffer lives.
DeleteClient(x, s, read) ==
    LET rest == RemoveAt(list, it)
        y == IF IsUser(Current) THEN [x EXCEPT !.statusClient = "END_WORK", !.clientConnect = FALSE]
             ELSE [x EXCEPT !.statusServer = "END_WORK", !.serverConnect = FALSE]
        last == ~y.serverConnect /\ ~y.clientConnect
        gone == {c \in Conns : c[1] = Buf /\ c \notin ToSet(rest) /\ (IsUser(c) \/ last)}
    IN  /\ list' = rest
        /\ update' = TRUE
        /\ revents' = [revents EXCEPT ![Current] = NoEvent]
        /\ NextAfterErase(Len(rest))
        /\ b' = [b EXCEPT ![Buf] = IF last THEN NewBuffer ELSE y]
        /\ live' = IF last THEN live \ {Buf} ELSE live
        /\ elem' = Released(x, s.elem)
        /\ cash' = s.cash /\ bytes' = s.bytes
        /\ got' = [c \in Conns |-> IF c \in gone THEN 0 ELSE read[c]]
        /\ out' = [c \in Conns |-> IF c \in gone THEN <<>> ELSE out[c]]
        /\ closed' = closed \ gone

\* Every branch looks into the client's buffer.
Handling == process = "up" /\ pc = "handle"
Alive == Handling /\ Buf \in live

Dangling ==
    /\ Handling /\ Buf \notin live
    /\ process' = "undefined"
    /\ UNCHANGED <<pc, list, it, update, pollSet, revents, knock, b, live, cache, script, peers>>

\* POLLIN and nothing to read.
HangUp ==
    /\ Alive /\ revents[Current].in = "eof"
    /\ DeleteClient(b[Buf], Here, got)
    /\ UNCHANGED <<process, pollSet, knock, script, dials>>

\* The read brings n units.
Reads(n) ==
    /\ Alive /\ revents[Current].in = "data"
    /\ n <= Pending(Current)

Taken(n) == [got EXCEPT ![Current] = @ + n]
Result(n) == ReadFromSocket(Buf, Chunk(Current, n))

\* The data goes to the buffer and nothing is to be connected.
Read ==
    /\ Handling
    /\ \E n \in 1..BufMax :
         /\ Reads(n)
         /\ ~Result(n).x.readyConnect
         /\ got' = Taken(n)
         /\ b' = [b EXCEPT ![Buf] = Result(n).x]
         /\ elem' = Result(n).s.elem /\ cash' = Result(n).s.cash /\ bytes' = Result(n).s.bytes
    /\ revents' = [revents EXCEPT ![Current] = NoEvent]
    /\ NextClient(Len(list))
    /\ UNCHANGED <<process, list, update, pollSet, knock, live, script, dials, closed, out>>

\* Mutant: the buffer is not told of its server.
DialledMutant(x) == [x EXCEPT !.readyConnect = FALSE]

Dialled(x) == [x EXCEPT !.readyConnect = FALSE, !.serverConnect = TRUE]

\* connectToClient makes the next connection for this user.
ConnectToClient == <<Buf, dials[Buf] + 1>>

\* A heading is complete: the new client is pushed behind the others, where this
\* pass still comes to it.
Connect ==
    /\ Handling /\ dials[Buf] < MaxDials
    /\ \E n \in 1..BufMax :
         /\ Reads(n)
         /\ Result(n).x.readyConnect
         /\ got' = Taken(n)
         /\ b' = [b EXCEPT ![Buf] = Dialled(Result(n).x)]
         /\ elem' = Result(n).s.elem /\ cash' = Result(n).s.cash /\ bytes' = Result(n).s.bytes
    /\ dials' = [dials EXCEPT ![Buf] = @ + 1]
    /\ list' = Append(list, ConnectToClient)
    /\ update' = TRUE
    /\ revents' = [revents EXCEPT ![Current] = NoEvent]
    /\ NextClient(Len(list) + 1)
    /\ UNCHANGED <<process, pollSet, knock, live, script, closed, out>>

\* connectToClient throws: the client whose data it was is deleted.
ConnectFails ==
    /\ Handling
    /\ \E n \in 1..BufMax :
         /\ Reads(n)
         /\ Result(n).x.readyConnect
         /\ DeleteClient([Result(n).x EXCEPT !.readyConnect = FALSE], Result(n).s, Taken(n))
    /\ UNCHANGED <<process, pollSet, knock, script, dials>>

\* Mutant: the server's end is the user's, whatever is left to send.
AtEndMutant(c, x) ==
    \/ IsUser(c) /\ x.statusClient = "END_WORK"
    \/ ~IsUser(c) /\ x.statusServer = "END_WORK"
    \/ IsUser(c) /\ x.statusServer = "END_WORK"
    \/ ~IsUser(c) /\ x.statusClient = "END_WORK" /\ x.endSend

\* The four END_WORK tests.
AtEnd(c, x) ==
    \/ IsUser(c) /\ x.statusClient = "END_WORK"
    \/ ~IsUser(c) /\ x.statusServer = "END_WORK"
    \/ IsUser(c) /\ x.statusServer = "END_WORK" /\ ~IsReadyToSend(x)
    \/ ~IsUser(c) /\ x.statusClient = "END_WORK" /\ x.endSend

Collect ==
    /\ Alive /\ revents[Current].in = "none"
    /\ AtEnd(Current, b[Buf])
    /\ DeleteClient(b[Buf], Here, got)
    /\ UNCHANGED <<process, pollSet, knock, script, dials>>

\* Something to send, and in this direction.
MaySend(c, x) ==
    /\ IsReadyToSend(x)
    /\ IF IsUser(c) THEN x.statusClient = "READ_RESPONSE" ELSE x.statusServer = "READ_REQUEST"

Sends ==
    /\ Alive /\ revents[Current] = [in |-> "none", out |-> TRUE]
    /\ ~AtEnd(Current, b[Buf]) /\ MaySend(Current, b[Buf])

Send ==
    /\ Sends
    /\ LET data == SendBuf(b[Buf])
       IN  /\ out' = [out EXCEPT ![Current] = @ \o data]
           /\ b' = [b EXCEPT ![Buf] = ProofSend(@, Len(data))]
    /\ revents' = [revents EXCEPT ![Current] = NoEvent]
    /\ NextClient(Len(list))
    /\ UNCHANGED <<process, list, update, pollSet, knock, live, cache, script, dials, closed, got>>

\* The peer reset the connection since the poll: SIGPIPE is not caught.
SendKilled ==
    /\ Sends
    /\ process' = "killed"
    /\ UNCHANGED <<pc, list, it, update, pollSet, revents, knock, b, live, cache, script, peers>>

Idle ==
    /\ Alive /\ revents[Current].in = "none"
    /\ ~AtEnd(Current, b[Buf])
    /\ revents[Current].out => ~MaySend(Current, b[Buf])
    /\ revents' = [revents EXCEPT ![Current] = NoEvent]
    /\ NextClient(Len(list))
    /\ UNCHANGED <<process, list, update, pollSet, knock, b, live, cache, script, peers>>

-----------------------------------------------------------------------------
(* The end of a pass.                                                      *)

Configured == IF update THEN list ELSE pollSet

\* configurePollArr, if the pass changed the list: then the events are gone, and whoever
\* knocked is accepted in a later pass.
PassEnds ==
    /\ process = "up" /\ pc = "accept" /\ (update \/ ~knock)
    /\ pc' = "poll"
    /\ pollSet' = Configured
    /\ update' = FALSE /\ knock' = FALSE
    /\ UNCHANGED <<process, list, it, revents, b, live, cache, script, peers>>

\* acceptNewClient makes a client and its buffer, and configures _pollSet again.
Accept ==
    /\ process = "up" /\ pc = "accept" /\ knock /\ ~update
    /\ LET u == Accepted + 1
       IN  /\ \E w \in Scripts :
                /\ w[1].extra > 0 => Cardinality({v \in Users : request[v].extra > 0}) < MaxPushy
                /\ request' = [request EXCEPT ![u] = w[1]]
                /\ response' = [response EXCEPT ![u] = w[2]]
           /\ list' = Append(list, <<u, 0>>)
           /\ live' = live \cup {u}
    /\ pollSet' = list'
    /\ knock' = FALSE /\ update' = FALSE
    /\ pc' = "poll"
    /\ UNCHANGED <<process, it, revents, b, cache, peers>>

\* acceptNewClient throws an object and a pointer is caught: main ends.
AcceptFails ==
    /\ process = "up" /\ pc = "accept" /\ knock /\ ~update
    /\ process' = "exit"
    /\ UNCHANGED <<pc, list, it, update, pollSet, revents, knock, b, live, cache, script, peers>>

\* connectSocket: the listening socket is there, or the exception ends main.
ConnectSocket ==
    /\ process = "up" /\ pc = "socket"
    /\ \/ pc' = "configure" /\ UNCHANGED process
       \/ process' = "exit" /\ UNCHANGED pc
    /\ UNCHANGED <<list, it, update, pollSet, revents, knock, b, live, cache, script, peers>>

\* configurePollArr before the first poll.
ConfigureFirst ==
    /\ process = "up" /\ pc = "configure"
    /\ pollSet' = list
    /\ pc' = "poll"
    /\ UNCHANGED <<process, list, it, update, revents, knock, b, live, cache, script, peers>>

Start == ConnectSocket \/ ConfigureFirst
Handle == Dangling \/ HangUp \/ Read \/ Connect \/ ConnectFails \/ Collect \/ Send \/ SendKilled \/ Idle
EndOfPass == PassEnds \/ Accept \/ AcceptFails
Next == Start \/ Poll \/ Handle \/ EndOfPass

Spec == Init /\ [][Next]_vars

-----------------------------------------------------------------------------
(* Properties.                                                             *)

Listed(u) == {c \in ToSet(list) : c[1] = u}

\* The buffer of a user is deleted with the last of its two clients, once, and
\* none of the two is left with a deleted buffer - unless data came behind a
\* heading that was still to be sent: that is taken for the heading again and
\* a second origin is connected, which no flag of the buffer accounts for
\* (deleteClient, handlingEvent).
BufferLifetime ==
    \A u \in Users :
        /\ dials[u] < 2 => (u \in live <=> Listed(u) # {})
        /\ u \in live => Listed(u) # {}

\* The users an element counts are the clients on the list that are served from
\* it: none is lost when a client goes, by whatever way, so that the eviction
\* neither takes an element in use nor keeps one for ever (addCountUsers,
\* minusCountUsers).
UsersCounted ==
    \A e \in Users :
        elem[e].users = Cardinality({c \in ToSet(list) :
            IsUser(c) /\ b[c[1]].getCash /\ b[c[1]].element = e})

\* What the origin of u sent, to its n-th unit.
FromOrigin(u, n) == [i \in 1..n |-> <<"origin", u, i>>]
Orderly(u) == request[u].extra = 0

\* The answer ends where the code sees its end: the announced length or the marker.
IsWhole(u, n) ==
    IF response[u].known THEN n >= RespHead + response[u].length
    ELSE response[u].marker /\ n = ResponseLength(u)

\* No key is stored twice, for nothing comes between the look-up and the
\* insertion of wrightResponseHeading; and what is stored is what an origin that
\* answers after the request sent, all of it once it is marked complete.
CacheConsistent ==
    /\ \A i, j \in DOMAIN cash : elem[cash[i]].head = elem[cash[j]].head => i = j
    /\ \A e \in ToSet(cash) :
         Orderly(e) =>
            /\ elem[e].content = FromOrigin(e, Len(elem[e].content))
            /\ elem[e].ended => IsWhole(e, Len(elem[e].content))

\* When the proxy closes the connection of a user that sent one request and has not
\* hung up, the user has its answer, from an origin that answers after the request: the
\* rejection of its heading; nothing, if no origin could be connected; all the proxy
\* read, if the origin hung up; the whole response; or what the cache has (not what an
\* origin adds to what it announced), though of a complete element only the first
\* BUF_SIZE - 1 bytes that are left (proofSend ends the work with the send that finds
\* the element complete).
Answered(u) ==
    LET c == <<u, 0>>
        n == Len(out[c])
        x == b[u]
    IN  \/ request[u].kind = "bad" /\ x.error /\ n = 1
        \/ n = 0 /\ dials[u] = 0
        \/ /\ out[c] = FromOrigin(u, n)
           /\ \/ IsWhole(u, n)
              \/ <<u, 1>> \in closed /\ (n = got[<<u, 1>>] \/ got[<<u, 1>>] < RespHead)
        \/ /\ x.getCash /\ elem[x.element].ended
           /\ out[c] = SubSeq(elem[x.element].content, 1, n)
           /\ n = Len(elem[x.element].content) \/ IsWhole(x.element, n) \/ n >= BufMax

Delivered ==
    [][\A u \in Users :
         (/\ <<u, 0>> \in ToSet(list) \ ToSet(list')
          /\ <<u, 0>> \notin closed /\ Orderly(u))
         => Answered(u)]_vars
=============================================================================
