----------------------- MODULE HandlerOneClientProofs -----------------------
(***************************************************************************)
(* Safety of one handler thread, for every request, response and size of   *)
(* the buffer, and for peers that send too early, too much, or hang up.    *)
(*                                                                         *)
(* The difficulty is in what keeps a second server out of the list.  A GET *)
(* leaves the buffer in WRITE_REQUEST_HEADING when its server is connected *)
(* and until the request is written, so any read before that finds the     *)
(* heading again and connects again.  FirstTurn says who can be read in    *)
(* between: the server is in front of the user in the list, poll finds it  *)
(* writable and one write takes the whole request, so it is nobody but an  *)
(* origin that speaks before it is asked, and, when the read from such an  *)
(* origin fails and takes its turn to write away, the user behind it.      *)
(*                                                                         *)
(* The last part is about the data.  One buffer carries the request one    *)
(* way and the response the other; StreamInv says whose units it holds and *)
(* that they are the ones between what was passed on and what was read.    *)
(***************************************************************************)
EXTENDS HandlerOneClient, CommonLemmas

\* The types, as far as the operators on the buffer need them.

Units == {"user", "origin", "error"} \X Nat

BufferFields ==
    [statusClient : {"WRITE_REQUEST_HEADING", "WRITE_REQUEST_BODY", "READ_RESPONSE", "END_WORK"},
     statusServer : {"READ_REQUEST", "WRITE_RESPONSE_HEADING", "WRITE_RESPONSE_BODY", "END_WORK"},
     buf : Seq(Units), clientConnect : BOOLEAN, serverConnect : BOOLEAN, ready : BOOLEAN,
     endSend : BOOLEAN, readyConnect : BOOLEAN, lengthBody : Int, haveLength : BOOLEAN,
     addData : BOOLEAN, getCash : BOOLEAN, error : BOOLEAN]

Elements == [content : Seq(Units), connected : BOOLEAN, ended : BOOLEAN]

TypeOK ==
    /\ pc \in {"listen", "accept", "create", "start", "abandoned", "ended", "poll", "event",
               "connect", "check", "send", "sent", "fromCash", "exit", "astray"}
    /\ it \in Nat
    /\ events \in [Clients -> SUBSET AllEvents]
    /\ revents \in [Clients -> SUBSET AllEvents]
    /\ b \in BufferFields
    /\ elem \in Elements
    /\ pollFailed \in BOOLEAN
    /\ request \in Requests /\ response \in Responses
    /\ userSent \in Nat /\ userRead \in Nat /\ userClosed \in BOOLEAN /\ toUser \in Seq(Units)
    /\ originSent \in Nat /\ originRead \in Nat /\ originClosed \in BOOLEAN
    /\ toOrigin \in Seq(Units)

Lists == {<<>>, <<"user">>, <<"server">>, <<"server", "user">>}
UserListed == list \in {<<"user">>, <<"server", "user">>}
ServerListed == list \in {<<"server">>, <<"server", "user">>}
BeforeThread == pc \in {"listen", "accept", "create", "start", "abandoned"}
Iterating == pc \in {"event", "connect", "check", "send", "sent", "fromCash"}

\* The list holds each client at most once, the server in front, and the iterator
\* points into it.
ListSound ==
    /\ list \in Lists
    /\ BeforeThread => list = <<>>
    /\ Iterating => it \in DOMAIN list
    /\ pc = "sent" => list[it] = "user"
    /\ pc = "fromCash" => list[it] = "user" /\ (list = <<"user">> \/ SpokeFirst)
    /\ pc = "exit" => pollFailed \/ list = <<>> \/ SpokeFirst
    /\ pc = "astray" => SpokeFirst

\* What the list says of the objects, of their links and of the flags of the buffer.
LinksSound ==
    /\ live = ToSet(list)
    /\ bufLive <=> list # <<>>
    /\ pair <=> list = <<"server", "user">>
    /\ handling <=> list = <<"server", "user">>
    /\ list # <<>> => (b.clientConnect <=> UserListed) /\ (b.serverConnect <=> ServerListed)
    /\ BeforeThread => b = NewBuffer

\* The heading of the request is not known to be whole and sent.
Asking == b.statusClient = "WRITE_REQUEST_HEADING"

\* The heading is whole in the buffer.
HeadingIn(s) == \E i \in DOMAIN s : HeadingEnd(s[i])
HeadingRead == HeadingIn(b.buf)

\* What the origin said is in the buffer with the request, which nobody will send now.
Mixed == SpokeFirst /\ (pc \in {"exit", "astray"} \/ (pc = "connect" /\ ServerListed))

\* Which statuses and flags of the buffer occur together, and with which clients.
StatusSound ==
    /\ Asking => /\ Len(b.buf) <= userRead \/ Mixed
                 /\ ~b.error /\ b.statusServer \in {"READ_REQUEST", "END_WORK"}
    /\ b.readyConnect /\ pc \notin {"exit", "astray"} =>
         /\ pc = "connect" /\ request.kind # "bad"
         /\ list = <<"user">> \/ (ServerListed /\ SpokeFirst)
         /\ Asking => (request.kind = "get" /\ b.ready /\ b.endSend /\ HeadingRead)
    /\ b.getCash => pc \in {"fromCash", "exit", "astray"}
    /\ b.error => request.kind = "bad"
    /\ request.kind = "bad" => ~ServerListed
    /\ b.statusServer \in {"WRITE_RESPONSE_HEADING", "WRITE_RESPONSE_BODY"} => ServerListed
    /\ b.statusClient = "READ_RESPONSE" /\ b.statusServer = "READ_REQUEST" => b.error \/ b.getCash
    /\ userRead <= userSent /\ userSent <= RequestLength + Extra /\ originRead <= originSent

\* From the connection of a GET's server to the write of the request nothing is read
\* of an origin that has said nothing, nor of the user behind it; what is read of
\* another one asks for a connection.
FirstTurn ==
    Asking /\ ServerListed =>
        /\ request.kind = "get" /\ b.ready /\ b.endSend /\ HeadingRead
        /\ toOrigin = <<>>
        /\ events["server"] = AllEvents
        /\ pc \in {"poll", "event", "connect", "check", "send", "exit", "ended", "astray"}
        /\ pc = "connect" => originSent > 0 /\ b.readyConnect
        /\ pc = "event" /\ originSent = 0 =>
              it = 1 /\ ("in" \in revents["server"] => "rdhup" \in revents["server"])
        /\ pc \in {"event", "check", "send"} /\ it = 1 => "out" \in revents["server"]
        /\ pc = "send" /\ it = 1 => b.statusServer = "READ_REQUEST"

\* A connected element is the one this buffer fills.
ElementSound == elem.connected => b.addData /\ ServerListed

IInv == TypeOK /\ ListSound /\ LinksSound /\ StatusSound /\ FirstTurn /\ ElementSound

-----------------------------------------------------------------------------
(* Erasing from the list.                                                  *)

\* The four erasures that happen.
LEMMA EraseFacts ==
    /\ Erase(<<"user">>, "user") = <<>>
    /\ Erase(<<"server">>, "server") = <<>>
    /\ Erase(<<"server", "user">>, "server") = <<"user">>
    /\ Erase(<<"server", "user">>, "user") = <<"server">>
<1>1. /\ (CHOOSE i \in DOMAIN <<"user">> : <<"user">>[i] = "user") = 1
      /\ (CHOOSE i \in DOMAIN <<"server">> : <<"server">>[i] = "server") = 1
      /\ (CHOOSE i \in DOMAIN <<"server", "user">> : <<"server", "user">>[i] = "server") = 1
      /\ (CHOOSE i \in DOMAIN <<"server", "user">> : <<"server", "user">>[i] = "user") = 2
  OBVIOUS
<1> DEFINE S == {"user", "server"}
           l == <<"server", "user">>
<1>2. <<"user">> \in Seq(S) /\ <<"server">> \in Seq(S) /\ l \in Seq(S)
  OBVIOUS
<1>3. /\ Len(l) = 2 /\ l[1] = "server" /\ l[2] = "user"
      /\ Len(<<"user">>) = 1 /\ Len(<<"server">>) = 1
  OBVIOUS
<1> HIDE DEF S, l
<1>r. \A s \in Seq(S) : \A i \in 1..Len(s) :
        /\ RemoveAt(s, i) \in Seq(S) /\ Len(RemoveAt(s, i)) = Len(s) - 1
        /\ \A n \in 1..(Len(s) - 1) : RemoveAt(s, i)[n] = IF n < i THEN s[n] ELSE s[n + 1]
  BY RemoveAtFacts, Zenon
<1>4. RemoveAt(<<"user">>, 1) = <<>>
  <2>1. 1 \in 1..Len(<<"user">>)  BY <1>3
  <2>2. /\ RemoveAt(<<"user">>, 1) \in Seq(S) /\ Len(RemoveAt(<<"user">>, 1)) = Len(<<"user">>) - 1
    BY <1>2, <1>r, <2>1, Zenon
  <2> QED  BY <1>3, <2>2, EmptySeq
<1>7. RemoveAt(<<"server">>, 1) = <<>>
  <2>1. 1 \in 1..Len(<<"server">>)  BY <1>3
  <2>2. /\ RemoveAt(<<"server">>, 1) \in Seq(S)
        /\ Len(RemoveAt(<<"server">>, 1)) = Len(<<"server">>) - 1
    BY <1>2, <1>r, <2>1, Zenon
  <2> QED  BY <1>3, <2>2, EmptySeq
<1>5. RemoveAt(l, 1) = <<"user">>
  <2>1. 1 \in 1..Len(l)  BY <1>3
  <2>2. /\ RemoveAt(l, 1) \in Seq(S) /\ Len(RemoveAt(l, 1)) = Len(l) - 1
        /\ \A n \in 1..(Len(l) - 1) : RemoveAt(l, 1)[n] = IF n < 1 THEN l[n] ELSE l[n + 1]
    BY <1>2, <1>r, <2>1, Zenon
  <2> QED  BY <1>3, <2>2
<1>6. RemoveAt(l, 2) = <<"server">>
  <2>1. 2 \in 1..Len(l)  BY <1>3
  <2>2. /\ RemoveAt(l, 2) \in Seq(S) /\ Len(RemoveAt(l, 2)) = Len(l) - 1
        /\ \A n \in 1..(Len(l) - 1) : RemoveAt(l, 2)[n] = IF n < 2 THEN l[n] ELSE l[n + 1]
    BY <1>2, <1>r, <2>1, Zenon
  <2> QED  BY <1>3, <2>2
<1> QED  BY <1>1, <1>4, <1>5, <1>6, <1>7 DEF Erase, l

-----------------------------------------------------------------------------
(* The operations on the buffer.                                            *)

\* findEndHeading, where it finds one, gives a position of the buffer.
LEMMA PosEndHeadingIn ==
    ASSUME NEW s \in Seq(Units), Has(s, HeadingEnd)
    PROVE  PosEndHeading(s) \in DOMAIN s
<1> DEFINE S == {i \in DOMAIN s : HeadingEnd(s[i])}
<1>1. S \in SUBSET (0..Len(s)) /\ S # {} /\ Len(s) \in Nat
  BY DEF Has
<1>2. PICK i \in S : \A j \in S : i <= j
  <2> HIDE DEF S
  <2> QED  BY <1>1, LeastMember
<1>3. i \in DOMAIN s /\ HeadingEnd(s[i]) /\ \A j \in 1..(i - 1) : ~HeadingEnd(s[j])
  BY <1>2
<1> QED  BY <1>3 DEF PosEndHeading

\* What the peers say has the types of MessageAssumption.
LEMMA RequestTypes ==
    ASSUME request \in Requests, response \in Responses
    PROVE  /\ request.kind \in {"get", "post", "bad"} /\ request.body \in Nat
           /\ request.kind = "get" => request.body = 0
           /\ response.ok \in BOOLEAN /\ response.known \in BOOLEAN /\ response.body \in Nat
  BY MessageAssumption

\* So has what their headings announce.
LEMMA AnnouncedTypes ==
    ASSUME request \in Requests, response \in Responses, NEW sender
    PROVE  /\ FindContentLength(sender).known \in BOOLEAN
           /\ FindContentLength(sender).length \in Int
<1>1. CASE sender = "origin"
  <2>1. FindContentLength(sender) = [known |-> response.known, length |-> response.body]
    BY <1>1 DEF FindContentLength
  <2> QED  BY <2>1, RequestTypes
<1>2. CASE sender # "origin"
  <2>1. FindContentLength(sender) = [known |-> request.kind = "post", length |-> request.body]
    BY <1>2 DEF FindContentLength
  <2> QED  BY <2>1, RequestTypes
<1> QED  BY <1>1, <1>2

\* parsHead touches the answer, not the connections.
LEMMA RejectHeadingFacts ==
    ASSUME NEW x \in BufferFields
    PROVE  LET r == RejectHeading(x)
           IN  /\ r \in BufferFields
               /\ r.clientConnect = x.clientConnect /\ r.serverConnect = x.serverConnect
               /\ r.statusServer = x.statusServer /\ r.addData = x.addData
               /\ r.readyConnect = x.readyConnect /\ r.getCash = x.getCash
               /\ r.statusClient = "READ_RESPONSE" /\ r.error
<1>1. <<<<"error", 1>>>> \in Seq(Units)
  <2>1. <<"error", 1>> \in Units  BY DEF Units
  <2> QED  BY <2>1
<1> QED  BY <1>1 DEF RejectHeading, BufferFields

\* Only wrightRequestHeading asks for a connection or for the cache, never for both.
LEMMA WrightRequestHeadingFacts ==
    ASSUME NEW x \in BufferFields, request \in Requests, response \in Responses,
           NEW hit \in BOOLEAN
    PROVE  LET r == WrightRequestHeading(x, hit)
           IN  /\ r \in BufferFields
               /\ r.clientConnect = x.clientConnect /\ r.serverConnect = x.serverConnect
               /\ r.statusServer = x.statusServer /\ r.addData = x.addData
               /\ r.statusClient = "WRITE_REQUEST_HEADING" => r.buf = x.buf /\ r.error = x.error
               /\ r.readyConnect => x.readyConnect \/
                    (/\ request.kind # "bad"
                     /\ r.statusClient = "WRITE_REQUEST_HEADING" =>
                          request.kind = "get" /\ r.ready /\ r.endSend /\ HeadingIn(r.buf))
               /\ HeadingIn(x.buf) /\ request.kind = "get" =>
                    r.readyConnect \/ r.statusClient = "READ_RESPONSE"
               /\ r.getCash => x.getCash \/
                    (r.statusClient = "READ_RESPONSE" /\ r.readyConnect = x.readyConnect)
               /\ r.error => x.error \/ request.kind = "bad"
               /\ r.statusClient = "READ_RESPONSE" =>
                    x.statusClient = "READ_RESPONSE" \/ r.error \/ r.getCash
<1> DEFINE r == WrightRequestHeading(x, hit)
<1>h. Has(x.buf, HeadingEnd) <=> HeadingIn(x.buf)
  BY DEF Has, HeadingIn
<1>1. CASE ~Has(x.buf, HeadingEnd)
  <2>1. r = x  BY <1>1 DEF WrightRequestHeading
  <2>2. r \in BufferFields /\ ~HeadingIn(x.buf)  BY <1>1, <1>h, <2>1
  <2> QED  BY <2>1, <2>2
<1>2. CASE Has(x.buf, HeadingEnd) /\ ParsingHeading = "bad"
  <2>1. r = RejectHeading(x)  BY <1>2 DEF WrightRequestHeading
  <2>2. request.kind = "bad"  BY <1>2 DEF ParsingHeading, HostFound
  <2> HIDE DEF r
  <2> QED  BY <2>1, <2>2, RejectHeadingFacts DEF r
<1>3. CASE Has(x.buf, HeadingEnd) /\ ParsingHeading # "bad" /\ hit
  <2>1. r = [x EXCEPT !.getCash = TRUE, !.buf = <<>>, !.statusClient = "READ_RESPONSE"]
    BY <1>3 DEF WrightRequestHeading
  <2>e. <<>> \in Seq(Units)  BY EmptySeq
  <2>2. r \in BufferFields  BY <2>1, <2>e DEF BufferFields
  <2>3. /\ r.clientConnect = x.clientConnect /\ r.serverConnect = x.serverConnect
        /\ r.statusServer = x.statusServer /\ r.addData = x.addData
        /\ r.readyConnect = x.readyConnect /\ r.error = x.error
        /\ r.statusClient = "READ_RESPONSE" /\ r.getCash
    BY <2>1 DEF BufferFields
  <2> HIDE DEF r
  <2>4. r.statusClient # "WRITE_REQUEST_HEADING"  BY <2>3
  <2> QED  BY <2>2, <2>3, <2>4 DEF r
<1>4. CASE Has(x.buf, HeadingEnd) /\ ParsingHeading = "get" /\ ~hit
  <2>1. r = [x EXCEPT !.readyConnect = TRUE, !.ready = TRUE, !.endSend = TRUE]
    BY <1>4 DEF WrightRequestHeading
  <2>2. request.kind = "get" /\ HeadingIn(x.buf)  BY <1>4, <1>h DEF ParsingHeading
  <2>3. r.buf = x.buf  BY <2>1 DEF BufferFields
  <2>4. HeadingIn(r.buf)  BY <2>2, <2>3
  <2> QED  BY <2>1, <2>2, <2>4 DEF BufferFields
<1>5. CASE Has(x.buf, HeadingEnd) /\ ParsingHeading \notin {"bad", "get"} /\ ~hit
  <2> DEFINE left == FindContentLength("user").length - (Len(x.buf) - PosEndHeading(x.buf))
             end == x.endSend \/ left <= 0
  <2>1. r = [x EXCEPT !.readyConnect = TRUE, !.ready = TRUE,
                      !.statusClient = "WRITE_REQUEST_BODY",
                      !.lengthBody = left, !.endSend = end]
    BY <1>5 DEF WrightRequestHeading
  <2>2. request.kind \notin {"bad", "get"}  BY <1>5 DEF ParsingHeading, HostFound
  <2>3. left \in Int
    <3>1. x.buf \in Seq(Units)  BY DEF BufferFields
    <3>2. PosEndHeading(x.buf) \in Int  BY <3>1, <1>5, PosEndHeadingIn
    <3> QED  BY <3>1, <3>2, AnnouncedTypes
  <2>4. end \in BOOLEAN  BY DEF BufferFields
  <2> HIDE DEF left, end
  <2>5. r \in BufferFields  BY <2>1, <2>3, <2>4 DEF BufferFields
  <2>6. /\ r.clientConnect = x.clientConnect /\ r.serverConnect = x.serverConnect
        /\ r.statusServer = x.statusServer /\ r.addData = x.addData
        /\ r.error = x.error /\ r.getCash = x.getCash
        /\ r.statusClient = "WRITE_REQUEST_BODY"
    BY <2>1 DEF BufferFields
  <2> HIDE DEF r
  <2>7. r.statusClient \notin {"WRITE_REQUEST_HEADING", "READ_RESPONSE"}  BY <2>6
  <2> QED  BY <2>2, <2>5, <2>6, <2>7 DEF r
<1> QED  BY <1>1, <1>2, <1>3, <1>4, <1>5

\* The three other reads leave the request and the connections alone.
LaterRead(x, r) ==
    /\ r \in BufferFields
    /\ r.clientConnect = x.clientConnect /\ r.serverConnect = x.serverConnect
    /\ r.readyConnect = x.readyConnect /\ r.getCash = x.getCash /\ r.error = x.error
    /\ r.statusClient = x.statusClient
    /\ x.addData => r.addData
    /\ \/ r.statusServer = x.statusServer
       \/ x.statusServer = "WRITE_RESPONSE_HEADING" /\ r.statusServer = "WRITE_RESPONSE_BODY"

\* So does wrightRequestBody,
LEMMA WrightRequestBodyFacts ==
    ASSUME NEW x \in BufferFields, NEW n \in Nat
    PROVE  LaterRead(x, WrightRequestBody(x, n))
<1> DEFINE r == WrightRequestBody(x, n)
<1> DEFINE left == x.lengthBody - n
           end == x.endSend \/ x.lengthBody - n <= 0
<1>1. r = [x EXCEPT !.ready = TRUE, !.lengthBody = left, !.endSend = end]
  BY DEF WrightRequestBody
<1>2. left \in Int /\ end \in BOOLEAN  BY DEF BufferFields
<1> HIDE DEF left, end
<1>3. r \in BufferFields  BY <1>1, <1>2 DEF BufferFields
<1>4. /\ r.clientConnect = x.clientConnect /\ r.serverConnect = x.serverConnect
      /\ r.readyConnect = x.readyConnect /\ r.getCash = x.getCash /\ r.error = x.error
      /\ r.statusClient = x.statusClient /\ r.statusServer = x.statusServer /\ r.addData = x.addData
  BY <1>1 DEF BufferFields
<1> HIDE DEF r
<1>5. LaterRead(x, r)  BY <1>3, <1>4 DEF LaterRead
<1> QED  BY <1>5 DEF r

\* wrightResponseBody,
LEMMA WrightResponseBodyFacts ==
    ASSUME NEW x \in BufferFields, NEW n \in Nat
    PROVE  LaterRead(x, WrightResponseBody(x, n))
<1> DEFINE r == WrightResponseBody(x, n)
           left == IF x.haveLength THEN x.lengthBody - n ELSE x.lengthBody
           end == \/ x.endSend
                  \/ x.haveLength /\ x.lengthBody - n <= 0
                  \/ ~x.haveLength /\ Has(x.buf, BodyEnd)
<1>1. r = [x EXCEPT !.ready = TRUE, !.lengthBody = left, !.endSend = end]
  BY DEF WrightResponseBody
<1>2. left \in Int /\ end \in BOOLEAN
  BY DEF BufferFields, Has
<1> HIDE DEF left, end
<1>3. r \in BufferFields  BY <1>1, <1>2 DEF BufferFields
<1>4. /\ r.clientConnect = x.clientConnect /\ r.serverConnect = x.serverConnect
      /\ r.readyConnect = x.readyConnect /\ r.getCash = x.getCash /\ r.error = x.error
      /\ r.statusClient = x.statusClient /\ r.statusServer = x.statusServer /\ r.addData = x.addData
  BY <1>1 DEF BufferFields
<1> HIDE DEF r
<1>5. LaterRead(x, r)  BY <1>3, <1>4 DEF LaterRead
<1> QED  BY <1>5 DEF r

\* and wrightResponseHeading, found a heading or not.
LEMMA WrightResponseHeadingFacts ==
    ASSUME NEW x \in BufferFields, NEW store \in BOOLEAN,
           request \in Requests, response \in Responses,
           x.statusServer = "WRITE_RESPONSE_HEADING"
    PROVE  LaterRead(x, WrightResponseHeading(x, store))
<1> DEFINE r == WrightResponseHeading(x, store)
           pos == PosEndHeading(x.buf)
           announced == FindContentLength(x.buf[pos][1])
           left == announced.length - (Len(x.buf) - pos)
           length == IF announced.known THEN left ELSE x.lengthBody
           end == \/ x.endSend
                  \/ announced.known /\ left <= 0
                  \/ ~announced.known /\ Has(x.buf, BodyEnd)
           add == x.addData \/ Cached(x, store)
<1>1. CASE ~Has(x.buf, HeadingEnd)
  <2>1. r = x  BY <1>1 DEF WrightResponseHeading
  <2>2. r \in BufferFields  BY <2>1
  <2> QED  BY <2>1, <2>2 DEF LaterRead
<1>2. CASE Has(x.buf, HeadingEnd)
  <2>1. r = [x EXCEPT !.addData = add, !.ready = TRUE,
                      !.statusServer = "WRITE_RESPONSE_BODY", !.haveLength = announced.known,
                      !.lengthBody = length, !.endSend = end]
    BY <1>2, Zenon DEF WrightResponseHeading
  <2>2. announced.known \in BOOLEAN /\ announced.length \in Int
    BY AnnouncedTypes, Zenon
  <2>3. /\ x.buf \in Seq(Units) /\ x.lengthBody \in Int
        /\ x.addData \in BOOLEAN /\ x.endSend \in BOOLEAN
    BY DEF BufferFields
  <2>4. pos \in Int  BY <2>3, <1>2, PosEndHeadingIn
  <2>5. left \in Int
    <3> HIDE DEF pos, announced
    <3> QED  BY <2>2, <2>3, <2>4
  <2>6. length \in Int
    <3> HIDE DEF left, announced
    <3> QED  BY <2>3, <2>5
  <2>7. end \in BOOLEAN  BY <2>2, <2>3, Zenon DEF Has
  <2>8. add \in BOOLEAN  BY <2>3, Zenon DEF Cached
  <2> DEFINE known == announced.known
  <2>9. known \in BOOLEAN  BY <2>2
  <2>10. r = [x EXCEPT !.addData = add, !.ready = TRUE,
                      !.statusServer = "WRITE_RESPONSE_BODY", !.haveLength = known,
                      !.lengthBody = length, !.endSend = end]
    BY <2>1
  <2> HIDE DEF known, length, end, add
  <2>11. r \in BufferFields
    BY <2>6, <2>7, <2>8, <2>9, <2>10 DEF BufferFields
  <2>12. /\ r.clientConnect = x.clientConnect /\ r.serverConnect = x.serverConnect
         /\ r.readyConnect = x.readyConnect /\ r.getCash = x.getCash /\ r.error = x.error
         /\ r.statusClient = x.statusClient
         /\ r.addData = add /\ r.statusServer = "WRITE_RESPONSE_BODY"
    BY <2>10 DEF BufferFields
  <2>13. x.addData => add
    BY DEF add
  <2> HIDE DEF r
  <2> QED  BY <2>11, <2>12, <2>13 DEF LaterRead, r
<1> QED  BY <1>1, <1>2

\* What is taken from the socket changes the bytes only.
LEMMA TakenFacts ==
    ASSUME NEW x \in BufferFields, NEW chunk \in Seq(Units)
    PROVE  LET r == Taken(x, chunk)
           IN  /\ r \in BufferFields
               /\ r.statusClient = x.statusClient /\ r.statusServer = x.statusServer
               /\ r.clientConnect = x.clientConnect /\ r.serverConnect = x.serverConnect
               /\ r.readyConnect = x.readyConnect /\ r.getCash = x.getCash /\ r.error = x.error
               /\ r.addData = x.addData
               /\ x.statusServer # "WRITE_RESPONSE_BODY" => r.buf = x.buf \o chunk
<1> DEFINE r == Taken(x, chunk)
           kept == IF ~x.clientConnect /\ x.statusServer = "WRITE_RESPONSE_BODY"
                     THEN <<>> ELSE x.buf \o chunk
<1>1. r = [x EXCEPT !.buf = kept]  BY DEF Taken
<1>2. kept \in Seq(Units)  BY DEF BufferFields
<1>3. x.statusServer # "WRITE_RESPONSE_BODY" => kept = x.buf \o chunk  OBVIOUS
<1> HIDE DEF kept
<1> QED  BY <1>1, <1>2, <1>3 DEF BufferFields

\* What a read makes of the buffer.
LEMMA ReadFromSocketFacts ==
    ASSUME TypeOK, NEW chunk \in Seq(Units), NEW hit \in BOOLEAN, NEW store \in BOOLEAN
    PROVE  LET r == ReadFromSocket(chunk, hit, store)
           IN  /\ r \in BufferFields
               /\ r.clientConnect = b.clientConnect /\ r.serverConnect = b.serverConnect
               /\ ~Asking => LaterRead(b, r)
               /\ Asking =>
                    /\ r.statusServer = b.statusServer /\ r.addData = b.addData
                    /\ b.statusServer # "WRITE_RESPONSE_BODY" /\ r.statusClient = b.statusClient =>
                         Len(r.buf) <= Len(b.buf) + Len(chunk) /\ r.error = b.error
                    /\ r.readyConnect => b.readyConnect \/
                         (/\ request.kind # "bad"
                          /\ r.statusClient = "WRITE_REQUEST_HEADING" =>
                               request.kind = "get" /\ r.ready /\ r.endSend
                               /\ HeadingIn(r.buf))
                    /\ b.statusServer # "WRITE_RESPONSE_BODY" /\ HeadingRead /\ request.kind = "get" =>
                         r.readyConnect \/ r.statusClient = "READ_RESPONSE"
                    /\ r.getCash => b.getCash \/
                         (r.statusClient = "READ_RESPONSE" /\ r.readyConnect = b.readyConnect)
                    /\ r.error => b.error \/ request.kind = "bad"
                    /\ r.statusClient = "READ_RESPONSE" => r.error \/ r.getCash
<1> DEFINE r == ReadFromSocket(chunk, hit, store)
           x == Taken(b, chunk)
<1>1. b \in BufferFields /\ request \in Requests /\ response \in Responses
  BY DEF TypeOK
<1>2. /\ x \in BufferFields
      /\ x.statusClient = b.statusClient /\ x.statusServer = b.statusServer
      /\ x.clientConnect = b.clientConnect /\ x.serverConnect = b.serverConnect
      /\ x.readyConnect = b.readyConnect /\ x.getCash = b.getCash /\ x.error = b.error
      /\ x.addData = b.addData
      /\ b.statusServer # "WRITE_RESPONSE_BODY" => x.buf = b.buf \o chunk
  BY <1>1, TakenFacts
<1>3. Len(b.buf \o chunk) <= Len(b.buf) + Len(chunk)
  BY <1>1 DEF BufferFields
<1>4. Len(chunk) \in Nat
  OBVIOUS
<1>h. b.statusServer # "WRITE_RESPONSE_BODY" /\ HeadingRead => HeadingIn(x.buf)
  <2> SUFFICES ASSUME b.statusServer # "WRITE_RESPONSE_BODY", HeadingRead
               PROVE  HeadingIn(x.buf)
    OBVIOUS
  <2>1. PICK i \in DOMAIN b.buf : HeadingEnd(b.buf[i])
    BY DEF HeadingRead, HeadingIn
  <2>2. b.buf \in Seq(Units) /\ x.buf = b.buf \o chunk
    BY <1>1, <1>2 DEF BufferFields
  <2> HIDE DEF x
  <2>3. i \in DOMAIN x.buf /\ x.buf[i] = b.buf[i]
    BY <2>1, <2>2
  <2> QED  BY <2>1, <2>3 DEF HeadingIn
<1>5. CASE Asking
  <2>1. r = WrightRequestHeading(x, hit)
    BY <1>5 DEF ReadFromSocket, Asking
  <2>2. x.statusClient = "WRITE_REQUEST_HEADING"
    BY <1>2, <1>5 DEF Asking
  <2> HIDE DEF x
  <2> QED
    BY <1>1, <1>2, <1>3, <1>h, <1>5, <2>1, <2>2, WrightRequestHeadingFacts DEF Asking
<1>6. CASE ~Asking
  <2>1. \/ r = WrightRequestBody(x, Len(chunk))
        \/ b.statusServer = "WRITE_RESPONSE_HEADING" /\ r = WrightResponseHeading(x, store)
        \/ r = WrightResponseBody(x, Len(chunk))
        \/ r = x
    BY <1>6, Zenon DEF ReadFromSocket, Asking
  <2>2. LaterRead(x, x)
    BY <1>2 DEF LaterRead
  <2> HIDE DEF x, r
  <2>3. LaterRead(x, r)
    BY <1>1, <1>2, <1>4, <2>1, <2>2, WrightRequestBodyFacts, WrightResponseBodyFacts,
       WrightResponseHeadingFacts
  <2>4. LaterRead(b, r)
    BY <1>2, <2>3 DEF LaterRead
  <2>5. r \in BufferFields /\ r.clientConnect = b.clientConnect /\ r.serverConnect = b.serverConnect
    BY <2>4 DEF LaterRead
  <2> QED
    BY <1>6, <2>4, <2>5 DEF r
<1> QED
  BY <1>5, <1>6

\* What a write leaves of a buffer,
Others(x, r) ==
    /\ r.clientConnect = x.clientConnect /\ r.serverConnect = x.serverConnect
    /\ r.readyConnect = x.readyConnect /\ r.getCash = x.getCash /\ r.error = x.error
    /\ r.addData = x.addData

\* and where it leads the exchange.
Turn(x, r) ==
    \/ r.statusClient = x.statusClient /\ r.statusServer = x.statusServer
    \/ /\ x.statusClient = "READ_RESPONSE"
       /\ r.statusClient = "END_WORK" /\ r.statusServer = x.statusServer
    \/ /\ x.statusServer = "READ_REQUEST" /\ ~(x.statusClient = "READ_RESPONSE" /\ x.error)
       /\ r.statusClient = "READ_RESPONSE" /\ r.statusServer = "WRITE_RESPONSE_HEADING"
    \/ /\ x.statusClient = "READ_RESPONSE"
       /\ r.statusClient = "END_WORK" /\ r.statusServer = "END_WORK"

\* A request that one write takes is answered next.
LEMMA ProofSendFacts ==
    ASSUME NEW x \in BufferFields
    PROVE  LET r == ProofSend(x)
           IN  /\ r \in BufferFields /\ Others(x, r) /\ Turn(x, r)
               /\ /\ x.statusClient = "WRITE_REQUEST_HEADING" /\ x.statusServer = "READ_REQUEST"
                  /\ x.endSend /\ Len(x.buf) <= BufMax
                  => r.statusClient = "READ_RESPONSE"
<1> DEFINE r == ProofSend(x)
           left == SubSeq(x.buf, Len(Sent(x)) + 1, Len(x.buf))
           rest == [x EXCEPT !.buf = left]
<1>1. x.buf \in Seq(Units)
  BY DEF BufferFields
<1>2. Len(Sent(x)) \in Nat
  BY <1>1, HeadAssumption DEF Sent
<1>3. left \in Seq(Units)
  BY <1>1, <1>2
<1>4. ASSUME Len(x.buf) <= BufMax PROVE left = <<>>
  <2>1. Sent(x) = SubSeq(x.buf, 1, Len(x.buf))
    BY <1>1, <1>4, HeadAssumption DEF Sent
  <2>2. Len(Sent(x)) = Len(x.buf)
    BY <1>1, <2>1
  <2>3. left = SubSeq(x.buf, Len(x.buf) + 1, Len(x.buf))
    BY <2>2
  <2> QED
    BY <1>1, <2>3, SubSeqProperties, EmptySeq
<1>5. rest.buf = left
  BY DEF BufferFields
<1>6. r = IF rest.buf # <<>> THEN rest
        ELSE IF ~x.endSend THEN [rest EXCEPT !.ready = FALSE]
        ELSE IF x.statusClient = "READ_RESPONSE" /\ x.error
          THEN [rest EXCEPT !.statusClient = "END_WORK", !.endSend = FALSE]
        ELSE IF x.statusServer = "READ_REQUEST"
          THEN [rest EXCEPT !.statusClient = "READ_RESPONSE",
                            !.statusServer = "WRITE_RESPONSE_HEADING",
                            !.endSend = FALSE, !.ready = FALSE]
        ELSE IF x.statusClient = "READ_RESPONSE"
          THEN [rest EXCEPT !.statusClient = "END_WORK", !.statusServer = "END_WORK",
                            !.ready = FALSE]
        ELSE [rest EXCEPT !.ready = FALSE]
  BY Zenon DEF ProofSend
<1>7. /\ rest \in BufferFields /\ Others(x, rest)
      /\ rest.statusClient = x.statusClient /\ rest.statusServer = x.statusServer
  <2> HIDE DEF left
  <2> QED  BY <1>3 DEF BufferFields, Others
<1> HIDE DEF rest, left
<1>8. r \in BufferFields /\ Others(x, r) /\ Turn(x, r)
  <2>1. CASE r = rest
    BY <2>1, <1>7 DEF Others, Turn
  <2>2. CASE r = [rest EXCEPT !.ready = FALSE]
    <3>1. r \in BufferFields
      BY <2>2, <1>7 DEF BufferFields
    <3>2. r.statusClient = rest.statusClient /\ r.statusServer = rest.statusServer
      BY <2>2, <1>7 DEF BufferFields
    <3>3. Others(rest, r)
      BY <2>2, <1>7 DEF BufferFields, Others
    <3> HIDE DEF r
    <3> QED
      BY <2>2, <1>7, <3>1, <3>2, <3>3 DEF Others, Turn
  <2>3. CASE /\ x.statusClient = "READ_RESPONSE"
             /\ r = [rest EXCEPT !.statusClient = "END_WORK", !.endSend = FALSE]
    <3>1. r \in BufferFields
      BY <2>3, <1>7 DEF BufferFields
    <3>2. r.statusClient = "END_WORK" /\ r.statusServer = rest.statusServer
      BY <2>3, <1>7 DEF BufferFields
    <3>3. Others(rest, r)
      BY <2>3, <1>7 DEF BufferFields, Others
    <3> HIDE DEF r
    <3> QED
      BY <2>3, <1>7, <3>1, <3>2, <3>3 DEF Others, Turn
  <2>4. CASE /\ x.statusServer = "READ_REQUEST" /\ ~(x.statusClient = "READ_RESPONSE" /\ x.error)
             /\ r = [rest EXCEPT !.statusClient = "READ_RESPONSE",
                               !.statusServer = "WRITE_RESPONSE_HEADING",
                               !.endSend = FALSE, !.ready = FALSE]
    <3>1. r \in BufferFields
      BY <2>4, <1>7 DEF BufferFields
    <3>2. r.statusClient = "READ_RESPONSE" /\ r.statusServer = "WRITE_RESPONSE_HEADING"
      BY <2>4, <1>7 DEF BufferFields
    <3>3. Others(rest, r)
      BY <2>4, <1>7 DEF BufferFields, Others
    <3> HIDE DEF r
    <3> QED
      BY <2>4, <1>7, <3>1, <3>2, <3>3 DEF Others, Turn
  <2>5. CASE /\ x.statusClient = "READ_RESPONSE"
             /\ r = [rest EXCEPT !.statusClient = "END_WORK", !.statusServer = "END_WORK",
                               !.ready = FALSE]
    <3>1. r \in BufferFields
      BY <2>5, <1>7 DEF BufferFields
    <3>2. r.statusClient = "END_WORK" /\ r.statusServer = "END_WORK"
      BY <2>5, <1>7 DEF BufferFields
    <3>3. Others(rest, r)
      BY <2>5, <1>7 DEF BufferFields, Others
    <3> HIDE DEF r
    <3> QED
      BY <2>5, <1>7, <3>1, <3>2, <3>3 DEF Others, Turn
  <2> QED
    BY <1>6, <2>1, <2>2, <2>3, <2>4, <2>5, Zenon
<1>9. ASSUME x.statusClient = "WRITE_REQUEST_HEADING", x.statusServer = "READ_REQUEST",
             x.endSend, Len(x.buf) <= BufMax
      PROVE  r.statusClient = "READ_RESPONSE"
  <2>1. rest.buf = <<>>  BY <1>4, <1>5, <1>9
  <2>2. r = [rest EXCEPT !.statusClient = "READ_RESPONSE",
                            !.statusServer = "WRITE_RESPONSE_HEADING",
                            !.endSend = FALSE, !.ready = FALSE]
    BY <2>1, <1>6, <1>9
  <2> QED  BY <2>2, <1>7 DEF BufferFields
<1> QED
  BY <1>8, <1>9

\* readBuf takes no more than what is pending.
LEMMA ChunkFacts ==
    ASSUME TypeOK, StatusSound, NEW c \in Clients
    PROVE  /\ Chunk(c) \in Seq(Units)
           /\ Len(Chunk(c)) \in Nat /\ Len(Chunk(c)) <= Pending(c)
<1> DEFINE read == IF c = "user" THEN userRead ELSE originRead
           n == IF Pending(c) < BufMax THEN Pending(c) ELSE BufMax
           who == IF c = "user" THEN "user" ELSE "origin"
<1>1. Pending(c) \in Nat /\ n \in Nat /\ n <= Pending(c) /\ read \in Nat
  BY HeadAssumption DEF TypeOK, StatusSound, Pending
<1>2. Chunk(c) = [i \in 1..n |-> <<who, read + i>>]
  BY DEF Chunk
<1>3. \A i \in 1..n : <<who, read + i>> \in Units
  BY <1>1 DEF Units
<1> DEFINE f == [i \in 1..n |-> <<who, read + i>>]
<1> HIDE DEF read, n, who
<1>4. f \in Seq(Units) /\ Len(f) = n
  BY <1>1, <1>3
<1> QED
  BY <1>1, <1>2, <1>4

-----------------------------------------------------------------------------
(* Deletions.                                                              *)

\* The four lists, member by member.
LEMMA ListFacts ==
    /\ ToSet(<<>>) = {} /\ ToSet(<<"user">>) = {"user"} /\ ToSet(<<"server">>) = {"server"}
    /\ ToSet(<<"server", "user">>) = {"server", "user"}
    /\ Len(<<>>) = 0 /\ Len(<<"user">>) = 1 /\ Len(<<"server">>) = 1
    /\ Len(<<"server", "user">>) = 2
    /\ <<"server", "user">>[1] = "server" /\ <<"server", "user">>[2] = "user"
    /\ <<"server">>[1] = "server" /\ <<"user">>[1] = "user"
    /\ <<"server", "user">> # <<"user">> /\ <<"server", "user">> # <<"server">>
    /\ <<"server">> # <<"user">> /\ <<"user">> # <<>> /\ <<"server">> # <<>>
    /\ <<"server", "user">> # <<>>
    /\ DOMAIN <<"user">> = {1} /\ DOMAIN <<"server">> = {1} /\ DOMAIN <<"server", "user">> = {1, 2}
  BY DEF ToSet

\* deleteClientServer on a listed server.
LEMMA DeletedServer ==
    ASSUME IInv, ServerListed, DeleteServer
    PROVE  /\ \/ list = <<"server">> /\ list' = <<>>
              \/ list = <<"server", "user">> /\ list' = <<"user">>
           /\ live' = ToSet(list') /\ (bufLive' <=> list' # <<>>) /\ ~pair' /\ ~handling'
           /\ events' \in [Clients -> SUBSET AllEvents]
           /\ b' \in BufferFields
           /\ b'.statusServer = "END_WORK" /\ ~b'.serverConnect
           /\ b'.statusClient = b.statusClient /\ b'.clientConnect = b.clientConnect
           /\ b'.readyConnect = b.readyConnect /\ b'.getCash = b.getCash
           /\ b'.error = b.error /\ b'.addData = b.addData /\ b'.buf = b.buf
           /\ elem' \in Elements /\ ~elem'.connected
<1>1. \/ list = <<"server">> /\ list' = <<>>
      \/ list = <<"server", "user">> /\ list' = <<"user">>
  BY EraseFacts DEF DeleteServer, ServerListed
<1>2. b \in BufferFields /\ elem \in Elements /\ events \in [Clients -> SUBSET AllEvents]
  BY DEF IInv, TypeOK
<1>3. live' = ToSet(list')
  BY <1>1, ListFacts DEF DeleteServer, IInv, LinksSound
<1>4. (bufLive' <=> list' # <<>>)
  <2>1. b.clientConnect <=> UserListed
    BY ListFacts, Zenon DEF IInv, LinksSound, ServerListed
  <2>2. bufLive' <=> b.clientConnect
    BY ListFacts, Zenon DEF DeleteServer, ServerListed, IInv, LinksSound
  <2>3. UserListed <=> list' # <<>>
    BY <1>1, ListFacts DEF UserListed
  <2> QED  BY <2>1, <2>2, <2>3, Zenon
<1>5. ~pair' /\ ~handling'
  BY Zenon DEF DeleteServer, IInv, LinksSound
<1>6. events' \in [Clients -> SUBSET AllEvents]
  BY <1>2 DEF DeleteServer, AllEvents
<1>7. b' \in BufferFields
           /\ b'.statusServer = "END_WORK" /\ ~b'.serverConnect
           /\ b'.statusClient = b.statusClient /\ b'.clientConnect = b.clientConnect
           /\ b'.readyConnect = b.readyConnect /\ b'.getCash = b.getCash
           /\ b'.error = b.error /\ b'.addData = b.addData /\ b'.buf = b.buf
  BY <1>2 DEF DeleteServer, BufferFields
<1>8. elem' \in Elements /\ ~elem'.connected
  <2>1. CASE b.addData
    BY <2>1, <1>2 DEF DeleteServer, Elements
  <2>2. CASE ~b.addData
    BY <2>2, <1>2 DEF DeleteServer, IInv, ElementSound
  <2> QED  BY <2>1, <2>2
<1> QED
  BY <1>1, <1>3, <1>4, <1>5, <1>6, <1>7, <1>8

\* deleteClientUser on a listed user.
LEMMA DeletedUser ==
    ASSUME IInv, UserListed, DeleteUser
    PROVE  /\ \/ list' = <<>>
              \/ list = <<"server", "user">> /\ list' = <<"server">>
           /\ live' = ToSet(list') /\ (bufLive' <=> list' # <<>>) /\ ~pair' /\ ~handling'
           /\ events' = events /\ elem' = elem
           /\ b' \in BufferFields
           /\ b'.statusClient = "END_WORK" /\ ~b'.clientConnect
           /\ list' # <<>> => b'.serverConnect
           /\ \/ b'.statusServer = "END_WORK"
              \/ b'.statusServer = b.statusServer /\ ServerListed' = ServerListed
           /\ b'.readyConnect = b.readyConnect /\ b'.getCash = b.getCash
           /\ b'.error = b.error /\ b'.addData = b.addData
           /\ elem.connected => ServerListed'
<1> DEFINE serverToo == pair /\ ~b.addData
           gone == IF serverToo THEN Clients ELSE {"user"}
           status == IF serverToo THEN "END_WORK" ELSE b.statusServer
           stays == b.serverConnect /\ ~serverToo
<1>0. serverToo \in BOOLEAN
  OBVIOUS
<1>1. /\ serverToo => list = <<"server", "user">> /\ list' = <<>>
      /\ ~serverToo => \/ list = <<"user">> /\ list' = <<>>
                       \/ list = <<"server", "user">> /\ list' = <<"server">>
  <2>1. /\ pair <=> list = <<"server", "user">>
        /\ list' = Erase(IF serverToo THEN Erase(list, "server") ELSE list, "user")
        /\ list \in {<<"user">>, <<"server", "user">>}
    BY Zenon DEF DeleteUser, IInv, LinksSound, UserListed
  <2> QED  BY <2>1, EraseFacts
<1>2. b \in BufferFields
  BY DEF IInv, TypeOK
<1>3. live' = ToSet(list')
  <2>1. live = ToSet(list) /\ live' = live \ gone
    BY Zenon DEF DeleteUser, IInv, LinksSound
  <2> QED  BY <1>1, <2>1, ListFacts DEF Clients
<1>4. b' = [b EXCEPT !.statusClient = "END_WORK", !.clientConnect = FALSE,
                     !.statusServer = status, !.serverConnect = stays]
  BY <1>2 DEF DeleteUser, BufferFields
<1>5. status \in {"READ_REQUEST", "WRITE_RESPONSE_HEADING", "WRITE_RESPONSE_BODY", "END_WORK"}
      /\ stays \in BOOLEAN
  BY <1>2 DEF BufferFields
<1>6. status = "END_WORK" \/ (status = b.statusServer /\ ServerListed' = ServerListed)
  BY <1>1, ListFacts DEF ServerListed
<1>7. stays <=> list' # <<>>
  <2>1. b.serverConnect <=> ServerListed
    BY ListFacts, Zenon DEF IInv, LinksSound, UserListed
  <2> QED  BY <1>1, <2>1, ListFacts DEF ServerListed
<1>8. elem.connected => ServerListed'
  <2>1. elem.connected => b.addData /\ ServerListed
    BY DEF IInv, ElementSound
  <2> QED  BY <1>1, <2>1, ListFacts DEF ServerListed
<1>9. ~pair' /\ ~handling' /\ events' = events /\ elem' = elem
  BY DEF DeleteUser, EraseIt
<1>10. bufLive' <=> b'.serverConnect
  BY ListFacts DEF DeleteUser, IInv, LinksSound, UserListed
<1>11. \/ list' = <<>>
       \/ list = <<"server", "user">> /\ list' = <<"server">>
  BY <1>0, <1>1
<1> HIDE DEF status, stays, serverToo
<1>12. b' \in BufferFields
  BY <1>2, <1>4, <1>5 DEF BufferFields
<1>13. /\ b'.statusClient = "END_WORK" /\ ~b'.clientConnect
       /\ b'.serverConnect = stays /\ b'.statusServer = status
  BY <1>2, <1>4 DEF BufferFields
<1>14. /\ b'.readyConnect = b.readyConnect /\ b'.getCash = b.getCash
       /\ b'.error = b.error /\ b'.addData = b.addData
  BY <1>2, <1>4 DEF BufferFields
<1>15. bufLive' <=> list' # <<>>
  BY <1>7, <1>10, <1>13
<1>16. list' # <<>> => b'.serverConnect
  BY <1>7, <1>13
<1>17. \/ b'.statusServer = "END_WORK"
       \/ b'.statusServer = b.statusServer /\ ServerListed' = ServerListed
  BY <1>6, <1>13
<1> QED
  BY <1>3, <1>8, <1>9, <1>11, <1>12, <1>13, <1>14, <1>15, <1>16, <1>17

\* A deletion in the loop, of either client, keeps the invariant.
LEMMA DeleteKeeps ==
    ASSUME IInv, pc \in {"event", "check", "sent"}, Delete(list[it]),
           UNCHANGED <<revents, user, origin>>
    PROVE  IInv'
<1>1. /\ it \in DOMAIN list /\ list \in Lists /\ list # <<>>
      /\ b \in BufferFields /\ it \in Nat
  <2>1. it \in DOMAIN list /\ list \in Lists
    BY DEF IInv, ListSound, Iterating
  <2>2. list # <<>>  BY <2>1
  <2> QED  BY <2>1, <2>2 DEF IInv, TypeOK
<1>2. /\ UNCHANGED <<pollFailed, request, response, revents>>
      /\ UNCHANGED <<userSent, userRead, userClosed, toUser, originSent, originRead,
                     originClosed, toOrigin>>
  BY DEF Delete, script, user, origin
<1>3. ~b.readyConnect /\ ~b.getCash
  BY DEF IInv, StatusSound
<1>4. ASSUME list' \in Lists
      PROVE  /\ it' \in Nat /\ pc' \in {"poll", "event"}
             /\ pc' = "event" => it' \in DOMAIN list'
  <2>1. Len(list') \in Nat /\ DOMAIN list' = 1..Len(list')
    BY <1>4, ListFacts DEF Lists
  <2>2. /\ it' = (IF it > Len(list') THEN 1 ELSE it + 1)
        /\ pc' = IF it' > Len(list') THEN "poll" ELSE "event"
    BY DEF Delete, AdvanceErased
  <2> QED  BY <1>1, <2>1, <2>2
<1>5. CASE list[it] = "server"
  <2>1. DeleteServer /\ ServerListed
    BY <1>1, <1>5, ListFacts DEF Delete, Lists, ServerListed
  <2>2. list' \in {<<>>, <<"user">>} /\ ~ServerListed'
    BY <2>1, DeletedServer, ListFacts DEF ServerListed
  <2>3. TypeOK'
    BY <1>2, <1>4, <2>1, <2>2, DeletedServer DEF TypeOK, IInv, Lists
  <2>4. ListSound'
    BY <1>2, <1>4, <2>2 DEF ListSound, Lists, BeforeThread, Iterating
  <2>5. LinksSound'
    <3>1. b'.clientConnect <=> UserListed'
      <4>1. b.clientConnect <=> UserListed
        BY <1>1 DEF IInv, LinksSound
      <4>2. UserListed <=> UserListed'
        BY <2>1, DeletedServer, ListFacts DEF UserListed
      <4> QED  BY <2>1, <4>1, <4>2, DeletedServer
    <3>2. ~b'.serverConnect /\ ~ServerListed'  BY <2>1, <2>2, DeletedServer
    <3>3. ~BeforeThread'  BY <1>4, <2>2 DEF BeforeThread, Lists
    <3>4. live' = ToSet(list') /\ (bufLive' <=> list' # <<>>) /\ ~pair' /\ ~handling'
      BY <2>1, DeletedServer
    <3>5. list' # <<"server", "user">>  BY <2>2, ListFacts
    <3> QED  BY <3>1, <3>2, <3>3, <3>4, <3>5, Zenon DEF LinksSound
  <2>6. StatusSound'
    <3>1. Asking => Len(b.buf) <= userRead
      BY DEF IInv, StatusSound, Mixed
    <3> QED
      BY <1>2, <1>3, <2>1, <2>2, <3>1, DeletedServer DEF StatusSound, IInv, Asking, RequestLength
  <2>7. FirstTurn' /\ ElementSound'
    BY <2>1, <2>2, DeletedServer DEF FirstTurn, ElementSound
  <2> QED  BY <2>3, <2>4, <2>5, <2>6, <2>7 DEF IInv
<1>6. CASE list[it] # "server"
  <2>1. DeleteUser /\ UserListed
    BY <1>1, <1>6, ListFacts DEF Delete, Lists, UserListed
  <2>2. list' \in {<<>>, <<"server">>} /\ ~UserListed'
    BY <2>1, DeletedUser, ListFacts DEF UserListed
  <2>3. TypeOK'
    BY <1>2, <1>4, <2>1, <2>2, DeletedUser DEF TypeOK, IInv, Lists
  <2>4. ListSound'
    BY <1>2, <1>4, <2>2 DEF ListSound, Lists, BeforeThread, Iterating
  <2>5. LinksSound'
    <3>1. ~b'.clientConnect /\ ~UserListed'  BY <2>1, <2>2, DeletedUser
    <3>2. list' # <<>> => b'.serverConnect /\ ServerListed'
      BY <2>1, <2>2, DeletedUser DEF ServerListed
    <3>3. ~BeforeThread'  BY <1>4, <2>2 DEF BeforeThread, Lists
    <3>4. live' = ToSet(list') /\ (bufLive' <=> list' # <<>>) /\ ~pair' /\ ~handling'
      BY <2>1, DeletedUser
    <3>5. list' # <<"server", "user">>  BY <2>2, ListFacts
    <3> QED  BY <3>1, <3>2, <3>3, <3>4, <3>5, Zenon DEF LinksSound
  <2>6. StatusSound'
    <3>1. request.kind = "bad" => ~ServerListed'
      BY <2>1, <2>2, DeletedUser, ListFacts DEF StatusSound, IInv, ServerListed
    <3>2. b'.statusServer \in {"WRITE_RESPONSE_HEADING", "WRITE_RESPONSE_BODY"} => ServerListed'
      BY <2>1, DeletedUser DEF StatusSound, IInv
    <3>3. b'.statusClient = "END_WORK"  BY <2>1, DeletedUser
    <3>4. ~b'.readyConnect /\ ~b'.getCash /\ b'.error = b.error  BY <1>3, <2>1, DeletedUser
    <3>5. ~Asking' BY <3>3 DEF Asking
    <3> QED
      BY <1>2, <3>1, <3>2, <3>3, <3>4, <3>5 DEF StatusSound, IInv, RequestLength
  <2>7. FirstTurn' /\ ElementSound'
    BY <2>1, DeletedUser DEF FirstTurn, ElementSound, Asking, IInv
  <2> QED  BY <2>3, <2>4, <2>5, <2>6, <2>7 DEF IInv
<1> QED
  BY <1>5, <1>6

-----------------------------------------------------------------------------
(* The other actions.                                                      *)

\* So does the start of the thread, or its failure;
LEMMA StartKeeps ==
    ASSUME IInv, StartServer
    PROVE  IInv'
<1>1. CASE /\ pc' \in {"accept", "create", "start", "abandoned", "ended"}
           /\ pc \in {"listen", "accept", "create", "start", "poll"}
           /\ pc = "poll" => pc' = "ended"
           /\ UNCHANGED beforeThread
  <2>1. /\ UNCHANGED <<it, list, live, pair, handling, bufLive, events, revents, b, elem,
                       pollFailed>>
        /\ UNCHANGED <<request, response, userSent, userRead, userClosed, toUser>>
        /\ UNCHANGED <<originSent, originRead, originClosed, toOrigin>>
    BY <1>1 DEF beforeThread, links, script, user, origin
  <2>2. TypeOK'  BY <1>1, <2>1 DEF IInv, TypeOK
  <2>3. ListSound'
    BY <1>1, <2>1 DEF IInv, ListSound, BeforeThread, Iterating
  <2>h. HeadingRead' = HeadingRead
    BY <2>1 DEF HeadingRead, HeadingIn, HeadingEnd, RequestLength
  <2>4. LinksSound'
    BY <1>1, <2>1 DEF IInv, LinksSound, UserListed, ServerListed, BeforeThread
  <2>5. StatusSound'
    BY <1>1, <2>1 DEF IInv, StatusSound, ServerListed, Asking, RequestLength, Mixed
  <2>6. FirstTurn'
    BY <1>1, <2>1, <2>h DEF IInv, FirstTurn, ServerListed, Asking
  <2>7. ElementSound'
    BY <2>1 DEF IInv, ElementSound, ServerListed
  <2> QED  BY <2>2, <2>3, <2>4, <2>5, <2>6, <2>7 DEF IInv
<1>2. CASE StartingMethodForThread
  <2>1. /\ pc = "start" /\ pc' = "poll"
        /\ list' = <<"user">> /\ live' = {"user"} /\ bufLive' = TRUE
        /\ UNCHANGED <<pair, handling, it, events, revents, b, elem, pollFailed>>
        /\ UNCHANGED <<request, response, userSent, userRead, userClosed, toUser>>
        /\ UNCHANGED <<originSent, originRead, originClosed, toOrigin>>
    BY <1>2 DEF StartingMethodForThread, script, user, origin
  <2>2. list = <<>> /\ b = NewBuffer
    BY <2>1 DEF IInv, ListSound, LinksSound, BeforeThread
  <2>3. ~ServerListed /\ ~ServerListed' /\ UserListed'
    BY <2>1, <2>2, ListFacts DEF ServerListed, UserListed
  <2>4. TypeOK'  BY <2>1 DEF IInv, TypeOK
  <2>5. ListSound'
    BY <2>1 DEF ListSound, Lists, BeforeThread, Iterating
  <2>6. LinksSound'
    <3>1. b'.clientConnect /\ ~b'.serverConnect  BY <2>1, <2>2 DEF NewBuffer
    <3>2. ~pair' /\ ~handling'  BY <2>1, <2>2, ListFacts DEF IInv, LinksSound
    <3> QED  BY <2>1, <2>3, <3>1, <3>2, ListFacts DEF LinksSound, BeforeThread
  <2>7. StatusSound'
    BY <2>1, <2>2, <2>3, ListFacts DEF IInv, StatusSound, Asking, RequestLength, Mixed, NewBuffer
  <2>8. FirstTurn' /\ ElementSound'
    BY <2>1, <2>3 DEF IInv, FirstTurn, ElementSound
  <2> QED  BY <2>4, <2>5, <2>6, <2>7, <2>8 DEF IInv
<1> QED
  BY <1>1, <1>2 DEF StartServer, ConnectSocket, AcceptNewClientSock, AcceptFails, CreateThread

\* what the peers do;
LEMMA PeersKeep ==
    ASSUME IInv, Peers
    PROVE  IInv'
<1>1. /\ UNCHANGED <<pc, it, list, live, pair, handling, bufLive, events, revents, b, elem,
                     pollFailed>>
      /\ UNCHANGED <<request, response, userRead, toUser, originRead, toOrigin>>
  BY DEF Peers, UserSends, UserCloses, OriginSends, OriginCloses, links, script, user, origin
<1>2. /\ userSent' \in Nat /\ userSent <= userSent'
      /\ userSent' <= RequestLength + Extra
  <2>1. userSent \in Nat /\ userSent <= RequestLength + Extra /\ RequestLength + Extra \in Nat
    BY RequestTypes, HeadAssumption, PeerAssumption
    DEF IInv, TypeOK, StatusSound, RequestLength
  <2>2. userSent' = userSent \/ (userSent < RequestLength + Extra /\ userSent' = userSent + 1)
    BY DEF Peers, UserSends, UserCloses, OriginSends, OriginCloses, user
  <2> HIDE DEF RequestLength
  <2> QED  BY <2>1, <2>2
<1>3. originSent' \in Nat /\ originSent <= originSent'
  BY HeadAssumption, RequestTypes
  DEF Peers, UserSends, UserCloses, OriginSends, OriginCloses, user, origin, IInv, TypeOK,
      RequestLength
<1>4. userClosed' \in BOOLEAN /\ originClosed' \in BOOLEAN
  BY DEF Peers, UserSends, UserCloses, OriginSends, OriginCloses, user, origin, IInv, TypeOK
<1>5. TypeOK'  BY <1>1, <1>2, <1>3, <1>4 DEF IInv, TypeOK
<1>s. (SpokeFirst => SpokeFirst') /\ (Mixed => Mixed')
  BY <1>1, <1>3 DEF SpokeFirst, Mixed, ServerListed, IInv, TypeOK
<1>h. HeadingRead' = HeadingRead
  BY <1>1 DEF HeadingRead, HeadingIn, HeadingEnd, RequestLength
<1>6. ListSound' /\ LinksSound' /\ ElementSound'
  BY <1>1, <1>s DEF IInv, ListSound, LinksSound, ElementSound, UserListed, ServerListed,
                    BeforeThread, Iterating
<1>7. StatusSound'
  <2>1. userRead' <= userSent' /\ originRead' <= originSent'
    BY <1>1, <1>2, <1>3 DEF IInv, StatusSound, TypeOK
  <2>2. userSent' <= (RequestLength + Extra)'
    BY <1>1, <1>2 DEF RequestLength
  <2> QED
    BY <1>1, <1>s, <1>h, <2>1, <2>2 DEF IInv, StatusSound, Asking, ServerListed
<1>8. FirstTurn'
  BY <1>1, <1>3, <1>h DEF IInv, TypeOK, FirstTurn, ServerListed, Asking
<1> QED
  BY <1>5, <1>6, <1>7, <1>8 DEF IInv

\* Moves of the loop that change neither the buffer nor the clients.
LEMMA MoveKeeps ==
    ASSUME IInv,
           ~BeforeThread, pc \notin {"exit", "astray"},
           pc' \in {"poll", "event", "check", "send", "exit"}, it' \in Nat,
           pc' \in {"event", "check", "send"} => it' \in DOMAIN list,
           pc' = "exit" => pollFailed' \/ list = <<>>,
           events' \in [Clients -> SUBSET AllEvents], revents' \in [Clients -> SUBSET AllEvents],
           pollFailed' \in BOOLEAN, ~b.readyConnect, ~b.getCash,
           FirstTurn',
           UNCHANGED <<links, b, elem, script, user, origin>>
    PROVE  IInv'
<1>1. /\ UNCHANGED <<list, live, pair, handling, bufLive, b, elem>>
      /\ UNCHANGED <<request, response, userSent, userRead, userClosed, toUser>>
      /\ UNCHANGED <<originSent, originRead, originClosed, toOrigin>>
  BY DEF links, script, user, origin
<1>2. TypeOK'  BY <1>1 DEF IInv, TypeOK
<1>3. ListSound'  BY <1>1 DEF IInv, ListSound, BeforeThread, Iterating
<1>4. LinksSound'
  BY <1>1 DEF IInv, LinksSound, UserListed, ServerListed, BeforeThread
<1>5. StatusSound'
  <2>1. Asking => Len(b.buf) <= userRead
    BY DEF IInv, StatusSound, FirstTurn, Mixed
  <2> QED
    BY <1>1, <2>1 DEF IInv, StatusSound, ServerListed, Asking, RequestLength
<1>6. ElementSound'  BY <1>1 DEF IInv, ElementSound, ServerListed
<1> QED
  BY <1>2, <1>3, <1>4, <1>5, <1>6 DEF IInv

\* poll, which finds a new server writable, and readable only if it spoke, and its failure;
LEMMA PollKeeps ==
    ASSUME IInv, Poll \/ PollError \/ Finish
    PROVE  IInv'
<1>1. /\ pc = "poll" /\ ~b.readyConnect /\ ~b.getCash /\ ~BeforeThread
      /\ UNCHANGED <<links, b, elem, script, user, origin>> /\ UNCHANGED events
  BY DEF Poll, PollWith, PollError, Finish, IInv, StatusSound, BeforeThread
<1>h. HeadingRead' = HeadingRead
  BY <1>1 DEF HeadingRead, HeadingIn, HeadingEnd, RequestLength, script
<1>2. CASE Poll
  <2>1. PICK w \in SUBSET Clients : PollWith(w)
    BY <1>2 DEF Poll
  <2>2. /\ list # <<>> /\ it' = 1 /\ pc' = "event" /\ UNCHANGED pollFailed
        /\ SaveResultPollSet(w)
    BY <2>1 DEF PollWith
  <2>3. it' \in DOMAIN list
    BY <2>2, ListFacts DEF IInv, ListSound, Lists
  <2>4. events' \in [Clients -> SUBSET AllEvents] /\ revents' \in [Clients -> SUBSET AllEvents]
    BY <1>1, <2>2 DEF SaveResultPollSet, IInv, TypeOK
  <2>5. FirstTurn'
    <3> SUFFICES ASSUME Asking', ServerListed' PROVE FirstTurn'
      BY DEF FirstTurn
    <3>1. Asking /\ ServerListed /\ UNCHANGED <<request, b, toOrigin, originSent, originRead,
                                                list>>
      BY <1>1 DEF Asking, ServerListed, links, script, origin
    <3>2. "server" \in ToSet(list)
      BY <3>1, ListFacts DEF ServerListed
    <3>3. events["server"] = AllEvents /\ toOrigin = <<>>
      BY <3>1 DEF IInv, FirstTurn
    <3>4. revents'["server"] = {e \in events["server"] :
             /\ "server" \in ToSet(list)
             /\ e = "rdhup" => Closed("server")
             /\ e = "in" => Pending("server") > 0 \/ Closed("server")
             /\ e = "out" => HasRoom("server", w)}
      BY <2>2 DEF SaveResultPollSet, Clients
    <3>5. originSent = 0 => ~(Pending("server") > 0)
      BY DEF Pending, IInv, TypeOK, StatusSound
    <3>6. /\ "out" \in revents'["server"]
          /\ originSent = 0 /\ "in" \in revents'["server"] => "rdhup" \in revents'["server"]
      BY <3>2, <3>3, <3>4, <3>5 DEF AllEvents, HasRoom
    <3> QED
      BY <1>1, <1>h, <2>2, <3>1, <3>6 DEF IInv, FirstTurn
  <2> QED
    BY <1>1, <2>2, <2>3, <2>4, <2>5, MoveKeeps DEF IInv, TypeOK
<1>3. CASE PollError \/ Finish
  <2>1. /\ pc' = "exit" /\ UNCHANGED <<it, revents>>
        /\ pollFailed' \in BOOLEAN /\ (pollFailed' \/ list = <<>>)
    BY <1>3 DEF PollError, Finish, IInv, TypeOK
  <2>2. FirstTurn'
    BY <1>1, <1>h, <2>1 DEF IInv, FirstTurn, Asking, ServerListed, links, script, origin
  <2> QED
    BY <1>1, <2>1, <2>2, MoveKeeps DEF IInv, TypeOK
<1> QED
  BY <1>2, <1>3

\* What is known inside an iteration.
LEMMA InLoop ==
    ASSUME IInv, pc \in {"event", "connect", "check", "send", "sent"}
    PROVE  /\ it \in DOMAIN list /\ list \in Lists /\ list # <<>> /\ it \in {1, 2}
           /\ list[it] \in Clients /\ ~BeforeThread /\ ~b.getCash
           /\ list[it] = "user" => UserListed
           /\ list[it] = "server" => ServerListed /\ it = 1
           /\ ServerListed /\ it = 1 => list[it] = "server"
           /\ pc # "connect" => ~b.readyConnect
           /\ Len(list) \in {1, 2} /\ DOMAIN list = 1..Len(list)
<1>1. it \in DOMAIN list /\ list \in Lists
  BY DEF IInv, ListSound, Iterating
<1>2. ~BeforeThread /\ ~b.getCash /\ (pc # "connect" => ~b.readyConnect)
  BY DEF IInv, StatusSound, BeforeThread
<1>3. \/ list = <<"user">> /\ it = 1
      \/ list = <<"server">> /\ it = 1
      \/ list = <<"server", "user">> /\ it \in {1, 2}
  BY <1>1, ListFacts DEF Lists
<1> QED
  BY <1>1, <1>2, <1>3, ListFacts DEF UserListed, ServerListed, Clients

\* the steps of an iteration that only move on;
LEMMA IterationMoves ==
    ASSUME IInv, EventNone \/ ReadError \/ NoConnect \/ CheckGoesOn \/ SendNothing \/ SendIdle
    PROVE  IInv'
<1>1. /\ pc \in {"event", "connect", "check", "send"}
      /\ UNCHANGED <<links, b, elem, script, user, origin>> /\ UNCHANGED pollFailed
  BY DEF EventNone, ReadError, NoConnect, CheckGoesOn, SendNothing, SendIdle
<1>2. /\ it \in DOMAIN list /\ list \in Lists /\ list # <<>> /\ it \in {1, 2}
      /\ list[it] \in Clients /\ ~BeforeThread /\ ~b.getCash
      /\ ServerListed /\ it = 1 => list[it] = "server"
      /\ pc # "connect" => ~b.readyConnect
      /\ Len(list) \in {1, 2} /\ DOMAIN list = 1..Len(list)
  BY <1>1, InLoop
<1>3. ~b.readyConnect
  BY <1>2 DEF EventNone, ReadError, NoConnect, CheckGoesOn, SendNothing, SendIdle
<1>4. /\ pc' \in {"poll", "event", "check", "send"} /\ it' \in Nat
      /\ pc' \in {"event", "check", "send"} => it' \in DOMAIN list
  BY <1>2 DEF EventNone, ReadError, NoConnect, CheckGoesOn, SendNothing, SendIdle, Advance
<1>5. /\ events \in [Clients -> SUBSET AllEvents] /\ revents \in [Clients -> SUBSET AllEvents]
  BY DEF IInv, TypeOK
<1>6. events' \in [Clients -> SUBSET AllEvents] /\ revents' \in [Clients -> SUBSET AllEvents]
  BY <1>2, <1>5 DEF EventNone, ReadError, NoConnect, CheckGoesOn, SendNothing, SendIdle,
                    Current, AllEvents
<1>7. FirstTurn'
  <2> SUFFICES ASSUME Asking', ServerListed' PROVE FirstTurn'
    BY DEF FirstTurn
  <2>1. Asking /\ ServerListed /\ UNCHANGED <<request, b, toOrigin, originSent, originRead, list>>
    BY <1>1 DEF Asking, ServerListed, links, script, origin
  <2>2. /\ request.kind = "get" /\ b.ready /\ b.endSend /\ HeadingRead
        /\ toOrigin = <<>>
        /\ events["server"] = AllEvents
        /\ pc = "connect" => b.readyConnect
        /\ pc = "event" /\ originSent = 0 =>
              it = 1 /\ ("in" \in revents["server"] => "rdhup" \in revents["server"])
        /\ pc \in {"event", "check", "send"} /\ it = 1 => "out" \in revents["server"]
        /\ pc = "send" /\ it = 1 => b.statusServer = "READ_REQUEST"
    BY <2>1 DEF IInv, FirstTurn
  <2>h. HeadingRead' = HeadingRead
    BY <2>1 DEF HeadingRead, HeadingIn, HeadingEnd, RequestLength
  <2>3. ServerListed /\ Len(list) = 1 => it = 1
    BY <1>2
  <2>4. CASE EventNone
    BY <1>1, <2>1, <2>2, <2>h, <2>4 DEF EventNone, FirstTurn
  <2>5. CASE ReadError
    <3>1. originSent # 0
      BY <1>2, <2>1, <2>2, <2>5 DEF ReadError, Current
    <3>2. it' \in {2, 3} /\ pc' \in {"poll", "event"} /\ UNCHANGED events
      BY <1>2, <2>5 DEF ReadError, Advance
    <3> QED
      BY <2>1, <2>2, <2>h, <3>1, <3>2 DEF FirstTurn
  <2>6. CASE NoConnect
    BY <2>2, <2>6 DEF NoConnect
  <2>7. CASE CheckGoesOn
    <3>1. it = 1 => b.statusServer = "READ_REQUEST"
      BY <1>2, <2>1, <2>7 DEF CheckGoesOn, WorkEnded, Current, IInv, StatusSound
    <3> QED
      BY <1>1, <2>1, <2>2, <2>h, <2>7, <3>1 DEF CheckGoesOn, FirstTurn
  <2>8. CASE SendNothing
    <3>1. it = 2
      BY <1>2, <2>1, <2>2, <2>8 DEF SendNothing, Current, HasTurn
    <3>2. pc' = "poll" /\ UNCHANGED events
      BY <1>2, <2>8, <3>1 DEF SendNothing, Advance
    <3> QED
      BY <2>1, <2>2, <2>h, <3>2 DEF FirstTurn
  <2>9. CASE SendIdle
    BY <2>2, <2>9 DEF SendIdle
  <2> QED  BY <2>4, <2>5, <2>6, <2>7, <2>8, <2>9
<1> QED
  BY <1>1, <1>2, <1>3, <1>4, <1>6, <1>7, MoveKeeps DEF IInv, TypeOK

\* the connection, made when the user is alone in the list;
LEMMA ConnectKeeps ==
    ASSUME IInv, Connect
    PROVE  IInv'
<1>1. /\ pc = "connect" /\ b.readyConnect /\ list = <<"user">> /\ it = 1 /\ request.kind # "bad"
      /\ Asking => request.kind = "get" /\ b.ready /\ b.endSend /\ HeadingRead
  BY InLoop, ListFacts DEF Connect, IInv, StatusSound, ServerListed
<1>2. list' = <<"server", "user">>
  <2>1. list' = <<"server">> \o <<"user">>
    BY <1>1 DEF Connect
  <2>2. <<"server">> \in Seq(Clients) /\ <<"user">> \in Seq(Clients)
    BY DEF Clients
  <2>3. /\ list' \in Seq(Clients) /\ Len(list') = Len(<<"server">>) + Len(<<"user">>)
        /\ \A i \in 1..(Len(<<"server">>) + Len(<<"user">>)) :
             list'[i] = IF i <= Len(<<"server">>) THEN <<"server">>[i]
                       ELSE <<"user">>[i - Len(<<"server">>)]
    BY <2>1, <2>2, ConcatProperties
  <2>4. Len(list') = 2 /\ list'[1] = "server" /\ list'[2] = "user"
    BY <2>3, ListFacts
  <2> QED
    BY <2>3, <2>4
<1>3. /\ it' = 2 /\ pc' = "check" /\ pair' /\ handling'
      /\ b' = [b EXCEPT !.readyConnect = FALSE, !.serverConnect = TRUE]
      /\ events' = [events EXCEPT !["server"] = AllEvents]
      /\ revents' = [revents EXCEPT !["server"] = {}]
      /\ originSent' = 0 /\ originRead' = 0 /\ originClosed' = FALSE /\ toOrigin' = <<>>
      /\ live' = live \cup {"server"}
      /\ UNCHANGED <<bufLive, elem, pollFailed, request, response, userSent, userRead,
                     userClosed, toUser>>
  BY <1>1 DEF Connect, ConnectToClient, AddClientToHandlingEvent, script, user
<1>4. /\ b' \in BufferFields /\ ~b'.readyConnect /\ b'.serverConnect
      /\ b'.statusClient = b.statusClient /\ b'.statusServer = b.statusServer
      /\ b'.clientConnect = b.clientConnect /\ b'.buf = b.buf
      /\ b'.ready = b.ready /\ b'.endSend = b.endSend
      /\ b'.getCash = b.getCash /\ b'.error = b.error /\ b'.addData = b.addData
  BY <1>3 DEF IInv, TypeOK, BufferFields
<1>5. events'["server"] = AllEvents
      /\ events' \in [Clients -> SUBSET AllEvents] /\ revents' \in [Clients -> SUBSET AllEvents]
  BY <1>3 DEF IInv, TypeOK, Clients
<1>6. UserListed /\ UserListed' /\ ServerListed' /\ ~ServerListed
  BY <1>1, <1>2, ListFacts DEF UserListed, ServerListed
<1>7. TypeOK'
  <2>1. toOrigin' \in Seq(Units)  BY <1>3
  <2> QED  BY <1>3, <1>4, <1>5, <2>1 DEF IInv, TypeOK
<1>8. ListSound'
  BY <1>2, <1>3, ListFacts DEF ListSound, Lists, BeforeThread, Iterating
<1>9. LinksSound'
  <2>1. live' = ToSet(list')
    BY <1>1, <1>2, <1>3, ListFacts DEF IInv, LinksSound
  <2>2. bufLive'  BY <1>1, <1>3, ListFacts DEF IInv, LinksSound
  <2>3. b'.clientConnect
    <3>1. b.clientConnect <=> UserListed  BY <1>1, ListFacts DEF IInv, LinksSound
    <3> QED  BY <1>4, <1>6, <3>1
  <2>4. ~BeforeThread'  BY <1>3 DEF BeforeThread
  <2>5. list' # <<>>  BY <1>2, ListFacts
  <2>6. pair' /\ handling' /\ b'.serverConnect  BY <1>3, <1>4
  <2> QED  BY <1>2, <1>6, <2>1, <2>2, <2>3, <2>4, <2>5, <2>6, Zenon DEF LinksSound
<1>10. StatusSound'
  <2>1. Asking => Len(b.buf) <= userRead
    BY <1>1, <1>6 DEF IInv, StatusSound, Mixed
  <2> QED
    BY <1>1, <1>3, <1>4, <1>6, <2>1 DEF IInv, StatusSound, Asking, RequestLength
<1>11. FirstTurn'
  <2>1. HeadingRead' = HeadingRead
    BY <1>3, <1>4 DEF HeadingRead, HeadingIn, HeadingEnd, RequestLength
  <2> QED
    BY <1>1, <1>3, <1>4, <1>5, <1>6, <2>1 DEF FirstTurn, Asking
<1>12. ElementSound'
  BY <1>3, <1>4, <1>6 DEF IInv, ElementSound
<1> QED
  BY <1>7, <1>8, <1>9, <1>10, <1>11, <1>12 DEF IInv

\* the connection of a second one, which an origin that spoke first brings about;
LEMMA ConnectSecondKeeps ==
    ASSUME IInv, ConnectSecond
    PROVE  IInv'
<1>1. /\ pc = "connect" /\ b.readyConnect /\ pc' = "astray"
      /\ UNCHANGED <<it, list, live, pair, handling, bufLive, events, revents, b, elem,
                     pollFailed>>
      /\ UNCHANGED <<request, response, userSent, userRead, userClosed, toUser>>
      /\ UNCHANGED <<originSent, originRead, originClosed, toOrigin>>
  BY DEF ConnectSecond, links, script, user, origin
<1>2. "server" \in ToSet(list)
  BY DEF ConnectSecond
<1>3. SpokeFirst /\ SpokeFirst'
  BY <1>1, <1>2, ListFacts DEF IInv, StatusSound, SpokeFirst
<1>4. HeadingRead' = HeadingRead
  BY <1>1 DEF HeadingRead, HeadingIn, HeadingEnd, RequestLength
<1>5. TypeOK'  BY <1>1 DEF IInv, TypeOK
<1>6. ListSound'  BY <1>1, <1>3 DEF IInv, ListSound, BeforeThread, Iterating
<1>7. LinksSound'
  BY <1>1 DEF IInv, LinksSound, UserListed, ServerListed, BeforeThread
<1>8. StatusSound'
  BY <1>1, <1>3 DEF IInv, StatusSound, ServerListed, Asking, RequestLength, Mixed
<1>9. FirstTurn' /\ ElementSound'
  BY <1>1, <1>4 DEF IInv, FirstTurn, ElementSound, ServerListed, Asking
<1> QED
  BY <1>5, <1>6, <1>7, <1>8, <1>9 DEF IInv

\* The deletion the thread ends with, of its last client unless an origin spoke first.
LEMMA LastDeletionKeeps ==
    ASSUME IInv, ConnectFails \/ FromCash
    PROVE  IInv'
<1>1. /\ pc \in {"connect", "fromCash"} /\ pc' = "exit" /\ it' \in Nat
      /\ it \in DOMAIN list /\ list \in Lists
      /\ UNCHANGED <<revents, pollFailed, request, response>>
      /\ UNCHANGED <<userSent, userRead, userClosed, toUser, originSent, originRead,
                     originClosed, toOrigin>>
  BY DEF ConnectFails, FromCash, IInv, TypeOK, ListSound, Iterating, script, user, origin
<1>2. list = <<"user">> \/ (ServerListed /\ SpokeFirst /\ SpokeFirst')
  BY <1>1, ListFacts DEF ConnectFails, FromCash, IInv, ListSound, StatusSound, Lists,
     ServerListed, SpokeFirst
<1>3. \/ list[it] = "user" /\ UserListed /\ DeleteUser
      \/ list[it] = "server" /\ ServerListed /\ DeleteServer
  <2>1. \/ list[it] = "user" /\ UserListed
        \/ list[it] = "server" /\ ServerListed
    BY <1>1, ListFacts DEF Lists, UserListed, ServerListed
  <2>2. CASE ConnectFails
    <3>1. IF list[it] = "user" THEN DeleteUser ELSE DeleteServer
      BY <2>2, Zenon DEF ConnectFails, Current
    <3> QED  BY <2>1, <3>1
  <2>3. CASE FromCash
    <3>1. list[it] = "user" /\ DeleteUser
      BY <2>3 DEF FromCash, IInv, ListSound
    <3> QED  BY <2>1, <3>1
  <2> QED  BY <2>2, <2>3
<1>4. CASE UserListed /\ DeleteUser
  <2>1. /\ list' = <<>> \/ (list' = <<"server">> /\ SpokeFirst')
        /\ ~UserListed'
    BY <1>2, <1>4, DeletedUser, ListFacts DEF UserListed
  <2>2. b'.statusClient = "END_WORK" /\ ~Asking'
    BY <1>4, DeletedUser DEF Asking
  <2>3. TypeOK'
    BY <1>1, <1>4, DeletedUser DEF TypeOK, IInv
  <2>4. ListSound'
    BY <1>1, <2>1 DEF ListSound, Lists, BeforeThread, Iterating
  <2>5. LinksSound'
    <3>1. ~b'.clientConnect /\ ~UserListed'  BY <1>4, <2>1, DeletedUser
    <3>2. list' # <<>> => b'.serverConnect /\ ServerListed'
      BY <1>4, <2>1, DeletedUser DEF ServerListed
    <3>3. ~BeforeThread'  BY <1>1 DEF BeforeThread
    <3>4. live' = ToSet(list') /\ (bufLive' <=> list' # <<>>) /\ ~pair' /\ ~handling'
      BY <1>4, DeletedUser
    <3>5. list' # <<"server", "user">>  BY <2>1, ListFacts
    <3> QED  BY <3>1, <3>2, <3>3, <3>4, <3>5, Zenon DEF LinksSound
  <2>6. StatusSound'
    <3>1. request.kind = "bad" => ~ServerListed'
      BY <1>4, <2>1, DeletedUser, ListFacts DEF StatusSound, IInv, ServerListed
    <3>2. b'.statusServer \in {"WRITE_RESPONSE_HEADING", "WRITE_RESPONSE_BODY"} => ServerListed'
      BY <1>4, DeletedUser DEF StatusSound, IInv
    <3>3. b'.error = b.error  BY <1>4, DeletedUser
    <3> QED
      BY <1>1, <2>2, <3>1, <3>2, <3>3 DEF StatusSound, IInv, RequestLength
  <2>7. FirstTurn' /\ ElementSound'
    BY <1>4, <2>2, DeletedUser DEF FirstTurn, ElementSound, IInv
  <2> QED  BY <2>3, <2>4, <2>5, <2>6, <2>7 DEF IInv
<1>5. CASE ServerListed /\ DeleteServer
  <2>1. /\ \/ list = <<"server">> /\ list' = <<>>
           \/ list = <<"server", "user">> /\ list' = <<"user">>
        /\ ~ServerListed' /\ SpokeFirst'
    BY <1>2, <1>5, DeletedServer, ListFacts DEF ServerListed
  <2>2. TypeOK'
    BY <1>1, <1>5, DeletedServer DEF TypeOK, IInv
  <2>3. ListSound'
    BY <1>1, <2>1 DEF ListSound, Lists, BeforeThread, Iterating
  <2>4. LinksSound'
    <3>1. b'.clientConnect <=> UserListed'
      <4>1. b.clientConnect <=> UserListed
        BY <2>1, ListFacts DEF IInv, LinksSound
      <4>2. UserListed <=> UserListed'
        BY <2>1, ListFacts DEF UserListed
      <4> QED  BY <1>5, <4>1, <4>2, DeletedServer
    <3>2. ~b'.serverConnect /\ ~ServerListed'  BY <1>5, <2>1, DeletedServer
    <3>3. ~BeforeThread'  BY <1>1 DEF BeforeThread
    <3>4. live' = ToSet(list') /\ (bufLive' <=> list' # <<>>) /\ ~pair' /\ ~handling'
      BY <1>5, DeletedServer
    <3>5. list' # <<"server", "user">>  BY <2>1, ListFacts
    <3> QED  BY <3>1, <3>2, <3>3, <3>4, <3>5, Zenon DEF LinksSound
  <2>5. StatusSound'
    <3>1. Mixed'  BY <1>1, <2>1 DEF Mixed
    <3> QED
      BY <1>1, <1>5, <2>1, <3>1, DeletedServer DEF StatusSound, IInv, Asking, RequestLength
  <2>6. FirstTurn' /\ ElementSound'
    BY <1>5, <2>1, DeletedServer DEF FirstTurn, ElementSound
  <2> QED  BY <2>2, <2>3, <2>4, <2>5, <2>6 DEF IInv
<1> QED
  BY <1>3, <1>4, <1>5

\* a write, which for a GET is the end of its first turn;
LEMMA SendSomeKeeps ==
    ASSUME IInv, SendSome
    PROVE  IInv'
<1>1. /\ pc = "send" /\ b.ready /\ HasTurn(list[it])
      /\ b' = ProofSend(b)
      /\ UNCHANGED <<list, live, pair, handling, bufLive, elem, pollFailed>>
      /\ UNCHANGED <<request, response, userSent, userRead, userClosed,
                     originSent, originRead, originClosed>>
  BY DEF SendSome, InWrite, Current, links, script
<1>2. /\ it \in DOMAIN list /\ list \in Lists /\ list # <<>> /\ it \in {1, 2}
      /\ list[it] \in Clients /\ ~BeforeThread /\ ~b.getCash
      /\ list[it] = "server" => ServerListed /\ it = 1
      /\ ~b.readyConnect
      /\ Len(list) \in {1, 2} /\ DOMAIN list = 1..Len(list)
  BY <1>1, InLoop
<1>3. b \in BufferFields
  BY DEF IInv, TypeOK
<1>4. /\ pc' \in {"poll", "event", "sent"} /\ it' \in Nat
      /\ pc' \in {"event", "sent"} => it' \in DOMAIN list
      /\ pc' = "sent" => list[it'] = "user"
  BY <1>2 DEF SendSome, Advance, Current
<1>5. b' \in BufferFields /\ Others(b, b')
  BY <1>1, <1>3, ProofSendFacts
<1>6. Turn(b, b')
  BY <1>1, <1>3, ProofSendFacts
<1>7. ~Asking'
  <2> SUFFICES ASSUME Asking' PROVE FALSE
    OBVIOUS
  <2>1. Asking  BY <1>6 DEF Asking, Turn
  <2>2. list[it] = "server" /\ ServerListed /\ it = 1 /\ b.statusServer = "READ_REQUEST"
    BY <1>1, <1>2, <2>1 DEF HasTurn, Asking, Clients
  <2>3. request.kind = "get" /\ b.endSend
    BY <2>1, <2>2 DEF IInv, FirstTurn
  <2>4. request.body = 0
    BY <2>3, RequestTypes DEF IInv, TypeOK
  <2>5. Len(b.buf) <= userRead /\ userRead <= userSent /\ userSent <= ReqHead + Extra
    BY <1>1, <2>1, <2>4, HeadAssumption DEF IInv, StatusSound, RequestLength, Mixed
  <2>6. Len(b.buf) \in Nat
    BY <1>3 DEF BufferFields
  <2>7. Len(b.buf) <= BufMax
    BY <2>5, <2>6, HeadAssumption, PeerAssumption DEF IInv, TypeOK
  <2>8. b'.statusClient = "READ_RESPONSE"
    BY <1>1, <1>3, <2>1, <2>2, <2>3, <2>7, ProofSendFacts DEF Asking
  <2> QED  BY <2>8 DEF Asking
<1>8. TypeOK'
  <2>1. Sent(b) \in Seq(Units)
    BY <1>3, HeadAssumption DEF BufferFields, Sent
  <2>2. toUser' \in Seq(Units) /\ toOrigin' \in Seq(Units)
    <3>1. /\ toUser \in Seq(Units) /\ toUser \o Sent(b) \in Seq(Units)
          /\ toOrigin \in Seq(Units) /\ toOrigin \o Sent(b) \in Seq(Units)
      BY <2>1 DEF IInv, TypeOK
    <3>2. toUser' \in {toUser, toUser \o Sent(b)} /\ toOrigin' \in {toOrigin, toOrigin \o Sent(b)}
      BY Zenon DEF SendSome
    <3> QED  BY <3>1, <3>2
  <2>3. events' \in [Clients -> SUBSET AllEvents] /\ revents' \in [Clients -> SUBSET AllEvents]
    BY DEF SendSome, RearmForResponse, IInv, TypeOK, AllEvents
  <2> QED
    BY <1>1, <1>4, <1>5, <2>2, <2>3 DEF IInv, TypeOK
<1>9. ListSound'
  BY <1>1, <1>2, <1>4 DEF ListSound, BeforeThread, Iterating
<1>10. LinksSound'
  BY <1>1, <1>4, <1>5 DEF Others, IInv, LinksSound, UserListed, ServerListed, BeforeThread
<1>11. StatusSound'
  <2>1. b'.statusServer \in {"WRITE_RESPONSE_HEADING", "WRITE_RESPONSE_BODY"} => ServerListed'
    <3>1. b.statusServer \in {"WRITE_RESPONSE_HEADING", "WRITE_RESPONSE_BODY"} => ServerListed
      BY DEF IInv, StatusSound
    <3>2. ASSUME b.statusServer = "READ_REQUEST", ~(b.statusClient = "READ_RESPONSE" /\ b.error)
          PROVE  ServerListed
      <4>1. b.statusClient = "READ_RESPONSE" => b.error \/ b.getCash
        BY <3>2 DEF IInv, StatusSound
      <4> QED  BY <1>1, <1>2, <3>2, <4>1 DEF HasTurn, Clients
    <3>3. ServerListed' = ServerListed  BY <1>1 DEF ServerListed
    <3> QED  BY <1>6, <3>1, <3>2, <3>3 DEF Turn
  <2>2. b'.statusClient = "READ_RESPONSE" /\ b'.statusServer = "READ_REQUEST" =>
          b'.error \/ b'.getCash
    BY <1>5, <1>6 DEF Others, Turn, IInv, StatusSound
  <2>3. ~b'.readyConnect /\ ~b'.getCash /\ (b'.error => request.kind = "bad")
    BY <1>2, <1>5 DEF Others, IInv, StatusSound
  <2> QED
    BY <1>1, <1>7, <2>1, <2>2, <2>3 DEF IInv, StatusSound, RequestLength, ServerListed
<1>12. FirstTurn' /\ ElementSound'
  BY <1>1, <1>5, <1>7 DEF Others, FirstTurn, ElementSound, ServerListed, IInv
<1> QED
  BY <1>8, <1>9, <1>10, <1>11, <1>12 DEF IInv

\* and a read, which in the first turn of a GET leads astray.
LEMMA ReadKeeps ==
    ASSUME IInv, Read
    PROVE  IInv'
<1> DEFINE c == list[it]
           chunk == Chunk(c)
<1>1. /\ pc = "event" /\ "in" \in revents[c] /\ "rdhup" \notin revents[c]
      /\ UNCHANGED <<it, list, live, pair, handling, bufLive, pollFailed, request, response>>
      /\ UNCHANGED <<userSent, userClosed, toUser, originSent, originClosed, toOrigin>>
  BY DEF Read, Current, links, script
<1>2. /\ it \in DOMAIN list /\ list \in Lists /\ list # <<>> /\ it \in {1, 2}
      /\ c \in Clients /\ ~BeforeThread /\ ~b.getCash
      /\ c = "server" => ServerListed /\ it = 1
      /\ ServerListed /\ it = 1 => c = "server"
      /\ ~b.readyConnect
  BY <1>1, InLoop
<1>3. PICK hit \in BOOLEAN, store \in BOOLEAN :
        /\ b' = ReadFromSocket(chunk, hit, store)
        /\ IF c = "user" /\ b'.getCash
             THEN pc' = "fromCash" /\ events' = events
             ELSE pc' = (IF b'.getCash THEN "astray" ELSE "connect") /\ events' = Rearm(c)
  BY DEF Read, Current
<1>4. chunk \in Seq(Units) /\ Len(chunk) \in Nat /\ Len(chunk) <= Pending(c)
  BY <1>2, ChunkFacts DEF IInv
<1>5. /\ b' \in BufferFields
      /\ b'.clientConnect = b.clientConnect /\ b'.serverConnect = b.serverConnect
  <2> HIDE DEF chunk
  <2> QED  BY <1>3, <1>4, ReadFromSocketFacts DEF IInv
<1>6. ~Asking => LaterRead(b, b')
  <2> HIDE DEF chunk
  <2> QED  BY <1>3, <1>4, ReadFromSocketFacts DEF IInv
<1>7. Asking =>
        /\ b'.statusServer = b.statusServer /\ b'.addData = b.addData
        /\ b.statusServer # "WRITE_RESPONSE_BODY" /\ b'.statusClient = b.statusClient =>
             Len(b'.buf) <= Len(b.buf) + Len(chunk) /\ b'.error = b.error
        /\ b'.readyConnect => b.readyConnect \/
             (/\ request.kind # "bad"
              /\ b'.statusClient = "WRITE_REQUEST_HEADING" =>
                   request.kind = "get" /\ b'.ready /\ b'.endSend /\ HeadingIn(b'.buf))
        /\ b.statusServer # "WRITE_RESPONSE_BODY" /\ HeadingRead /\ request.kind = "get" =>
             b'.readyConnect \/ b'.statusClient = "READ_RESPONSE"
        /\ b'.getCash => b.getCash \/
             (b'.statusClient = "READ_RESPONSE" /\ b'.readyConnect = b.readyConnect)
        /\ b'.error => b.error \/ request.kind = "bad"
        /\ b'.statusClient = "READ_RESPONSE" => b'.error \/ b'.getCash
  <2> HIDE DEF chunk
  <2> QED  BY <1>3, <1>4, ReadFromSocketFacts DEF IInv
<1>8. /\ Asking /\ ~ServerListed => list = <<"user">> /\ c = "user"
      /\ Asking /\ ServerListed => /\ SpokeFirst /\ request.kind = "get" /\ HeadingRead
                                  /\ events["server"] = AllEvents
  <2>1. Asking /\ ServerListed => /\ originSent # 0 /\ toOrigin = <<>> /\ request.kind = "get"
                                 /\ HeadingRead /\ events["server"] = AllEvents
    BY <1>1, <1>2 DEF IInv, FirstTurn
  <2>2. originSent \in Nat
    BY DEF IInv, TypeOK
  <2>3. ~ServerListed => list = <<"user">> /\ c = "user"
    BY <1>2, ListFacts DEF ServerListed, Lists, Clients
  <2> QED  BY <2>1, <2>2, <2>3 DEF SpokeFirst
<1>s. SpokeFirst' = SpokeFirst /\ ServerListed' = ServerListed
  BY <1>1 DEF SpokeFirst, ServerListed
<1>h. HeadingIn(b'.buf) => HeadingRead'
  BY <1>1 DEF HeadingRead, HeadingIn, HeadingEnd, RequestLength
<1>9. /\ userRead' \in Nat /\ originRead' \in Nat
      /\ userRead' <= userSent /\ originRead' <= originSent
      /\ c = "user" => userRead' = userRead + Len(chunk)
      /\ userRead <= userRead'
  <2>1. IF c = "user"
         THEN userRead' = userRead + Len(Chunk("user")) /\ UNCHANGED originRead
         ELSE originRead' = originRead + Len(Chunk("server")) /\ UNCHANGED userRead
    BY DEF Read, Current
  <2>2. /\ userRead \in Nat /\ userSent \in Nat /\ originRead \in Nat /\ originSent \in Nat
        /\ userRead <= userSent /\ originRead <= originSent
    BY DEF IInv, TypeOK, StatusSound
  <2>3. CASE c = "user"
    <3>1. /\ userRead' = userRead + Len(chunk) /\ UNCHANGED originRead
          /\ Pending(c) = userSent - userRead
      BY <2>1, <2>3 DEF Pending
    <3> HIDE DEF c, chunk
    <3> QED  BY <1>4, <2>2, <2>3, <3>1
  <2>4. CASE c = "server"
    <3>1. /\ originRead' = originRead + Len(chunk) /\ UNCHANGED userRead
          /\ Pending(c) = originSent - originRead
      BY <2>1, <2>4 DEF Pending
    <3> HIDE DEF c, chunk
    <3> QED  BY <1>4, <2>2, <2>4, <3>1
  <2> QED  BY <1>2, <2>3, <2>4 DEF Clients
<1>10. Asking' => Asking
  BY <1>6 DEF Asking, LaterRead
<1>11. b'.getCash => /\ Asking /\ b'.statusClient = "READ_RESPONSE" /\ ~b'.readyConnect
                    /\ pc' = IF c = "user" THEN "fromCash" ELSE "astray"
  BY <1>2, <1>3, <1>6, <1>7 DEF LaterRead
<1>12. /\ pc' \in {"fromCash", "connect", "astray"}
       /\ pc' = "fromCash" => b'.getCash /\ c = "user"
       /\ pc' = "astray" => b'.getCash /\ c = "server"
  BY <1>2, <1>3 DEF Clients
<1>13. TypeOK'
  <2>1. elem' \in Elements
    <3>1. elem' = ElementAfter(chunk)
      BY DEF Read, Current
    <3>2. elem \in Elements /\ b.buf \o chunk \in Seq(Units) /\ elem.content \o chunk \in Seq(Units)
      BY <1>4 DEF IInv, TypeOK, Elements, BufferFields
    <3> HIDE DEF chunk
    <3> DEFINE over == b'.lengthBody <= 0
               end == elem.ended \/ over
               new == [content |-> b.buf \o chunk, connected |-> TRUE, ended |-> over]
               grown == [elem EXCEPT !.content = @ \o chunk, !.ended = end]
    <3>3. elem' \in {elem, new, grown}
      BY <3>1, <3>2 DEF ElementAfter, Elements
    <3>4. end \in BOOLEAN /\ over \in BOOLEAN
      BY <3>2 DEF Elements
    <3> HIDE DEF end, over
    <3>5. new \in Elements
      BY <3>2, <3>4 DEF Elements
    <3>6. grown \in Elements
      BY <3>2, <3>4 DEF Elements
    <3> QED  BY <3>2, <3>3, <3>5, <3>6
  <2>2. events' \in [Clients -> SUBSET AllEvents]
    BY <1>3 DEF Rearm, IInv, TypeOK, AllEvents
  <2>3. revents' \in [Clients -> SUBSET AllEvents]
    BY DEF Read, IInv, TypeOK, AllEvents
  <2> QED
    BY <1>1, <1>5, <1>9, <1>12, <2>1, <2>2, <2>3 DEF IInv, TypeOK
<1>14. ListSound'
  <2>1. pc' = "fromCash" => list[it] = "user" /\ (list = <<"user">> \/ SpokeFirst)
    BY <1>8, <1>11, <1>12
  <2>2. pc' = "astray" => SpokeFirst
    BY <1>2, <1>8, <1>11, <1>12
  <2> QED
    BY <1>1, <1>2, <1>12, <1>s, <2>1, <2>2 DEF ListSound, BeforeThread, Iterating
<1>15. LinksSound'
  BY <1>1, <1>5, <1>12 DEF IInv, LinksSound, UserListed, ServerListed, BeforeThread
<1>16. StatusSound'
  <2>1. ASSUME Asking'
        PROVE  /\ Len(b'.buf) <= userRead' \/ Mixed'
               /\ ~b'.error /\ b'.statusServer \in {"READ_REQUEST", "END_WORK"}
    <3>1. Asking  BY <1>10, <2>1
    <3>2. /\ Len(b.buf) <= userRead /\ ~b.error
          /\ b.statusServer \in {"READ_REQUEST", "END_WORK"}
      BY <1>1, <3>1 DEF IInv, StatusSound, Mixed
    <3>3. /\ b'.statusServer = b.statusServer /\ b'.error = b.error
          /\ Len(b'.buf) <= Len(b.buf) + Len(chunk)
      BY <1>7, <2>1, <3>1, <3>2 DEF Asking
    <3>4. Len(b.buf) \in Nat /\ Len(b'.buf) \in Nat
      BY <1>5 DEF IInv, TypeOK, BufferFields
    <3>5. CASE ~ServerListed
      <4>1. c = "user"  BY <1>8, <3>1, <3>5
      <4>2. Len(b'.buf) <= userRead'
        <5> HIDE DEF c, chunk
        <5> QED  BY <1>4, <1>9, <3>2, <3>3, <3>4, <4>1 DEF IInv, TypeOK
      <4> QED  BY <3>2, <3>3, <4>2
    <3>6. CASE ServerListed
      <4>1. pc' = "connect"
        BY <1>11, <1>12, <2>1 DEF Asking
      <4>2. Mixed'  BY <1>8, <1>s, <3>1, <3>6, <4>1 DEF Mixed
      <4> QED  BY <3>2, <3>3, <4>2
    <3> QED  BY <3>5, <3>6
  <2>2. ASSUME b'.readyConnect
        PROVE  /\ pc' = "connect" /\ request.kind # "bad"
               /\ list' = <<"user">> \/ (ServerListed' /\ SpokeFirst')
               /\ Asking' => request.kind = "get" /\ b'.ready /\ b'.endSend /\ HeadingRead'
    <3>1. Asking  BY <1>2, <1>6, <2>2 DEF LaterRead
    <3>2. pc' = "connect"  BY <1>11, <1>12, <2>2
    <3>3. list' = <<"user">> \/ (ServerListed' /\ SpokeFirst')
      BY <1>1, <1>8, <1>s, <3>1
    <3>4. /\ request.kind # "bad"
          /\ Asking' => request.kind = "get" /\ b'.ready /\ b'.endSend /\ HeadingRead'
      BY <1>2, <1>7, <1>h, <2>2, <3>1 DEF Asking
    <3> QED  BY <3>2, <3>3, <3>4
  <2>3. /\ b'.statusServer \in {"WRITE_RESPONSE_HEADING", "WRITE_RESPONSE_BODY"} => ServerListed'
        /\ b'.statusClient = "READ_RESPONSE" /\ b'.statusServer = "READ_REQUEST" =>
             b'.error \/ b'.getCash
        /\ b'.error => request.kind = "bad"
    BY <1>1, <1>6, <1>7 DEF LaterRead, IInv, StatusSound, ServerListed
  <2>4. request.kind = "bad" => ~ServerListed'
    BY <1>1 DEF IInv, StatusSound, ServerListed
  <2>5. userSent' <= (RequestLength + Extra)'
    BY <1>1 DEF IInv, StatusSound, RequestLength
  <2> QED
    BY <1>1, <1>9, <1>11, <2>1, <2>2, <2>3, <2>4, <2>5 DEF StatusSound
<1>17. FirstTurn'
  <2> SUFFICES ASSUME Asking', ServerListed' PROVE FirstTurn'
    BY DEF FirstTurn
  <2>1. /\ Asking /\ SpokeFirst /\ request.kind = "get" /\ HeadingRead
        /\ events["server"] = AllEvents
    BY <1>8, <1>10, <1>s
  <2>2. b.statusServer \in {"READ_REQUEST", "END_WORK"}
    BY <2>1 DEF IInv, StatusSound
  <2>3. b'.statusClient = "WRITE_REQUEST_HEADING"
    BY DEF Asking
  <2>4. b'.readyConnect
    BY <1>7, <2>1, <2>2, <2>3
  <2>5. b'.ready /\ b'.endSend /\ HeadingRead'
    BY <1>2, <1>7, <1>h, <2>1, <2>3, <2>4
  <2>6. pc' = "connect"
    BY <1>11, <1>12, <2>3
  <2>7. events'["server"] = AllEvents
    BY <1>3, <2>1 DEF Rearm, IInv, TypeOK, Clients
  <2>8. toOrigin' = <<>> /\ originSent' > 0 /\ UNCHANGED request
    BY <1>1, <2>1 DEF SpokeFirst
  <2> QED
    BY <2>1, <2>4, <2>5, <2>6, <2>7, <2>8 DEF FirstTurn
<1>18. ElementSound'
  <2>1. elem' = ElementAfter(chunk) /\ ServerListed' = ServerListed
    BY <1>1 DEF Read, Current, ServerListed
  <2>2. b.addData => b'.addData
    BY <1>6, <1>7 DEF LaterRead
  <2>3. elem.connected => b.addData /\ ServerListed
    BY DEF IInv, ElementSound
  <2>4. b.statusServer = "WRITE_RESPONSE_HEADING" => ServerListed
    BY DEF IInv, StatusSound
  <2>5. elem \in Elements  BY DEF IInv, TypeOK
  <2> HIDE DEF chunk
  <2>6. elem'.connected => \/ elem.connected
                           \/ b'.addData /\ b.statusServer = "WRITE_RESPONSE_HEADING"
    BY <2>1, <2>5 DEF ElementAfter, Elements
  <2> QED  BY <2>1, <2>2, <2>3, <2>4, <2>6 DEF ElementSound
<1> QED
  BY <1>13, <1>14, <1>15, <1>16, <1>17, <1>18 DEF IInv

-----------------------------------------------------------------------------
(* The theorems.                                                           *)

\* The invariant holds at the start,
LEMMA InitSound == Init => IInv
<1> SUFFICES ASSUME Init PROVE IInv
  OBVIOUS
<1>1. /\ pc = "listen" /\ list = <<>> /\ it = 1 /\ live = {} /\ pair = FALSE /\ handling = FALSE
      /\ b = NewBuffer /\ bufLive = FALSE /\ elem = NoElement /\ pollFailed = FALSE
      /\ request \in Requests /\ response \in Responses
      /\ userSent = 0 /\ userRead = 0 /\ userClosed = FALSE /\ toUser = <<>>
      /\ originSent = 0 /\ originRead = 0 /\ originClosed = FALSE /\ toOrigin = <<>>
  BY DEF Init
<1>2. ~ServerListed /\ list # <<"server", "user">>
  BY <1>1, ListFacts DEF ServerListed
<1>3. NewBuffer \in BufferFields /\ NoElement \in Elements
  <2>1. <<>> \in Seq(Units)  BY EmptySeq
  <2> QED  BY <2>1 DEF NewBuffer, NoElement, BufferFields, Elements
<1>4. TypeOK
  <2>1. events \in [Clients -> SUBSET AllEvents] /\ revents \in [Clients -> SUBSET AllEvents]
    BY DEF Init, AllEvents
  <2>2. <<>> \in Seq(Units)  BY EmptySeq
  <2> QED  BY <1>1, <1>3, <2>1, <2>2 DEF TypeOK
<1>5. ListSound
  BY <1>1 DEF ListSound, Lists, Iterating
<1>6. LinksSound
  BY <1>1, <1>2, ListFacts DEF LinksSound
<1>7. StatusSound
  <2>1. RequestLength + Extra >= 0
    BY <1>1, RequestTypes, HeadAssumption, PeerAssumption DEF RequestLength
  <2>2. /\ b.statusServer = "READ_REQUEST" /\ b.statusClient = "WRITE_REQUEST_HEADING"
        /\ ~b.error /\ ~b.readyConnect /\ ~b.getCash /\ Len(b.buf) = 0
    BY <1>1, ListFacts DEF NewBuffer
  <2> HIDE DEF RequestLength
  <2> QED  BY <1>1, <1>2, <2>1, <2>2 DEF StatusSound
<1>8. FirstTurn /\ ElementSound
  BY <1>1, <1>2 DEF FirstTurn, ElementSound, NoElement
<1> QED
  BY <1>4, <1>5, <1>6, <1>7, <1>8 DEF IInv

\* and every step keeps it.
LEMMA StepKeeps == IInv /\ [Next]_vars => IInv'
<1> SUFFICES ASSUME IInv, [Next]_vars PROVE IInv'
  OBVIOUS
<1>1. CASE EventHangup \/ CheckEnded \/ SentAll
  <2>1. pc \in {"event", "check", "sent"} /\ Delete(list[it]) /\ UNCHANGED <<revents, user,
                                                                             origin>>
    BY <1>1 DEF EventHangup, CheckEnded, SentAll, Current, IInv, ListSound
  <2> QED  BY <2>1, DeleteKeeps
<1>2. CASE UNCHANGED vars
  <2>1. /\ UNCHANGED <<pc, it, list, live, pair, handling, bufLive, events, revents, b, elem,
                       pollFailed>>
        /\ UNCHANGED <<request, response, userSent, userRead, userClosed, toUser>>
        /\ UNCHANGED <<originSent, originRead, originClosed, toOrigin>>
    BY <1>2 DEF vars, links, script, user, origin
  <2> QED
    BY <2>1 DEF IInv, TypeOK, ListSound, LinksSound, StatusSound, FirstTurn, ElementSound,
      UserListed, ServerListed, BeforeThread, Iterating, Asking, RequestLength, SpokeFirst,
      Mixed, HeadingRead, HeadingIn, HeadingEnd
<1> QED
  BY <1>1, <1>2, StartKeeps, PeersKeep, PollKeeps, IterationMoves, ConnectKeeps,
     ConnectSecondKeeps, LastDeletionKeeps, SendSomeKeeps, ReadKeeps DEF Next, Iteration

\* IInv holds throughout: one lemma for each action of the thread, one for the peers.
THEOREM Invariance == Spec => []IInv
  BY InitSound, StepKeeps, PTL DEF Spec

\* The variables keep their types, the fields of BufferImpl and the streams included.
THEOREM TypeCorrect == Spec => []TypeOK
  BY Invariance, PTL DEF IInv

\* No list, _pair or _listHandlingEvent points to a deleted client, none points to a
\* client without its buffer, _pollSet has room for the list, and a thread that ends by
\* itself leaves nothing allocated: but for an origin that speaks before the request is
\* written, which is what it takes to have a second server connected.
THEOREM ObjectsStaySound == Spec => []ObjectsSound
<1>1. IInv => ObjectsSound
  <2> SUFFICES ASSUME IInv PROVE ObjectsSound
    OBVIOUS
  <2>1. /\ list \in Lists /\ live = ToSet(list) /\ (bufLive <=> list # <<>>)
        /\ (pair <=> list = <<"server", "user">>) /\ (handling <=> list = <<"server", "user">>)
        /\ pc = "exit" => pollFailed \/ list = <<>> \/ SpokeFirst
        /\ pc = "astray" => SpokeFirst
    BY DEF IInv, ListSound, LinksSound
  <2>2. ToSet(list) \subseteq live /\ Len(list) <= 2
    <3>1. Len(list) \in {0, 1, 2}
      BY <2>1, ListFacts DEF Lists
    <3>2. Len(list) <= 2
      <4>1. \A n \in {0, 1, 2} : n <= 2
        OBVIOUS
      <4> QED  BY <3>1, <4>1, Zenon
    <3>3. ToSet(list) \subseteq live
      <4>1. live \subseteq live
        OBVIOUS
      <4> QED  BY <2>1, <4>1, Zenon
    <3> QED  BY <3>2, <3>3
  <2>3. live # {} => bufLive
    BY <2>1, ListFacts DEF Lists
  <2>4. pair \/ handling => live = Clients
    BY <2>1, ListFacts DEF Clients
  <2>5. /\ pc = "exit" /\ ~pollFailed => (live = {} /\ ~bufLive) \/ SpokeFirst
        /\ pc = "astray" => SpokeFirst
    BY <2>1, ListFacts
  <2> QED  BY <2>2, <2>3, <2>4, <2>5 DEF ObjectsSound, Clients
<1> QED
  BY <1>1, Invariance, PTL

\* An element marked connected has its server in the list of the thread that fills it:
\* its readers wait for a download that goes on.
THEOREM ElementIsServed == Spec => []ElementFollowsServer
<1>1. IInv => ElementFollowsServer
  BY ListFacts DEF IInv, ElementSound, ServerListed, ElementFollowsServer
<1> QED
  BY <1>1, Invariance, PTL

-----------------------------------------------------------------------------
(* The streams, with orderly peers.                                        *)

\* The units of a sender from the one after from to the one numbered to.
Run(sender, from, to) == [i \in 1..(to - from) |-> <<sender, from + i>>]

\* A user that stops at the end of its request, an origin that waits for all of it.
OrderlyPeers == Extra = 0 /\ ~EarlyReply

\* The buffer holds what belongs to the request.
Asks == b.statusClient \in {"WRITE_REQUEST_HEADING", "WRITE_REQUEST_BODY"}

\* What the buffer holds of a request that is not sent yet.
RequestHeld ==
    Asks =>
      /\ Len(b.buf) <= userRead
      /\ b.buf = Run("user", userRead - Len(b.buf), userRead)
      /\ b.endSend => userRead = RequestLength
      /\ Asking \/ b.readyConnect => Len(b.buf) = userRead
      /\ ~Asking => /\ b.lengthBody = RequestLength - userRead
                    /\ userRead = RequestLength => b.endSend
      /\ b.statusServer \in {"READ_REQUEST", "END_WORK"}
      /\ ~b.addData
      /\ toUser = <<>>

\* What the origin has of it.
RequestSent ==
    /\ toOrigin = Run("user", 0, Len(toOrigin))
    /\ pc = "connect" /\ b.readyConnect => Asks
    /\ Asks /\ ServerListed =>
         /\ originSent = 0
         /\ Len(toOrigin) <= userRead - Len(b.buf) /\ Len(toOrigin) < RequestLength
         /\ originClosed \/ Len(toOrigin) = userRead - Len(b.buf)

\* What the buffer and the user have of the response.
ResponseStreams ==
    /\ toUser = Run("origin", 0, Len(toUser))
    /\ originSent <= ResponseLength
    /\ b.statusClient = "READ_RESPONSE" /\ request.kind # "bad" /\ ~b.getCash =>
         /\ userRead = RequestLength
         /\ Len(b.buf) <= originRead
         /\ b.buf = Run("origin", originRead - Len(b.buf), originRead)
         /\ userClosed \/ Len(toUser) = originRead - Len(b.buf)

\* The answer to a rejected heading is never sent.
RejectedSilent ==
    request.kind = "bad" => "out" \notin events["user"] /\ "out" \notin revents["user"]

\* How far the exchange is while the server answers.
Answering ==
    /\ b.statusServer \in {"WRITE_RESPONSE_HEADING", "WRITE_RESPONSE_BODY"} =>
         userRead = RequestLength
    /\ b.statusServer = "WRITE_RESPONSE_HEADING" =>
         /\ b.statusClient = "READ_RESPONSE" /\ ~b.ready /\ ~b.endSend /\ ~b.addData
         /\ Len(b.buf) = originRead
    /\ b.statusClient # "END_WORK" => b.clientConnect
    /\ b.statusClient = "END_WORK" /\ ServerListed => b.statusServer # "READ_REQUEST"

\* What the element has of it.
ElementStreams ==
    /\ elem.content = Run("origin", 0, Len(elem.content))
    /\ elem.ended => Len(elem.content) = ResponseLength
    /\ b.addData => b.statusServer \in {"WRITE_RESPONSE_BODY", "END_WORK"}
    /\ b.statusServer = "WRITE_RESPONSE_BODY" =>
         /\ b.haveLength => b.lengthBody = ResponseLength - originRead
         /\ b.addData => b.haveLength /\ Len(elem.content) = originRead

StreamInv == /\ RequestHeld /\ RequestSent /\ ResponseStreams /\ RejectedSilent
             /\ Answering /\ ElementStreams

\* The lengths are those of MessageAssumption.
LEMMA LengthTypes ==
    ASSUME IInv
    PROVE  /\ RequestLength \in Nat /\ RequestLength > 0 /\ RequestLength >= ReqHead
           /\ ResponseLength \in Nat /\ ResponseLength >= RespHead
           /\ request.kind = "get" => RequestLength = ReqHead
           /\ ReqHead \in Nat \ {0} /\ RespHead \in Nat \ {0}
  BY RequestTypes, HeadAssumption DEF IInv, TypeOK, RequestLength, ResponseLength

-----------------------------------------------------------------------------
(* Runs of units.                                                          *)

\* A run is a sequence of units,
LEMMA RunFacts ==
    ASSUME NEW s \in {"user", "origin"}, NEW i \in Nat, NEW j \in Nat, i <= j
    PROVE  /\ Run(s, i, j) \in Seq(Units) /\ Len(Run(s, i, j)) = j - i
           /\ DOMAIN Run(s, i, j) = 1..(j - i)
           /\ \A n \in 1..(j - i) : Run(s, i, j)[n] = <<s, i + n>>
<1>1. \A n \in 1..(j - i) : <<s, i + n>> \in Units
  BY DEF Units
<1>2. j - i \in Nat
  OBVIOUS
<1> QED
  BY <1>1, <1>2 DEF Run

\* empty where it begins,
LEMMA RunEmpty ==
    ASSUME NEW s \in {"user", "origin"}, NEW i \in Nat
    PROVE  Run(s, i, i) = <<>>
<1>1. i <= i /\ i - i = 0
  OBVIOUS
<1>2. Run(s, i, i) \in Seq(Units) /\ Len(Run(s, i, i)) = 0
  BY <1>1, RunFacts
<1> QED
  BY <1>2, EmptySeq

\* known by its entries,
LEMMA RunIs ==
    ASSUME NEW s \in {"user", "origin"}, NEW i \in Nat, NEW j \in Nat, NEW w \in Seq(Units),
           Len(w) = j - i, \A n \in 1..Len(w) : w[n] = <<s, i + n>>
    PROVE  w = Run(s, i, j)
<1>1. Len(w) \in Nat /\ DOMAIN w = 1..Len(w) /\ w = [n \in 1..Len(w) |-> w[n]]
  OBVIOUS
<1>2. w = [n \in 1..(j - i) |-> <<s, i + n>>]
  BY <1>1
<1> QED
  BY <1>2 DEF Run

\* continued by the next,
LEMMA RunConcat ==
    ASSUME NEW s \in {"user", "origin"}, NEW i \in Nat, NEW j \in Nat, NEW k \in Nat, i <= j, j <= k
    PROVE  Run(s, i, j) \o Run(s, j, k) = Run(s, i, k)
<1> DEFINE u == Run(s, i, j)
           v == Run(s, j, k)
<1>1. /\ u \in Seq(Units) /\ Len(u) = j - i /\ \A n \in 1..(j - i) : u[n] = <<s, i + n>>
      /\ v \in Seq(Units) /\ Len(v) = k - j /\ \A n \in 1..(k - j) : v[n] = <<s, j + n>>
  BY RunFacts
<1> HIDE DEF u, v
<1>2. /\ u \o v \in Seq(Units) /\ Len(u \o v) = Len(u) + Len(v)
      /\ \A n \in 1..(Len(u) + Len(v)) : (u \o v)[n] = IF n <= Len(u) THEN u[n] ELSE v[n - Len(u)]
  BY <1>1, ConcatProperties
<1>3. Len(u) + Len(v) = k - i
  BY <1>1
<1>4. \A n \in 1..(k - i) : (u \o v)[n] = <<s, i + n>>
  <2> SUFFICES ASSUME NEW n \in 1..(k - i) PROVE (u \o v)[n] = <<s, i + n>>
    OBVIOUS
  <2>0. n \in Nat /\ n >= 1 /\ n <= k - i
    OBVIOUS
  <2>1. CASE n <= j - i
    <3>1. n \in 1..(j - i)
      BY <2>0, <2>1
    <3>2. (u \o v)[n] = u[n]
      BY <1>1, <1>2, <1>3, <2>1
    <3> QED  BY <1>1, <3>1, <3>2
  <2>2. CASE n > j - i
    <3>1. n - (j - i) \in 1..(k - j)
      BY <2>0, <2>2
    <3>2. (u \o v)[n] = v[n - (j - i)]
      BY <1>1, <1>2, <1>3, <2>2
    <3>3. v[n - (j - i)] = <<s, j + (n - (j - i))>>
      BY <1>1, <3>1
    <3>4. j + (n - (j - i)) = i + n
      OBVIOUS
    <3> QED  BY <3>2, <3>3, <3>4
  <2>3. n <= j - i \/ n > j - i
    BY <2>0
  <2> QED  BY <2>1, <2>2, <2>3, Zenon
<1>5. u \o v = Run(s, i, k)
  BY <1>2, <1>3, <1>4, RunIs
<1> QED
  BY <1>5 DEF u, v

\* and divided by what one send takes.
LEMMA RunSent ==
    ASSUME NEW s \in {"user", "origin"}, NEW i \in Nat, NEW j \in Nat, i <= j,
           NEW x \in BufferFields, x.buf = Run(s, i, j)
    PROVE  LET n == Len(Sent(x))
           IN  /\ n \in Nat /\ i + n <= j
               /\ Sent(x) = Run(s, i, i + n)
               /\ SubSeq(x.buf, n + 1, Len(x.buf)) = Run(s, i + n, j)
<1> DEFINE w == x.buf
           m == IF Len(w) < BufMax THEN Len(w) ELSE BufMax
           front == SubSeq(w, 1, m)
           left == SubSeq(w, m + 1, Len(w))
<1>0. w = Run(s, i, j)
  OBVIOUS
<1> HIDE DEF w
<1>1. w \in Seq(Units) /\ Len(w) = j - i /\ \A n \in 1..(j - i) : w[n] = <<s, i + n>>
  BY <1>0, RunFacts
<1>2. m \in Nat /\ m <= j - i /\ m <= Len(w) /\ i + m \in Nat /\ i + m <= j /\ (i + m) - i = m
  BY <1>1, HeadAssumption
<1>3. Sent(x) = front
  BY DEF Sent, w
<1> HIDE DEF m
<1>4. /\ front \in Seq(Units) /\ Len(front) = m /\ \A n \in 1..m : front[n] = w[n]
  BY <1>1, <1>2
<1>5. \A n \in 1..m : front[n] = <<s, i + n>>
  BY <1>1, <1>2, <1>4
<1> HIDE DEF front
<1>6. front = Run(s, i, i + m)
  BY <1>2, <1>4, <1>5, RunIs
<1>7. /\ left \in Seq(Units) /\ Len(left) = Len(w) - m
      /\ \A n \in 1..(Len(w) - m) : left[n] = w[m + n]
  BY <1>1, <1>2
<1> HIDE DEF left
<1>8. Len(left) = j - (i + m)
  BY <1>1, <1>2, <1>7
<1>9. \A n \in 1..Len(left) : left[n] = <<s, (i + m) + n>>
  <2> SUFFICES ASSUME NEW n \in 1..Len(left) PROVE left[n] = <<s, (i + m) + n>>
    OBVIOUS
  <2>1. n \in Nat /\ n >= 1 /\ n <= (j - i) - m
    BY <1>2, <1>8
  <2>2. m + n \in 1..(j - i) /\ i + (m + n) = (i + m) + n
    BY <1>2, <2>1
  <2>3. left[n] = w[m + n]
    BY <1>7
  <2>4. w[m + n] = <<s, i + (m + n)>>
    BY <1>1, <2>2
  <2> QED  BY <2>2, <2>3, <2>4
<1>10. left = Run(s, i + m, j)
  BY <1>2, <1>7, <1>8, <1>9, RunIs
<1>11. Len(Sent(x)) = m
  BY <1>3, <1>4
<1> QED
  BY <1>2, <1>3, <1>6, <1>10, <1>11 DEF left, w

\* What a read brings is a run.
LEMMA ChunkRuns ==
    ASSUME IInv, NEW c \in Clients
    PROVE  LET s == IF c = "user" THEN "user" ELSE "origin"
               read == IF c = "user" THEN userRead ELSE originRead
           IN  Chunk(c) = Run(s, read, read + Len(Chunk(c)))
<1> DEFINE s == IF c = "user" THEN "user" ELSE "origin"
           read == IF c = "user" THEN userRead ELSE originRead
           n == IF Pending(c) < BufMax THEN Pending(c) ELSE BufMax
<1>1. Pending(c) \in Nat /\ n \in Nat /\ read \in Nat
  BY HeadAssumption DEF IInv, TypeOK, StatusSound, Pending
<1>2. Chunk(c) = [i \in 1..n |-> <<s, read + i>>]
  BY DEF Chunk
<1> HIDE DEF n, read, s
<1>3. Len(Chunk(c)) = n
  BY <1>1, <1>2
<1>4. (read + n) - read = n
  BY <1>1
<1> QED
  BY <1>2, <1>3, <1>4 DEF Run, s, read

\* Where a heading ends in what a sender sent from its beginning.
LEMMA FirstEnd ==
    ASSUME NEW w \in Seq(Units), NEW h \in Nat \ {0}, 
           \A n \in 1..Len(w) : HeadingEnd(w[n]) <=> n = h
    PROVE  /\ Has(w, HeadingEnd) <=> h <= Len(w)
           /\ h <= Len(w) => PosEndHeading(w) = h
<1>1. Len(w) \in Nat /\ DOMAIN w = 1..Len(w)
  OBVIOUS
<1>2. Has(w, HeadingEnd) <=> \E n \in 1..Len(w) : HeadingEnd(w[n])
  BY <1>1 DEF Has
<1>3. Has(w, HeadingEnd) <=> h \in 1..Len(w)
  BY <1>2
<1>4. h \in 1..Len(w) <=> h <= Len(w)
  BY <1>1
<1>5. ASSUME h <= Len(w) PROVE PosEndHeading(w) = h
  <2>1. h \in 1..Len(w)
    BY <1>4, <1>5
  <2> DEFINE P(i) == HeadingEnd(w[i]) /\ \A j \in 1..(i - 1) : ~HeadingEnd(w[j])
  <2>2. P(h)
    <3>1. \A j \in 1..(h - 1) : j \in 1..Len(w) /\ j # h
      BY <1>1, <2>1
    <3> QED  BY <2>1, <3>1
  <2>3. \A i \in 1..Len(w) : P(i) => i = h
    OBVIOUS
  <2>4. PosEndHeading(w) = CHOOSE i \in 1..Len(w) : P(i)
    BY <1>1, Zenon DEF PosEndHeading
  <2> HIDE DEF P
  <2> QED  BY <2>1, <2>2, <2>3, <2>4
<1> QED  BY <1>3, <1>4, <1>5

\* So it is for a request, as long as no second one follows,
LEMMA RequestHeadingEnd ==
    ASSUME IInv, NEW k \in Nat, k <= RequestLength
    PROVE  LET w == Run("user", 0, k)
           IN  /\ Has(w, HeadingEnd) <=> ReqHead <= k
               /\ ReqHead <= k => PosEndHeading(w) = ReqHead
<1> DEFINE w == Run("user", 0, k)
<1>1. 0 <= k /\ k - 0 = k
  OBVIOUS
<1>2. w \in Seq(Units) /\ Len(w) = k /\ \A n \in 1..k : w[n] = <<"user", 0 + n>>
  BY <1>1, RunFacts
<1> HIDE DEF w
<1>3. \A n \in 1..k : HeadingEnd(w[n]) <=> n = ReqHead
  <2> SUFFICES ASSUME NEW n \in 1..k PROVE HeadingEnd(w[n]) <=> n = ReqHead
    OBVIOUS
  <2>1. w[n] = <<"user", n>>
    BY <1>2
  <2>2. n # RequestLength + ReqHead
    BY LengthTypes
  <2> QED  BY <2>1, <2>2 DEF HeadingEnd
<1> QED
  BY <1>2, <1>3, FirstEnd, LengthTypes DEF w

\* and for a response.
LEMMA ResponseHeadingEnd ==
    ASSUME IInv, NEW k \in Nat
    PROVE  LET w == Run("origin", 0, k)
           IN  /\ Has(w, HeadingEnd) <=> RespHead <= k
               /\ RespHead <= k => PosEndHeading(w) = RespHead /\ w[RespHead][1] = "origin"
<1> DEFINE w == Run("origin", 0, k)
<1>1. 0 <= k /\ k - 0 = k
  OBVIOUS
<1>2. w \in Seq(Units) /\ Len(w) = k /\ \A n \in 1..k : w[n] = <<"origin", 0 + n>>
  BY <1>1, RunFacts
<1> HIDE DEF w
<1>3. \A n \in 1..k : HeadingEnd(w[n]) <=> n = RespHead
  <2> SUFFICES ASSUME NEW n \in 1..k PROVE HeadingEnd(w[n]) <=> n = RespHead
    OBVIOUS
  <2>1. w[n] = <<"origin", n>>
    BY <1>2
  <2> QED  BY <2>1 DEF HeadingEnd
<1>4. RespHead <= k => w[RespHead][1] = "origin"
  <2>1. RespHead <= k => RespHead \in 1..k
    BY HeadAssumption
  <2> QED  BY <1>2, <2>1
<1>5. Len(w) = k /\ RespHead \in Nat \ {0}
  BY <1>2, HeadAssumption
<1>6. /\ Has(w, HeadingEnd) <=> RespHead <= Len(w)
      /\ RespHead <= Len(w) => PosEndHeading(w) = RespHead
  BY <1>2, <1>3, <1>5, FirstEnd
<1> QED
  BY <1>4, <1>5, <1>6 DEF w

-----------------------------------------------------------------------------
(* Steps that move no data, and deletions.                                 *)

\* Steps that move neither data nor the buffer.
LEMMA StreamsStand ==
    ASSUME StreamInv,
           UNCHANGED <<b, elem, request, response, userRead, originRead, toUser, toOrigin>>,
           ServerListed' => ServerListed,
           userClosed => userClosed', originClosed => originClosed',
           originSent' <= ResponseLength, Asks /\ ServerListed => originSent' = 0,
           pc' = "connect" /\ b.readyConnect => Asks,
           RejectedSilent'
    PROVE  StreamInv'
<1>1. RequestLength' = RequestLength /\ ResponseLength' = ResponseLength
      /\ Asks' = Asks /\ Asking' = Asking
  BY DEF RequestLength, ResponseLength, Asks, Asking
<1>2. RequestHeld'
  BY <1>1 DEF StreamInv, RequestHeld
<1>3. RequestSent'
  BY <1>1 DEF StreamInv, RequestSent
<1>4. ResponseStreams'
  BY <1>1 DEF StreamInv, ResponseStreams
<1>5. Answering'
  BY <1>1 DEF StreamInv, Answering
<1>6. ElementStreams'
  BY <1>1 DEF StreamInv, ElementStreams
<1> QED
  BY <1>2, <1>3, <1>4, <1>5, <1>6 DEF StreamInv

\* The start of the thread,
LEMMA StartStreams ==
    ASSUME OrderlyPeers, IInv, StreamInv, StartServer
    PROVE  StreamInv'
<1>1. /\ UNCHANGED <<b, elem, request, response, userRead, originRead, toUser, toOrigin>>
      /\ UNCHANGED <<events, revents, userClosed, originClosed, originSent>>
      /\ pc' # "connect" /\ list' \in {list, <<"user">>}
  BY DEF StartServer, ConnectSocket, AcceptNewClientSock, AcceptFails, CreateThread,
         StartingMethodForThread, beforeThread, links, script, user, origin
<1>2. ServerListed' => ServerListed
  BY <1>1, ListFacts DEF ServerListed
<1>3. RejectedSilent'
  BY <1>1 DEF StreamInv, RejectedSilent
<1> QED
  BY <1>1, <1>2, <1>3, StreamsStand DEF StreamInv, ResponseStreams, RequestSent

\* what the peers do: an orderly origin sends nothing before the request is out,
LEMMA PeersStreams ==
    ASSUME OrderlyPeers, IInv, StreamInv, Peers
    PROVE  StreamInv'
<1>1. /\ UNCHANGED <<b, elem, request, response, userRead, originRead, toUser, toOrigin>>
      /\ UNCHANGED <<pc, events, revents, list>>
  BY DEF Peers, UserSends, UserCloses, OriginSends, OriginCloses, links, script, user, origin
<1>2. ServerListed' = ServerListed
  BY <1>1 DEF ServerListed
<1>3. RejectedSilent'
  BY <1>1 DEF StreamInv, RejectedSilent
<1>4. (userClosed => userClosed') /\ (originClosed => originClosed')
  BY DEF Peers, UserSends, UserCloses, OriginSends, OriginCloses, user, origin
<1>5. originSent' <= ResponseLength /\ (Asks /\ ServerListed => originSent' = 0)
  <2>1. CASE OriginSends
    <3>1. /\ Len(toOrigin) >= RequestLength
          /\ originSent < ResponseLength /\ originSent' = originSent + 1
      BY <2>1 DEF OriginSends, OrderlyPeers
    <3>2. ~(Len(toOrigin) < RequestLength)
      <4>1. Len(toOrigin) \in Nat /\ RequestLength \in Nat
        BY LengthTypes DEF IInv, TypeOK
      <4> QED  BY <3>1, <4>1
    <3>3. ~(Asks /\ ServerListed)
      BY <3>2 DEF StreamInv, RequestSent
    <3>4. originSent \in Nat /\ ResponseLength \in Nat
      BY LengthTypes DEF IInv, TypeOK
    <3> QED  BY <3>1, <3>3, <3>4
  <2>2. CASE ~OriginSends
    <3>1. originSent' = originSent
      BY <2>2 DEF Peers, UserSends, UserCloses, OriginCloses, origin
    <3> QED  BY <3>1 DEF StreamInv, ResponseStreams, RequestSent
  <2> QED  BY <2>1, <2>2
<1> QED
  BY <1>1, <1>2, <1>3, <1>4, <1>5, StreamsStand DEF StreamInv, RequestSent

\* and poll.
LEMMA PollStreams ==
    ASSUME OrderlyPeers, IInv, StreamInv, Poll \/ PollError \/ Finish
    PROVE  StreamInv'
<1>1. /\ UNCHANGED <<b, elem, request, response, userRead, originRead, toUser, toOrigin>>
      /\ UNCHANGED <<events, list, userClosed, originClosed, originSent>>
      /\ pc' # "connect"
  BY DEF Poll, PollWith, PollError, Finish, links, script, user, origin
<1>2. ServerListed' = ServerListed
  BY <1>1 DEF ServerListed
<1>3. RejectedSilent'
  <2>1. revents' = revents \/ revents'["user"] \subseteq events["user"]
    BY DEF Poll, PollWith, PollError, Finish, SaveResultPollSet, Clients
  <2> QED  BY <1>1, <2>1 DEF StreamInv, RejectedSilent
<1> QED
  BY <1>1, <1>2, <1>3, StreamsStand DEF StreamInv, ResponseStreams, RequestSent

\* The steps of an iteration that neither read nor write.
LEMMA MoveStreams ==
    ASSUME OrderlyPeers, IInv, StreamInv,
           EventNone \/ ReadError \/ NoConnect \/ CheckGoesOn \/ SendNothing \/ SendIdle
    PROVE  StreamInv'
<1>1. /\ UNCHANGED <<b, elem, request, response, userRead, originRead, toUser, toOrigin>>
      /\ UNCHANGED <<list, userClosed, originClosed, originSent>>
      /\ pc' # "connect"
  BY DEF EventNone, ReadError, NoConnect, CheckGoesOn, SendNothing, SendIdle, Advance,
         links, script, user, origin
<1>2. ServerListed' = ServerListed
  BY <1>1 DEF ServerListed
<1>3. RejectedSilent'
  <2>1. /\ events'["user"] \in {events["user"], {"rdhup"}}
        /\ revents'["user"] \in {revents["user"], {}}
    <3>1. events \in [Clients -> SUBSET AllEvents] /\ revents \in [Clients -> SUBSET AllEvents]
      BY DEF IInv, TypeOK
    <3> QED
      BY <3>1 DEF EventNone, ReadError, NoConnect, CheckGoesOn, SendNothing, SendIdle, Clients
  <2> QED  BY <1>1, <2>1 DEF StreamInv, RejectedSilent
<1> QED
  BY <1>1, <1>2, <1>3, StreamsStand DEF StreamInv, ResponseStreams, RequestSent

\* A connection begins with nothing sent and nothing read.
LEMMA ConnectStreams ==
    ASSUME OrderlyPeers, IInv, StreamInv, Connect
    PROVE  StreamInv'
<1>1. /\ b' = [b EXCEPT !.readyConnect = FALSE, !.serverConnect = TRUE]
      /\ events'["user"] = events["user"] /\ revents'["user"] = revents["user"]
      /\ originSent' = 0 /\ originRead' = 0 /\ originClosed' = FALSE /\ toOrigin' = <<>>
      /\ pc = "connect" /\ pc' = "check" /\ b.readyConnect
      /\ UNCHANGED <<elem, request, response, userRead, userClosed, toUser>>
  BY DEF Connect, ConnectToClient, script, user, IInv, TypeOK, Clients
<1>2. /\ b'.statusClient = b.statusClient /\ b'.statusServer = b.statusServer
      /\ b'.clientConnect = b.clientConnect /\ b'.buf = b.buf
      /\ b'.ready = b.ready /\ b'.endSend = b.endSend /\ b'.lengthBody = b.lengthBody
      /\ b'.getCash = b.getCash /\ b'.addData = b.addData /\ b'.haveLength = b.haveLength
      /\ b'.readyConnect = FALSE
  BY <1>1 DEF IInv, TypeOK, BufferFields
<1>3. RequestLength' = RequestLength /\ ResponseLength' = ResponseLength
      /\ Asks' = Asks /\ Asking' = Asking
  BY <1>1, <1>2 DEF RequestLength, ResponseLength, Asks, Asking
<1>4. /\ Asks /\ b.statusServer \in {"READ_REQUEST", "END_WORK"} /\ ~b.addData
      /\ Len(b.buf) = userRead /\ toUser = <<>>
  BY <1>1 DEF StreamInv, RequestSent, RequestHeld
<1>5. RequestHeld'
  BY <1>1, <1>2, <1>3, <1>4 DEF StreamInv, RequestHeld
<1>6. RequestSent'
  <2>1. Len(toOrigin') = 0
    BY <1>1, ListFacts
  <2>2. toOrigin' = Run("user", 0, Len(toOrigin'))
    <3>1. Run("user", 0, 0) = <<>>
      BY RunEmpty
    <3> QED  BY <1>1, <2>1, <3>1
  <2>3. Len(toOrigin') = userRead - Len(b.buf) /\ Len(toOrigin') < RequestLength
    <3>1. userRead \in Nat /\ RequestLength \in Nat /\ RequestLength > 0
      BY LengthTypes DEF IInv, TypeOK
    <3> QED  BY <1>4, <2>1, <3>1
  <2>4. Len(toOrigin') <= userRead - Len(b.buf)
    BY <2>1, <2>3
  <2> QED  BY <1>1, <1>2, <1>3, <2>2, <2>3, <2>4 DEF RequestSent
<1>7. ResponseStreams'
  <2>1. 0 <= ResponseLength
    BY LengthTypes
  <2>2. b'.statusClient # "READ_RESPONSE"
    BY <1>2, <1>4 DEF Asks
  <2> QED  BY <1>1, <1>3, <2>1, <2>2 DEF StreamInv, ResponseStreams
<1>8. RejectedSilent'
  BY <1>1 DEF StreamInv, RejectedSilent
<1>9. Answering'
  <2>1. b'.statusClient # "END_WORK"
    BY <1>2, <1>4 DEF Asks
  <2> QED  BY <1>2, <1>4, <2>1 DEF StreamInv, Answering
<1>10. ElementStreams'
  BY <1>1, <1>2, <1>3, <1>4 DEF StreamInv, ElementStreams
<1> QED
  BY <1>5, <1>6, <1>7, <1>8, <1>9, <1>10 DEF StreamInv

\* Without its server an exchange has what was read so far;
LEMMA DeleteServerStreams ==
    ASSUME IInv, StreamInv, ServerListed, DeleteServer, pc' # "connect",
           UNCHANGED <<revents, request, response>>,
           UNCHANGED <<userRead, userClosed, toUser,
                       originSent, originRead, originClosed, toOrigin>>
    PROVE  StreamInv'
<1>1. ~ServerListed'
  BY DeletedServer, ListFacts DEF ServerListed
<1>2. /\ b'.statusClient = b.statusClient /\ b'.statusServer = "END_WORK"
      /\ b'.clientConnect = b.clientConnect /\ b'.readyConnect = b.readyConnect
      /\ b'.getCash = b.getCash /\ b'.addData = b.addData /\ b'.buf = b.buf
  BY DeletedServer
<1>3. b'.endSend = b.endSend /\ b'.lengthBody = b.lengthBody
  BY DEF DeleteServer, IInv, TypeOK, BufferFields
<1>4. elem'.content = elem.content /\ elem'.ended = elem.ended
  BY DEF DeleteServer, IInv, TypeOK, Elements
<1>5. RequestLength' = RequestLength /\ ResponseLength' = ResponseLength
      /\ Asks' = Asks /\ Asking' = Asking
  BY <1>2 DEF RequestLength, ResponseLength, Asks, Asking
<1>6. request.kind # "bad"
  BY DEF IInv, StatusSound
<1>7. RequestHeld'
  BY <1>2, <1>3, <1>5 DEF StreamInv, RequestHeld
<1>8. RequestSent'
  BY <1>1, <1>2 DEF StreamInv, RequestSent
<1>9. ResponseStreams'
  BY <1>2, <1>5 DEF StreamInv, ResponseStreams
<1>10. RejectedSilent'
  BY <1>6 DEF RejectedSilent
<1>11. Answering'
  BY <1>1, <1>2 DEF StreamInv, Answering
<1>12. ElementStreams'
  BY <1>2, <1>4, <1>5 DEF StreamInv, ElementStreams
<1> QED
  BY <1>7, <1>8, <1>9, <1>10, <1>11, <1>12 DEF StreamInv

\* without its user only a cached response goes on.
LEMMA DeleteUserStreams ==
    ASSUME IInv, StreamInv, UserListed, DeleteUser, pc' # "connect",
           UNCHANGED <<revents, request, response>>,
           UNCHANGED <<userRead, userClosed, toUser,
                       originSent, originRead, originClosed, toOrigin>>
    PROVE  StreamInv'
<1>1. /\ events' = events /\ elem' = elem
      /\ b'.statusClient = "END_WORK" /\ b'.addData = b.addData
      /\ \/ b'.statusServer = "END_WORK"
         \/ b'.statusServer = b.statusServer /\ ServerListed' = ServerListed
  BY DeletedUser
<1>2. b'.haveLength = b.haveLength /\ b'.lengthBody = b.lengthBody
  BY DEF DeleteUser, IInv, TypeOK, BufferFields
<1>3. RequestLength' = RequestLength /\ ResponseLength' = ResponseLength /\ ~Asks'
  BY <1>1 DEF RequestLength, ResponseLength, Asks
<1>4. ServerListed /\ ~b.addData => b'.statusServer = "END_WORK" /\ ~ServerListed'
  <2> SUFFICES ASSUME ServerListed, ~b.addData
               PROVE  b'.statusServer = "END_WORK" /\ ~ServerListed'
    OBVIOUS
  <2>1. list = <<"server", "user">> /\ pair
    BY ListFacts DEF UserListed, ServerListed, IInv, LinksSound
  <2>2. b'.statusServer = "END_WORK"
    BY <2>1 DEF DeleteUser, IInv, TypeOK, BufferFields
  <2>3. list' = Erase(Erase(list, "server"), "user")
    BY <2>1 DEF DeleteUser
  <2>4. list' = <<>>
    BY <2>1, <2>3, EraseFacts
  <2> QED  BY <2>2, <2>4, ListFacts DEF ServerListed
<1>5. ServerListed' => ServerListed
  BY DeletedUser, ListFacts DEF ServerListed
<1>6. b'.statusServer # "END_WORK" => b'.statusServer = b.statusServer
  BY <1>1
<1>7. RequestHeld'
  BY <1>3 DEF RequestHeld
<1>8. RequestSent'
  BY <1>3 DEF StreamInv, RequestSent
<1>9. ResponseStreams'
  BY <1>1, <1>3 DEF StreamInv, ResponseStreams
<1>10. RejectedSilent'
  BY <1>1 DEF StreamInv, RejectedSilent
<1>11. Answering'
  <2>1. b'.statusServer # "WRITE_RESPONSE_HEADING"
    BY <1>4, <1>6 DEF StreamInv, Answering, IInv, StatusSound
  <2>2. b'.statusServer \in {"WRITE_RESPONSE_HEADING", "WRITE_RESPONSE_BODY"} =>
          userRead' = RequestLength'
    BY <1>3, <1>6 DEF StreamInv, Answering
  <2>3. ServerListed' => b'.statusServer # "READ_REQUEST"
    BY <1>4, <1>5, <1>6 DEF StreamInv, ElementStreams
  <2> QED  BY <1>1, <2>1, <2>2, <2>3 DEF Answering
<1>12. ElementStreams'
  BY <1>1, <1>2, <1>3, <1>6 DEF StreamInv, ElementStreams
<1> QED
  BY <1>7, <1>8, <1>9, <1>10, <1>11, <1>12 DEF StreamInv

\* So a deletion in the loop keeps the streams,
LEMMA DeleteStreams ==
    ASSUME IInv, StreamInv, pc \in {"event", "check", "sent"}, Delete(list[it]),
           UNCHANGED <<revents, user, origin>>
    PROVE  StreamInv'
<1>1. it \in DOMAIN list /\ list \in Lists
  BY DEF IInv, ListSound, Iterating
<1>2. /\ UNCHANGED <<revents, request, response>>
      /\ UNCHANGED <<userRead, userClosed, toUser, originSent, originRead, originClosed, toOrigin>>
      /\ pc' # "connect"
  BY DEF Delete, AdvanceErased, script, user, origin
<1>3. CASE list[it] = "server"
  <2>1. DeleteServer /\ ServerListed
    BY <1>1, <1>3, ListFacts DEF Delete, Lists, ServerListed
  <2> QED  BY <1>2, <2>1, DeleteServerStreams
<1>4. CASE list[it] # "server"
  <2>1. DeleteUser /\ UserListed
    BY <1>1, <1>4, ListFacts DEF Delete, Lists, UserListed
  <2> QED  BY <1>2, <2>1, DeleteUserStreams
<1> QED  BY <1>3, <1>4

\* An orderly origin does not speak while something of the request is in the buffer, so
\* nothing is connected but the first server.
LEMMA ConnectAlone ==
    ASSUME IInv, StreamInv, pc = "connect", b.readyConnect
    PROVE  list = <<"user">>
<1>1. list = <<"user">> \/ (ServerListed /\ SpokeFirst)
  BY DEF IInv, StatusSound
<1>2. ServerListed => originSent = 0
  BY DEF StreamInv, RequestSent
<1> QED  BY <1>1, <1>2 DEF SpokeFirst

\* and the last one of the thread.
LEMMA LastDeletionStreams ==
    ASSUME IInv, StreamInv, ConnectFails \/ FromCash
    PROVE  StreamInv'
<1>1. /\ pc \in {"connect", "fromCash"} /\ pc' = "exit"
      /\ UNCHANGED <<revents, request, response>>
      /\ UNCHANGED <<userRead, userClosed, toUser, originSent, originRead, originClosed, toOrigin>>
  BY DEF ConnectFails, FromCash, script, user, origin
<1>2. UserListed /\ DeleteUser
  <2>1. CASE ConnectFails
    <3>1. list = <<"user">> /\ it \in DOMAIN list
      BY <2>1, ConnectAlone DEF ConnectFails, IInv, ListSound, Iterating
    <3> QED  BY <2>1, <3>1, ListFacts DEF ConnectFails, Current, UserListed
  <2>2. CASE FromCash
    <3>1. list[it] = "user" /\ it \in DOMAIN list /\ list \in Lists
      BY <2>2 DEF FromCash, IInv, ListSound, Iterating
    <3> QED  BY <2>2, <3>1, ListFacts DEF FromCash, UserListed, Lists
  <2> QED  BY <2>1, <2>2
<1> QED  BY <1>1, <1>2, DeleteUserStreams

-----------------------------------------------------------------------------
(* Writes.                                                                 *)

\* What proofSend drops, and when the exchange turns: a request that is out, an
\* answer that is out.
LEMMA ProofSendTurns ==
    ASSUME NEW x \in BufferFields, ~x.error
    PROVE  LET r == ProofSend(x)
           IN  /\ r.buf = SubSeq(x.buf, Len(Sent(x)) + 1, Len(x.buf))
               /\ r.lengthBody = x.lengthBody /\ r.haveLength = x.haveLength
               /\ \/ /\ r.statusClient = x.statusClient /\ r.statusServer = x.statusServer
                     /\ r.endSend = x.endSend
                     /\ x.endSend /\ x.statusServer = "READ_REQUEST" => r.buf # <<>>
                  \/ /\ x.endSend /\ x.statusServer = "READ_REQUEST" /\ r.buf = <<>>
                     /\ r.statusClient = "READ_RESPONSE"
                     /\ r.statusServer = "WRITE_RESPONSE_HEADING" /\ ~r.endSend /\ ~r.ready
                  \/ /\ x.statusClient = "READ_RESPONSE"
                     /\ r.statusClient = "END_WORK" /\ r.statusServer = "END_WORK"
<1> DEFINE r == ProofSend(x)
           left == SubSeq(x.buf, Len(Sent(x)) + 1, Len(x.buf))
           rest == [x EXCEPT !.buf = left]
<1>6. r = IF rest.buf # <<>> THEN rest
        ELSE IF ~x.endSend THEN [rest EXCEPT !.ready = FALSE]
        ELSE IF x.statusClient = "READ_RESPONSE" /\ x.error
          THEN [rest EXCEPT !.statusClient = "END_WORK", !.endSend = FALSE]
        ELSE IF x.statusServer = "READ_REQUEST"
          THEN [rest EXCEPT !.statusClient = "READ_RESPONSE",
                            !.statusServer = "WRITE_RESPONSE_HEADING",
                            !.endSend = FALSE, !.ready = FALSE]
        ELSE IF x.statusClient = "READ_RESPONSE"
          THEN [rest EXCEPT !.statusClient = "END_WORK", !.statusServer = "END_WORK",
                            !.ready = FALSE]
        ELSE [rest EXCEPT !.ready = FALSE]
  BY Zenon DEF ProofSend
<1>7. /\ rest.buf = left /\ rest.endSend = x.endSend
      /\ rest.lengthBody = x.lengthBody /\ rest.haveLength = x.haveLength
      /\ rest.statusClient = x.statusClient /\ rest.statusServer = x.statusServer
      /\ DOMAIN rest = DOMAIN x
  <2> HIDE DEF left
  <2> QED  BY DEF BufferFields
<1>8. {"buf", "endSend", "lengthBody", "haveLength", "statusClient", "statusServer", "ready"}
         \subseteq DOMAIN rest
  <2>1. {"buf", "endSend", "lengthBody", "haveLength", "statusClient", "statusServer", "ready"}
         \subseteq DOMAIN x
    BY DEF BufferFields
  <2> QED  BY <1>7, <2>1
<1> HIDE DEF rest, left
<1>9. CASE r = rest /\ (x.endSend /\ x.statusServer = "READ_REQUEST" => left # <<>>)
  BY <1>9, <1>7 DEF left
<1>10. CASE /\ r = [rest EXCEPT !.ready = FALSE]
            /\ x.endSend /\ x.statusServer = "READ_REQUEST" => left # <<>>
  <2>1. /\ r.buf = rest.buf /\ r.endSend = rest.endSend
        /\ r.lengthBody = rest.lengthBody /\ r.haveLength = rest.haveLength
        /\ r.statusClient = rest.statusClient /\ r.statusServer = rest.statusServer
    BY <1>10, <1>8
  <2> HIDE DEF r
  <2> QED  BY <1>7, <1>10, <2>1 DEF left, r
<1>11. CASE /\ x.endSend /\ x.statusServer = "READ_REQUEST" /\ left = <<>>
            /\ r = [rest EXCEPT !.statusClient = "READ_RESPONSE",
                            !.statusServer = "WRITE_RESPONSE_HEADING",
                            !.endSend = FALSE, !.ready = FALSE]
  <2>1. /\ r.buf = rest.buf /\ r.endSend = FALSE /\ r.ready = FALSE
        /\ r.lengthBody = rest.lengthBody /\ r.haveLength = rest.haveLength
        /\ r.statusClient = "READ_RESPONSE" /\ r.statusServer = "WRITE_RESPONSE_HEADING"
    BY <1>11, <1>8
  <2> HIDE DEF r
  <2> QED  BY <1>7, <1>11, <2>1 DEF left, r
<1>12. CASE /\ x.statusClient = "READ_RESPONSE"
            /\ r = [rest EXCEPT !.statusClient = "END_WORK", !.statusServer = "END_WORK",
                            !.ready = FALSE]
  <2>1. /\ r.buf = rest.buf
        /\ r.lengthBody = rest.lengthBody /\ r.haveLength = rest.haveLength
        /\ r.statusClient = "END_WORK" /\ r.statusServer = "END_WORK"
    BY <1>12, <1>8
  <2> HIDE DEF r
  <2> QED  BY <1>7, <1>12, <2>1 DEF left, r
<1> QED
  BY <1>6, <1>7, <1>9, <1>10, <1>11, <1>12, Zenon

\* A write to the server: the request, or what is there of it.
LEMMA SendToServerStreams ==
    ASSUME OrderlyPeers, IInv, StreamInv, SendSome, list[it] = "server"
    PROVE  StreamInv'
<1> DEFINE n == Len(Sent(b))
<1>1. /\ pc = "send" /\ b.ready /\ b.statusServer = "READ_REQUEST"
      /\ b' = ProofSend(b)
      /\ toOrigin' = (IF originClosed THEN toOrigin ELSE toOrigin \o Sent(b)) /\ toUser' = toUser
      /\ UNCHANGED <<list, elem, request, response, userSent, userRead, userClosed>>
      /\ UNCHANGED <<originSent, originRead, originClosed>>
  BY DEF SendSome, InWrite, Current, HasTurn, links, script
<1>2. ServerListed /\ ServerListed' /\ ~b.getCash /\ ~b.readyConnect
  <2>1. ServerListed  BY <1>1, InLoop
  <2> QED  BY <1>1, <2>1, InLoop DEF ServerListed
<1>3. b \in BufferFields /\ request.kind # "bad" /\ ~b.error
  BY <1>2 DEF IInv, TypeOK, StatusSound
<1>4. Asks
  <2>1. b.statusClient # "READ_RESPONSE"
    BY <1>1, <1>2, <1>3 DEF IInv, StatusSound
  <2>2. b.statusClient # "END_WORK"
    BY <1>1, <1>2 DEF StreamInv, Answering
  <2> QED  BY <1>3, <2>1, <2>2 DEF BufferFields, Asks
<1>5. /\ Len(b.buf) <= userRead /\ b.buf = Run("user", userRead - Len(b.buf), userRead)
      /\ b.endSend => userRead = RequestLength
      /\ ~Asking => /\ b.lengthBody = RequestLength - userRead
                    /\ userRead = RequestLength => b.endSend
      /\ ~b.addData /\ toUser = <<>>
      /\ originSent = 0
      /\ Len(toOrigin) <= userRead - Len(b.buf) /\ Len(toOrigin) < RequestLength
      /\ originClosed \/ Len(toOrigin) = userRead - Len(b.buf)
      /\ toOrigin = Run("user", 0, Len(toOrigin))
  BY <1>2, <1>4 DEF StreamInv, RequestHeld, RequestSent
<1>6. /\ userRead \in Nat /\ Len(b.buf) \in Nat /\ Len(toOrigin) \in Nat /\ RequestLength \in Nat
      /\ userRead <= RequestLength /\ originRead = 0
  <2>1. /\ userRead \in Nat /\ Len(b.buf) \in Nat /\ Len(toOrigin) \in Nat
        /\ originRead \in Nat /\ userSent \in Nat
    BY <1>3 DEF IInv, TypeOK, BufferFields
  <2>2. RequestLength \in Nat
    BY LengthTypes
  <2>3. originRead <= originSent /\ userRead <= userSent /\ userSent <= RequestLength + Extra
    BY DEF IInv, StatusSound
  <2>4. Extra = 0
    BY DEF OrderlyPeers
  <2> QED  BY <1>5, <2>1, <2>2, <2>3, <2>4
<1>7. /\ n \in Nat /\ n <= Len(b.buf)
      /\ Sent(b) = Run("user", userRead - Len(b.buf), (userRead - Len(b.buf)) + n)
      /\ SubSeq(b.buf, n + 1, Len(b.buf)) = Run("user", (userRead - Len(b.buf)) + n, userRead)
  <2> DEFINE i == userRead - Len(b.buf)
  <2>1. i \in Nat /\ i <= userRead
    BY <1>5, <1>6
  <2>2. b.buf = Run("user", i, userRead)
    BY <1>5
  <2>3. i + n <= userRead => n <= Len(b.buf) \/ n \notin Nat
    BY <1>6
  <2> HIDE DEF i
  <2>4. /\ n \in Nat /\ i + n <= userRead
        /\ Sent(b) = Run("user", i, i + n)
        /\ SubSeq(b.buf, n + 1, Len(b.buf)) = Run("user", i + n, userRead)
    BY <1>3, <1>6, <2>1, <2>2, RunSent
  <2> QED  BY <2>3, <2>4 DEF i
<1>8. /\ b'.buf = SubSeq(b.buf, n + 1, Len(b.buf))
      /\ b'.lengthBody = b.lengthBody /\ b'.haveLength = b.haveLength
      /\ \/ /\ b'.statusClient = b.statusClient /\ b'.statusServer = b.statusServer
            /\ b'.endSend = b.endSend
            /\ b.endSend /\ b.statusServer = "READ_REQUEST" => b'.buf # <<>>
         \/ /\ b.endSend /\ b.statusServer = "READ_REQUEST" /\ b'.buf = <<>>
            /\ b'.statusClient = "READ_RESPONSE"
            /\ b'.statusServer = "WRITE_RESPONSE_HEADING" /\ ~b'.endSend /\ ~b'.ready
         \/ /\ b.statusClient = "READ_RESPONSE"
            /\ b'.statusClient = "END_WORK" /\ b'.statusServer = "END_WORK"
  BY <1>1, <1>3, ProofSendTurns, Zenon
<1>9. /\ b'.clientConnect = b.clientConnect /\ b'.readyConnect = b.readyConnect
      /\ b'.getCash = b.getCash /\ b'.addData = b.addData
  BY <1>1, <1>3, ProofSendFacts DEF Others
<1>10. /\ Len(b'.buf) = Len(b.buf) - n
       /\ b'.buf = Run("user", userRead - Len(b'.buf), userRead)
  <2> DEFINE i == (userRead - Len(b.buf)) + n
  <2>1. i \in Nat /\ i <= userRead /\ userRead - i = Len(b.buf) - n
    BY <1>5, <1>6, <1>7
  <2>2. b'.buf = Run("user", i, userRead)
    BY <1>7, <1>8
  <2> HIDE DEF i
  <2>3. Len(b'.buf) = userRead - i
    BY <1>6, <2>1, <2>2, RunFacts
  <2>4. userRead - Len(b'.buf) = i
    BY <1>6, <2>1, <2>3
  <2> QED  BY <2>1, <2>2, <2>3, <2>4
<1>11. /\ toOrigin' = Run("user", 0, Len(toOrigin'))
       /\ Len(toOrigin') \in Nat
       /\ Len(toOrigin') <= userRead - Len(b'.buf)
       /\ originClosed \/ Len(toOrigin') = userRead - Len(b'.buf)
  <2>1. CASE originClosed
    <3>1. toOrigin' = toOrigin
      BY <1>1, <2>1
    <3> QED  BY <1>5, <1>6, <1>7, <1>10, <2>1, <3>1
  <2>2. CASE ~originClosed
    <3> DEFINE i == userRead - Len(b.buf)
               j == i + n
    <3>1. /\ i \in Nat /\ j \in Nat /\ 0 <= i /\ i <= j /\ j - 0 = j /\ 0 <= j
          /\ userRead - Len(b'.buf) = j
      BY <1>5, <1>6, <1>7, <1>10
    <3>2. toOrigin' = Run("user", 0, i) \o Run("user", i, j)
      BY <1>1, <1>5, <1>7, <2>2
    <3> HIDE DEF i, j
    <3>3. toOrigin' = Run("user", 0, j)
      BY <3>1, <3>2, RunConcat
    <3>4. Len(toOrigin') = j
      BY <3>1, <3>3, RunFacts
    <3> QED  BY <3>1, <3>3, <3>4
  <2> QED  BY <2>1, <2>2
<1>12. RequestLength' = RequestLength /\ ResponseLength' = ResponseLength
  BY <1>1 DEF RequestLength, ResponseLength
<1>13. RejectedSilent'
  BY <1>1, <1>3 DEF RejectedSilent
<1>14. originSent' <= ResponseLength' /\ toUser' = Run("origin", 0, Len(toUser'))
  <2>1. toUser' = toUser /\ originSent' = originSent
    BY <1>1
  <2> QED  BY <1>12, <2>1 DEF StreamInv, ResponseStreams
<1>15. /\ elem'.content = Run("origin", 0, Len(elem'.content))
       /\ elem'.ended => Len(elem'.content) = ResponseLength'
       /\ ~b'.addData /\ pc' # "connect" /\ b'.clientConnect
  <2>1. b.clientConnect
    BY <1>4 DEF StreamInv, Answering, Asks
  <2>2. pc' # "connect"
    BY DEF SendSome, Advance
  <2> QED  BY <1>1, <1>5, <1>9, <1>12, <2>1, <2>2 DEF StreamInv, ElementStreams
<1>16. ASSUME b'.statusClient = b.statusClient, b'.statusServer = b.statusServer,
              b'.endSend = b.endSend, b.endSend => b'.buf # <<>>
       PROVE  StreamInv'
  <2>1. Asks' /\ (Asking' <=> Asking)
    BY <1>4, <1>16 DEF Asks, Asking
  <2>2. ~Asking
    <3> SUFFICES ASSUME Asking PROVE FALSE
      OBVIOUS
    <3>1. b.endSend /\ request.kind = "get"
      BY <1>2 DEF IInv, FirstTurn
    <3>2. RequestLength = ReqHead
      BY <3>1, LengthTypes
    <3>3. Len(b.buf) <= BufMax
      BY <1>5, <1>6, <3>2, HeadAssumption, PeerAssumption DEF OrderlyPeers
    <3>4. b'.statusClient = "READ_RESPONSE"
      BY <1>1, <1>3, <3>1, <3>3, ProofSendFacts DEF Asking
    <3> QED  BY <1>16, <3>4 DEF Asking
  <2>3. RequestHeld'
    <3>1. Len(b'.buf) <= userRead'
      BY <1>1, <1>5, <1>6, <1>7, <1>10
    <3> QED
      BY <1>1, <1>5, <1>8, <1>9, <1>10, <1>12, <1>16, <1>2, <2>1, <2>2, <3>1 DEF RequestHeld
  <2>4. Len(toOrigin') < RequestLength
    <3>1. CASE b.endSend
      <4>1. b'.buf \in Seq(Units)
        BY <1>1, <1>3, ProofSendFacts DEF BufferFields
      <4>2. Len(b'.buf) \in Nat /\ Len(b'.buf) # 0
        BY <1>16, <3>1, <4>1, EmptySeq
      <4> QED  BY <1>6, <1>11, <4>2
    <3>2. CASE ~b.endSend
      <4>1. userRead # RequestLength
        BY <1>5, <2>2, <3>2
      <4>2. Len(b'.buf) \in Nat
        BY <1>6, <1>7, <1>10
      <4> QED  BY <1>6, <1>11, <4>1, <4>2
    <3> QED  BY <3>1, <3>2
  <2>5. RequestSent'
    BY <1>1, <1>5, <1>11, <1>12, <1>15, <2>4 DEF RequestSent
  <2>6. ResponseStreams'
    <3>1. b'.statusClient # "READ_RESPONSE"
      BY <1>4, <1>16 DEF Asks
    <3> QED  BY <1>14, <3>1 DEF ResponseStreams
  <2>7. Answering'
    <3>1. b'.statusClient # "END_WORK" /\ b'.statusServer = "READ_REQUEST"
      BY <1>1, <1>4, <1>16 DEF Asks
    <3> QED  BY <1>15, <3>1 DEF Answering
  <2>8. ElementStreams'
    <3>1. b'.statusServer = "READ_REQUEST"
      BY <1>1, <1>16
    <3> QED  BY <1>15, <3>1 DEF ElementStreams
  <2> QED  BY <1>13, <2>3, <2>5, <2>6, <2>7, <2>8 DEF StreamInv
<1>17. ASSUME b.endSend, b'.buf = <<>>, b'.statusClient = "READ_RESPONSE",
              b'.statusServer = "WRITE_RESPONSE_HEADING", ~b'.endSend, ~b'.ready
       PROVE  StreamInv'
  <2>1. ~Asks'
    BY <1>17 DEF Asks
  <2>2. userRead' = RequestLength'
    BY <1>1, <1>5, <1>12, <1>17
  <2>3. RequestHeld'
    BY <2>1 DEF RequestHeld
  <2>4. RequestSent'
    BY <1>11, <1>15, <2>1 DEF RequestSent
  <2>5. ResponseStreams'
    <3>1. Len(b'.buf) = 0 /\ originRead' = 0 /\ Len(toUser') = 0
      BY <1>1, <1>5, <1>6, <1>17, ListFacts
    <3>2. b'.buf = Run("origin", 0, 0) /\ 0 - 0 = 0 /\ 0 <= 0
      BY <1>17, RunEmpty
    <3> QED  BY <1>14, <2>2, <3>1, <3>2 DEF ResponseStreams
  <2>6. Answering'
    <3>1. Len(b'.buf) = 0 /\ originRead' = 0
      BY <1>1, <1>6, <1>17, ListFacts
    <3> QED  BY <1>15, <1>17, <2>2, <3>1 DEF Answering
  <2>7. ElementStreams'
    BY <1>15, <1>17 DEF ElementStreams
  <2> QED  BY <1>13, <2>3, <2>4, <2>5, <2>6, <2>7 DEF StreamInv
<1>18. b.statusClient # "READ_RESPONSE"
  BY <1>4 DEF Asks
<1> QED
  BY <1>1, <1>8, <1>16, <1>17, <1>18

\* A write to the user: of the response.
LEMMA SendToUserStreams ==
    ASSUME OrderlyPeers, IInv, StreamInv, SendSome, list[it] = "user"
    PROVE  StreamInv'
<1> DEFINE n == Len(Sent(b))
<1>1. /\ pc = "send" /\ b.ready /\ b.statusClient = "READ_RESPONSE" /\ "out" \in revents["user"]
      /\ b' = ProofSend(b)
      /\ toUser' = (IF userClosed THEN toUser ELSE toUser \o Sent(b)) /\ toOrigin' = toOrigin
      /\ UNCHANGED <<list, elem, request, response, userSent, userRead, userClosed>>
      /\ UNCHANGED <<originSent, originRead, originClosed>>
  BY DEF SendSome, InWrite, Current, HasTurn, links, script
<1>2. ~b.getCash /\ request.kind # "bad" /\ b \in BufferFields /\ ~b.error
  <2>1. ~b.getCash
    BY <1>1, InLoop
  <2>2. request.kind # "bad"
    BY <1>1 DEF StreamInv, RejectedSilent
  <2> QED  BY <2>1, <2>2 DEF IInv, TypeOK, StatusSound
<1>3. b.statusServer \in {"WRITE_RESPONSE_BODY", "END_WORK"}
  <2>1. b.statusServer # "READ_REQUEST"
    BY <1>1, <1>2 DEF IInv, StatusSound
  <2>2. b.statusServer # "WRITE_RESPONSE_HEADING"
    BY <1>1 DEF StreamInv, Answering
  <2> QED  BY <1>2, <2>1, <2>2 DEF BufferFields
<1>4. /\ userRead = RequestLength /\ Len(b.buf) <= originRead
      /\ b.buf = Run("origin", originRead - Len(b.buf), originRead)
      /\ userClosed \/ Len(toUser) = originRead - Len(b.buf)
      /\ toUser = Run("origin", 0, Len(toUser)) /\ b.clientConnect
  BY <1>1, <1>2 DEF StreamInv, ResponseStreams, Answering
<1>5. originRead \in Nat /\ Len(b.buf) \in Nat /\ Len(toUser) \in Nat
  BY <1>2 DEF IInv, TypeOK, BufferFields
<1>6. /\ n \in Nat /\ n <= Len(b.buf)
      /\ Sent(b) = Run("origin", originRead - Len(b.buf), (originRead - Len(b.buf)) + n)
      /\ SubSeq(b.buf, n + 1, Len(b.buf)) = Run("origin", (originRead - Len(b.buf)) + n, originRead)
  <2> DEFINE i == originRead - Len(b.buf)
  <2>1. i \in Nat /\ i <= originRead
    BY <1>4, <1>5
  <2>2. b.buf = Run("origin", i, originRead)
    BY <1>4
  <2>3. i + n <= originRead => n <= Len(b.buf) \/ n \notin Nat
    BY <1>5
  <2> HIDE DEF i
  <2>4. /\ n \in Nat /\ i + n <= originRead
        /\ Sent(b) = Run("origin", i, i + n)
        /\ SubSeq(b.buf, n + 1, Len(b.buf)) = Run("origin", i + n, originRead)
    BY <1>2, <1>5, <2>1, <2>2, RunSent
  <2> QED  BY <2>3, <2>4 DEF i
<1>7. /\ b'.buf = SubSeq(b.buf, n + 1, Len(b.buf))
      /\ b'.lengthBody = b.lengthBody /\ b'.haveLength = b.haveLength
      /\ \/ b'.statusClient = b.statusClient /\ b'.statusServer = b.statusServer
         \/ b'.statusClient = "END_WORK" /\ b'.statusServer = "END_WORK"
  <2>1. b.statusServer # "READ_REQUEST"
    BY <1>3
  <2> QED  BY <1>1, <1>2, <2>1, ProofSendTurns, Zenon
<1>8. /\ b'.clientConnect = b.clientConnect /\ b'.readyConnect = b.readyConnect
      /\ b'.getCash = b.getCash /\ b'.addData = b.addData
  BY <1>1, <1>2, ProofSendFacts DEF Others
<1>9. /\ Len(b'.buf) = Len(b.buf) - n
      /\ b'.buf = Run("origin", originRead - Len(b'.buf), originRead)
  <2> DEFINE i == (originRead - Len(b.buf)) + n
  <2>1. i \in Nat /\ i <= originRead /\ originRead - i = Len(b.buf) - n
    BY <1>4, <1>5, <1>6
  <2>2. b'.buf = Run("origin", i, originRead)
    BY <1>6, <1>7
  <2> HIDE DEF i
  <2>3. Len(b'.buf) = originRead - i
    BY <1>5, <2>1, <2>2, RunFacts
  <2>4. originRead - Len(b'.buf) = i
    BY <1>5, <2>1, <2>3
  <2> QED  BY <2>1, <2>2, <2>3, <2>4
<1>10. /\ toUser' = Run("origin", 0, Len(toUser'))
       /\ userClosed \/ Len(toUser') = originRead - Len(b'.buf)
  <2>1. CASE userClosed
    <3>1. toUser' = toUser
      BY <1>1, <2>1
    <3> QED  BY <1>4, <2>1, <3>1
  <2>2. CASE ~userClosed
    <3> DEFINE i == originRead - Len(b.buf)
               j == i + n
    <3>1. i \in Nat /\ j \in Nat /\ 0 <= i /\ i <= j /\ j - 0 = j /\ 0 <= j
          /\ originRead - Len(b'.buf) = j
      BY <1>4, <1>5, <1>6, <1>9
    <3>2. toUser' = Run("origin", 0, i) \o Run("origin", i, j)
      BY <1>1, <1>4, <1>6, <2>2
    <3> HIDE DEF i, j
    <3>3. toUser' = Run("origin", 0, j)
      BY <3>1, <3>2, RunConcat
    <3>4. Len(toUser') = j
      BY <3>1, <3>3, RunFacts
    <3> QED  BY <3>1, <3>3, <3>4
  <2> QED  BY <2>1, <2>2
<1>11. RequestLength' = RequestLength /\ ResponseLength' = ResponseLength /\ ~Asks'
  BY <1>1, <1>7 DEF RequestLength, ResponseLength, Asks
<1>12. RequestHeld'
  BY <1>11 DEF RequestHeld
<1>13. RequestSent'
  <2>1. pc' # "connect"
    BY DEF SendSome, Advance
  <2> QED  BY <1>1, <1>11, <2>1 DEF StreamInv, RequestSent
<1>14. ResponseStreams'
  <2>1. Len(b'.buf) <= originRead
    BY <1>4, <1>5, <1>6, <1>9
  <2>2. originSent' <= ResponseLength'
    BY <1>1, <1>11 DEF StreamInv, ResponseStreams
  <2> QED  BY <1>1, <1>4, <1>9, <1>10, <1>11, <2>1, <2>2 DEF ResponseStreams
<1>15. RejectedSilent'
  BY <1>1, <1>2 DEF RejectedSilent
<1>16. Answering'
  <2>1. b'.statusServer \notin {"READ_REQUEST", "WRITE_RESPONSE_HEADING"}
    BY <1>3, <1>7
  <2> QED  BY <1>1, <1>4, <1>8, <1>11, <2>1 DEF Answering
<1>17. ElementStreams'
  BY <1>1, <1>7, <1>8, <1>11 DEF StreamInv, ElementStreams
<1> QED
  BY <1>12, <1>13, <1>14, <1>15, <1>16, <1>17 DEF StreamInv

-----------------------------------------------------------------------------
(* Reads.                                                                  *)

\* Whose data a read brings: the user's until its request is out, then the origin's.
LEMMA ReadAmounts ==
    ASSUME OrderlyPeers, IInv, StreamInv, Read
    PROVE  LET chunk == Chunk(list[it])
           IN  /\ chunk \in Seq(Units) /\ Len(chunk) \in Nat
               /\ userRead \in Nat /\ userRead' \in Nat /\ originRead \in Nat /\ originRead' \in Nat
               /\ userRead <= userRead' /\ userRead' <= RequestLength
               /\ originRead <= originRead' /\ originRead' <= ResponseLength
               /\ Asks => /\ chunk = Run("user", userRead, userRead')
                          /\ Len(chunk) = userRead' - userRead
               /\ userRead = RequestLength /\ ~Asks =>
                    /\ userRead' = userRead
                    /\ chunk = Run("origin", originRead, originRead')
                    /\ Len(chunk) = originRead' - originRead
<1> DEFINE c == list[it]
           chunk == Chunk(c)
           n == Len(chunk)
<1>1. /\ c \in Clients /\ (c = "server" => ServerListed)
  BY InLoop DEF Read
<1>2. /\ userRead \in Nat /\ userSent \in Nat /\ originRead \in Nat /\ originSent \in Nat
      /\ userRead <= userSent /\ originRead <= originSent
      /\ userSent <= RequestLength /\ originSent <= ResponseLength
      /\ RequestLength \in Nat /\ ResponseLength \in Nat
  <2>1. userSent <= RequestLength
    <3>1. userSent <= RequestLength + Extra /\ Extra = 0
      BY DEF IInv, StatusSound, OrderlyPeers
    <3> QED  BY <3>1, LengthTypes
  <2> QED  BY <2>1, LengthTypes DEF IInv, TypeOK, StatusSound, StreamInv, ResponseStreams
<1>3. chunk \in Seq(Units) /\ n \in Nat /\ n <= Pending(c)
  BY <1>1, ChunkFacts DEF IInv
<1>4. IF c = "user" THEN userRead' = userRead + n /\ originRead' = originRead
                    ELSE originRead' = originRead + n /\ userRead' = userRead
  BY <1>1 DEF Read, Current, Clients
<1>5. \A s \in {"user", "origin"} : \A i \in Nat : Run(s, i, i) = <<>>
  BY RunEmpty, Zenon
<1>6. CASE c = "user"
  <2>1. Pending(c) = userSent - userRead
    BY <1>6 DEF Pending
  <2>2. chunk = Run("user", userRead, userRead + n)
    BY <1>1, <1>6, ChunkRuns
  <2> HIDE DEF chunk, n, c
  <2>3. userRead' = userRead + n /\ originRead' = originRead
    BY <1>4, <1>6
  <2>4. userRead <= userRead' /\ userRead' <= RequestLength /\ n = userRead' - userRead
        /\ userRead' \in Nat /\ originRead' <= ResponseLength /\ originRead <= originRead'
    BY <1>2, <1>3, <2>1, <2>3
  <2>5. userRead = RequestLength => n = 0
    BY <1>2, <1>3, <2>1, <2>3, <2>4
  <2>6. userRead = RequestLength => /\ chunk = Run("origin", originRead, originRead')
                                    /\ userRead' = userRead /\ n = originRead' - originRead
    <3> SUFFICES ASSUME userRead = RequestLength
                 PROVE  /\ chunk = Run("origin", originRead, originRead')
                        /\ userRead' = userRead /\ n = originRead' - originRead
      OBVIOUS
    <3>1. userRead' = userRead /\ n = originRead' - originRead
      BY <1>2, <2>3, <2>5
    <3>2. chunk = Run("user", userRead, userRead)
      BY <2>2, <2>3, <3>1
    <3>3. chunk = Run("origin", originRead, originRead)
      BY <1>2, <1>5, <3>2
    <3> QED  BY <2>3, <3>1, <3>3
  <2> QED
    BY <1>2, <1>3, <2>2, <2>3, <2>4, <2>6 DEF n, chunk, c
<1>7. CASE c = "server"
  <2>1. Pending(c) = originSent - originRead
    BY <1>7 DEF Pending
  <2>2. chunk = Run("origin", originRead, originRead + n)
    BY <1>1, <1>7, ChunkRuns
  <2>3. Asks => originSent = 0
    BY <1>1, <1>7 DEF StreamInv, RequestSent
  <2> HIDE DEF chunk, n, c
  <2>4. originRead' = originRead + n /\ userRead' = userRead
    BY <1>4, <1>7
  <2>5. originRead <= originRead' /\ originRead' <= ResponseLength /\ n = originRead' - originRead
        /\ originRead' \in Nat /\ userRead' <= RequestLength /\ userRead <= userRead'
    BY <1>2, <1>3, <2>1, <2>4
  <2>6. Asks => chunk = Run("user", userRead, userRead') /\ n = userRead' - userRead
    <3> SUFFICES ASSUME Asks
                 PROVE  chunk = Run("user", userRead, userRead') /\ n = userRead' - userRead
      OBVIOUS
    <3>1. n = 0 /\ n = userRead' - userRead
      BY <1>2, <1>3, <2>1, <2>3, <2>4
    <3>2. originRead + n = originRead
      BY <1>2, <3>1
    <3>3. chunk = Run("origin", originRead, originRead)
      BY <2>2, <3>2
    <3>4. chunk = Run("user", userRead, userRead)
      BY <1>2, <1>5, <3>3
    <3> QED  BY <2>4, <3>1, <3>4
  <2> QED
    BY <1>2, <1>3, <2>2, <2>4, <2>5, <2>6 DEF n, chunk, c
<1> QED
  BY <1>1, <1>6, <1>7 DEF Clients

\* What wrightRequestHeading makes of the beginning of a request.
LEMMA RequestHeadingTaken ==
    ASSUME IInv, NEW x \in BufferFields, NEW hit \in BOOLEAN, NEW k \in Nat, k <= RequestLength,
           x.buf = Run("user", 0, k)
    PROVE  LET r == WrightRequestHeading(x, hit)
           IN  \/ r = x
               \/ r.statusClient = "READ_RESPONSE" /\ (request.kind = "bad" \/ r.getCash)
               \/ /\ k = RequestLength /\ r.endSend
                  /\ r.statusClient = x.statusClient /\ r.buf = x.buf
               \/ /\ r.statusClient = "WRITE_REQUEST_BODY" /\ r.buf = x.buf
                  /\ r.lengthBody = RequestLength - k
                  /\ r.endSend <=> x.endSend \/ k = RequestLength
<1> DEFINE r == WrightRequestHeading(x, hit)
<1>0. ReqHead \in Nat /\ RequestLength \in Nat /\ request \in Requests /\ response \in Responses
  BY LengthTypes DEF IInv, TypeOK
<1>1. /\ Has(x.buf, HeadingEnd) <=> ReqHead <= k
      /\ ReqHead <= k => PosEndHeading(x.buf) = ReqHead
  BY RequestHeadingEnd
<1>2. Len(x.buf) = k
  <2>1. 0 <= k /\ k - 0 = k
    OBVIOUS
  <2> QED  BY <2>1, RunFacts
<1>3. CASE ~Has(x.buf, HeadingEnd)
  BY <1>3 DEF WrightRequestHeading
<1>4. CASE Has(x.buf, HeadingEnd) /\ ParsingHeading = "bad"
  <2>1. r = RejectHeading(x)
    BY <1>4 DEF WrightRequestHeading
  <2>2. request.kind = "bad"
    BY <1>4 DEF ParsingHeading, HostFound
  <2> QED  BY <2>1, <2>2, RejectHeadingFacts
<1>5. CASE Has(x.buf, HeadingEnd) /\ ParsingHeading # "bad" /\ hit
  <2>1. r = [x EXCEPT !.getCash = TRUE, !.buf = <<>>, !.statusClient = "READ_RESPONSE"]
    BY <1>5 DEF WrightRequestHeading
  <2> QED  BY <2>1 DEF BufferFields
<1>6. CASE Has(x.buf, HeadingEnd) /\ ParsingHeading = "get" /\ ~hit
  <2>1. r = [x EXCEPT !.readyConnect = TRUE, !.ready = TRUE, !.endSend = TRUE]
    BY <1>6 DEF WrightRequestHeading
  <2>2. request.kind = "get"
    BY <1>6 DEF ParsingHeading
  <2>3. k = RequestLength
    BY <1>0, <1>1, <1>6, <2>2, LengthTypes
  <2> QED  BY <2>1, <2>3 DEF BufferFields
<1>7. CASE Has(x.buf, HeadingEnd) /\ ParsingHeading \notin {"bad", "get"} /\ ~hit
  <2> DEFINE left == FindContentLength("user").length - (Len(x.buf) - PosEndHeading(x.buf))
             end == x.endSend \/ left <= 0
  <2>1. r = [x EXCEPT !.readyConnect = TRUE, !.ready = TRUE,
                      !.statusClient = "WRITE_REQUEST_BODY",
                      !.lengthBody = left, !.endSend = end]
    BY <1>7 DEF WrightRequestHeading
  <2>2. FindContentLength("user").length = request.body /\ request.body \in Nat
    <3>1. FindContentLength("user") = [known |-> request.kind = "post", length |-> request.body]
      BY DEF FindContentLength
    <3>2. request.body \in Nat
      BY <1>0, RequestTypes
    <3> QED  BY <3>1, <3>2
  <2>3. left = RequestLength - k
    <3>1. left = request.body - (k - ReqHead)
      BY <1>1, <1>2, <1>7, <2>2
    <3> HIDE DEF left
    <3> QED  BY <1>0, <2>2, <3>1 DEF RequestLength
  <2>4. end <=> x.endSend \/ k = RequestLength
    <3>1. left <= 0 <=> k = RequestLength
      <4> HIDE DEF left
      <4> QED  BY <1>0, <2>3
    <3> QED  BY <3>1
  <2> HIDE DEF left, end
  <2>5. /\ r.statusClient = "WRITE_REQUEST_BODY" /\ r.buf = x.buf /\ r.lengthBody = left
        /\ r.endSend = end
    BY <2>1 DEF BufferFields
  <2> HIDE DEF r
  <2> QED  BY <2>3, <2>4, <2>5 DEF r
<1> QED  BY <1>3, <1>4, <1>5, <1>6, <1>7

\* What wrightResponseHeading makes of the beginning of a response: the countdown
\* is of what is still to come, and only an answer of known length is cached.
LEMMA ResponseHeadingTaken ==
    ASSUME IInv, NEW x \in BufferFields, NEW store \in BOOLEAN, NEW k \in Nat,
           x.buf = Run("origin", 0, k)
    PROVE  LET r == WrightResponseHeading(x, store)
           IN  \/ r = x
               \/ /\ r.statusServer = "WRITE_RESPONSE_BODY" /\ r.buf = x.buf
                  /\ r.haveLength => r.lengthBody = ResponseLength - k
                  /\ r.addData => x.addData \/ r.haveLength
<1> DEFINE r == WrightResponseHeading(x, store)
           pos == PosEndHeading(x.buf)
           announced == FindContentLength(x.buf[pos][1])
           known == announced.known
           left == announced.length - (Len(x.buf) - pos)
           length == IF announced.known THEN left ELSE x.lengthBody
           end == \/ x.endSend
                  \/ announced.known /\ left <= 0
                  \/ ~announced.known /\ Has(x.buf, BodyEnd)
           add == x.addData \/ Cached(x, store)
<1>1. CASE ~Has(x.buf, HeadingEnd)
  BY <1>1 DEF WrightResponseHeading
<1>2. CASE Has(x.buf, HeadingEnd)
  <2>1. r = [x EXCEPT !.addData = add, !.ready = TRUE,
                      !.statusServer = "WRITE_RESPONSE_BODY", !.haveLength = known,
                      !.lengthBody = length, !.endSend = end]
    BY <1>2, Zenon DEF WrightResponseHeading
  <2>2. pos = RespHead /\ x.buf[pos][1] = "origin"
    BY <1>2, ResponseHeadingEnd
  <2>3. announced = [known |-> response.known, length |-> response.body]
    BY <2>2 DEF FindContentLength
  <2>4. Len(x.buf) = k
    <3>1. 0 <= k /\ k - 0 = k
      OBVIOUS
    <3> QED  BY <3>1, RunFacts
  <2>5. RespHead \in Nat /\ response.body \in Nat
    BY RequestTypes, HeadAssumption DEF IInv, TypeOK
  <2>6. left = ResponseLength - k
    <3>1. left = response.body - (k - RespHead)
      BY <2>2, <2>3, <2>4
    <3> HIDE DEF left
    <3> QED  BY <2>5, <3>1 DEF ResponseLength
  <2>7. Cached(x, store) => known
    BY <2>2, Zenon DEF Cached
  <2>8. known => length = left
    OBVIOUS
  <2>9. add => x.addData \/ known
    BY <2>7
  <2> HIDE DEF known, length, end, add, left
  <2>10. /\ r.statusServer = "WRITE_RESPONSE_BODY" /\ r.buf = x.buf
         /\ r.haveLength = known /\ r.lengthBody = length /\ r.addData = add
    BY <2>1 DEF BufferFields
  <2> HIDE DEF r
  <2> QED  BY <2>6, <2>8, <2>9, <2>10 DEF r
<1> QED  BY <1>1, <1>2

\* The parts of a read that do not depend on what is read.
LEMMA ReadCommon ==
    ASSUME OrderlyPeers, IInv, StreamInv, Read
    PROVE  /\ UNCHANGED <<list, request, response, userClosed, toUser>>
           /\ UNCHANGED <<originSent, originClosed, toOrigin>>
           /\ ServerListed' = ServerListed
           /\ RequestLength' = RequestLength /\ ResponseLength' = ResponseLength
           /\ RejectedSilent'
           /\ elem' = ElementAfter(Chunk(list[it]))
           /\ \E hit, store \in BOOLEAN : b' = ReadFromSocket(Chunk(list[it]), hit, store)
           /\ b \in BufferFields /\ b' \in BufferFields
           /\ ~b.getCash /\ ~b.readyConnect
           /\ b'.clientConnect = b.clientConnect
           /\ b'.readyConnect => Asking /\ request.kind # "bad" /\ ~b'.getCash
           /\ ~Asking => LaterRead(b, b')
           /\ Asking => b'.statusServer = b.statusServer /\ b'.addData = b.addData
<1> DEFINE c == list[it]
           chunk == Chunk(c)
<1>1. /\ UNCHANGED <<list, request, response, userClosed, toUser>>
      /\ UNCHANGED <<originSent, originClosed, toOrigin>>
      /\ elem' = ElementAfter(chunk)
  BY DEF Read, Current, links, script
<1>2. PICK hit \in BOOLEAN, store \in BOOLEAN :
        /\ b' = ReadFromSocket(chunk, hit, store)
        /\ IF c = "user" /\ b'.getCash
             THEN pc' = "fromCash" /\ events' = events
             ELSE pc' = (IF b'.getCash THEN "astray" ELSE "connect") /\ events' = Rearm(c)
  BY DEF Read, Current
<1>3. c \in Clients /\ (c = "server" => ServerListed) /\ ~b.getCash /\ ~b.readyConnect
  BY InLoop DEF Read
<1>4. chunk \in Seq(Units)
  BY <1>3, ChunkFacts DEF IInv
<1>5. /\ ServerListed' = ServerListed
      /\ RequestLength' = RequestLength /\ ResponseLength' = ResponseLength
  BY <1>1 DEF ServerListed, RequestLength, ResponseLength
<1>6. RejectedSilent'
  <2> SUFFICES ASSUME request.kind = "bad"
               PROVE  "out" \notin events'["user"] /\ "out" \notin revents'["user"]
    BY <1>1 DEF RejectedSilent
  <2>1. c # "server" /\ ~pair
    BY <1>3, ListFacts DEF IInv, StatusSound, LinksSound, ServerListed
  <2>2. events' = events
    BY <1>2, <2>1 DEF Rearm
  <2>3. revents'["user"] \in {revents["user"], {}}
    BY DEF Read, IInv, TypeOK, Clients
  <2> QED  BY <2>2, <2>3 DEF StreamInv, RejectedSilent
<1>7. /\ b' \in BufferFields /\ b'.clientConnect = b.clientConnect
      /\ ~Asking => LaterRead(b, b')
      /\ Asking => /\ b'.readyConnect => request.kind # "bad"
                   /\ b'.getCash => ~b'.readyConnect
                   /\ b'.statusServer = b.statusServer /\ b'.addData = b.addData
  <2>1. Asking => ~b.error
    BY DEF IInv, StatusSound
  <2>2. Asking => b.statusServer # "WRITE_RESPONSE_BODY"
    BY DEF IInv, StatusSound
  <2> HIDE DEF chunk
  <2> QED  BY <1>2, <1>3, <1>4, <2>1, <2>2, ReadFromSocketFacts DEF IInv
<1>8. b'.readyConnect => Asking /\ request.kind # "bad" /\ ~b'.getCash
  BY <1>3, <1>7 DEF LaterRead
<1>9. b \in BufferFields
  BY DEF IInv, TypeOK
<1> QED
  BY <1>1, <1>2, <1>3, <1>5, <1>6, <1>7, <1>8, <1>9

\* A read of the request's heading.
LEMMA ReadAskingStreams ==
    ASSUME OrderlyPeers, IInv, StreamInv, Read, Asking
    PROVE  StreamInv'
<1> DEFINE chunk == Chunk(list[it])
           x == Taken(b, chunk)
<1>1. /\ UNCHANGED <<request, response, userClosed, toUser, originSent, originClosed, toOrigin>>
      /\ RequestLength' = RequestLength /\ ResponseLength' = ResponseLength
      /\ RejectedSilent'
      /\ b \in BufferFields /\ b' \in BufferFields /\ ~b.readyConnect
      /\ b'.clientConnect = b.clientConnect
      /\ b'.readyConnect => Asking /\ request.kind # "bad" /\ ~b'.getCash
      /\ b'.statusServer = b.statusServer /\ b'.addData = b.addData
  BY ReadCommon
<1>2. elem' = elem
  BY ReadCommon DEF ElementAfter, Asking
<1>3. Asks /\ b.statusServer \in {"READ_REQUEST", "END_WORK"}
  BY DEF Asks, Asking, IInv, StatusSound
<1>4. /\ Len(b.buf) = userRead /\ b.buf = Run("user", userRead - Len(b.buf), userRead)
      /\ b.endSend => userRead = RequestLength
      /\ ~b.addData /\ toUser = <<>>
  BY <1>3 DEF StreamInv, RequestHeld
<1>5. /\ chunk \in Seq(Units)
      /\ userRead \in Nat /\ userRead' \in Nat /\ RequestLength \in Nat
      /\ userRead <= userRead' /\ userRead' <= RequestLength
      /\ chunk = Run("user", userRead, userRead')
  BY <1>3, ReadAmounts, LengthTypes
<1>6. ~ServerListed /\ ~ServerListed'
  <2>1. ~ServerListed
    <3>1. ServerListed => /\ pc = "event" => it = 1 /\ ("in" \in revents["server"] =>
                                                        "rdhup" \in revents["server"])
      BY <1>3 DEF IInv, FirstTurn, StreamInv, RequestSent
    <3>2. ServerListed /\ it = 1 => list[it] = "server"
      BY InLoop DEF Read
    <3> QED  BY <3>1, <3>2 DEF Read, Current
  <2> QED  BY <2>1, ReadCommon
<1>7. /\ x \in BufferFields /\ x.buf = Run("user", 0, userRead')
      /\ x.statusClient = b.statusClient /\ x.endSend = b.endSend
  <2> HIDE DEF chunk
  <2>1. x.buf = b.buf \o chunk /\ x \in BufferFields /\ x.statusClient = b.statusClient
    BY <1>1, <1>3, <1>5, TakenFacts
  <2>2. x.endSend = b.endSend
    BY <1>1 DEF Taken, BufferFields
  <2>3. b.buf = Run("user", 0, userRead)
    <3>1. userRead - Len(b.buf) = 0
      BY <1>4, <1>5
    <3> QED  BY <1>4, <3>1
  <2>4. 0 <= userRead
    BY <1>5
  <2>5. b.buf \o chunk = Run("user", 0, userRead')
    <3>1. b.buf \o chunk = Run("user", 0, userRead) \o Run("user", userRead, userRead')
      BY <1>5, <2>3
    <3>2. 0 \in Nat /\ userRead \in Nat /\ userRead' \in Nat /\ userRead <= userRead'
      BY <1>5
    <3>3. Run("user", 0, userRead) \o Run("user", userRead, userRead') = Run("user", 0, userRead')
      BY <2>4, <3>2, RunConcat
    <3> QED  BY <3>1, <3>3, Zenon
  <2> QED  BY <2>1, <2>2, <2>5
<1>8. \/ b' = x
      \/ b'.statusClient = "READ_RESPONSE" /\ (request.kind = "bad" \/ b'.getCash)
      \/ /\ userRead' = RequestLength /\ b'.endSend
         /\ b'.statusClient = x.statusClient /\ b'.buf = x.buf
      \/ /\ b'.statusClient = "WRITE_REQUEST_BODY" /\ b'.buf = x.buf
         /\ b'.lengthBody = RequestLength - userRead'
         /\ b'.endSend <=> x.endSend \/ userRead' = RequestLength
  <2>1. PICK hit \in BOOLEAN : b' = WrightRequestHeading(x, hit)
    BY ReadCommon DEF ReadFromSocket, Asking
  <2> HIDE DEF x
  <2> QED  BY <1>5, <1>7, <2>1, RequestHeadingTaken
<1>9. Len(x.buf) = userRead' /\ x.buf = Run("user", userRead' - Len(x.buf), userRead')
      /\ Len(x.buf) <= userRead'
  <2>0. \A k \in Nat : 0 <= k /\ k - 0 = k
    OBVIOUS
  <2>1. 0 <= userRead' /\ userRead' - 0 = userRead'
    BY <1>5, <2>0, Zenon
  <2>2. Len(x.buf) = userRead'
    BY <1>5, <1>7, <2>1, RunFacts
  <2>3. userRead' - Len(x.buf) = 0 /\ Len(x.buf) <= userRead'
    BY <1>5, <2>2
  <2> QED  BY <1>7, <2>2, <2>3
<1>10. b.endSend => userRead' = RequestLength
  BY <1>4, <1>5
<1> HIDE DEF x
<1>11. RequestHeld'
  <2> SUFFICES ASSUME Asks' PROVE RequestHeld'
    BY DEF RequestHeld
  <2>1. CASE /\ b'.statusClient = x.statusClient /\ b'.buf = x.buf
             /\ (b'.endSend => userRead' = RequestLength)
    <3>1. Asking'
      BY <1>7, <2>1 DEF Asking
    <3> QED
      BY <1>1, <1>3, <1>4, <1>9, <2>1, <3>1 DEF RequestHeld
  <2>2. CASE /\ b'.statusClient = "WRITE_REQUEST_BODY" /\ b'.buf = x.buf
             /\ b'.lengthBody = RequestLength - userRead'
             /\ b'.endSend <=> x.endSend \/ userRead' = RequestLength
    <3>1. b'.endSend <=> userRead' = RequestLength
      BY <1>7, <1>10, <2>2
    <3> QED
      BY <1>1, <1>3, <1>4, <1>9, <2>2, <3>1 DEF RequestHeld
  <2>3. b'.statusClient # "READ_RESPONSE"
    BY DEF Asks
  <2> QED  BY <1>7, <1>8, <1>10, <2>1, <2>2, <2>3
<1>12. b'.statusClient # "END_WORK"
  BY <1>7, <1>8 DEF Asking
<1>13. RequestSent'
  <2>1. b'.readyConnect => Asks'
    BY <1>1, <1>7, <1>8 DEF Asks, Asking
  <2> QED  BY <1>1, <1>6, <2>1 DEF StreamInv, RequestSent
<1>14. ResponseStreams'
  <2>1. b'.statusClient = "READ_RESPONSE" => request.kind = "bad" \/ b'.getCash
    BY <1>7, <1>8 DEF Asking
  <2> QED  BY <1>1, <2>1 DEF StreamInv, ResponseStreams
<1>15. Answering'
  <2>1. b.clientConnect
    BY <1>3 DEF StreamInv, Answering, Asks
  <2> QED  BY <1>1, <1>3, <1>12, <2>1 DEF Answering
<1>16. ElementStreams'
  BY <1>1, <1>2, <1>3, <1>4 DEF StreamInv, ElementStreams
<1> QED
  BY <1>1, <1>11, <1>13, <1>14, <1>15, <1>16 DEF StreamInv

\* A read of the request's body.
LEMMA ReadRequestBodyStreams ==
    ASSUME OrderlyPeers, IInv, StreamInv, Read, b.statusClient = "WRITE_REQUEST_BODY"
    PROVE  StreamInv'
<1> DEFINE chunk == Chunk(list[it])
           n == Len(chunk)
           x == Taken(b, chunk)
<1>1. /\ UNCHANGED <<request, response, userClosed, toUser, originSent, originClosed, toOrigin>>
      /\ RequestLength' = RequestLength /\ ResponseLength' = ResponseLength
      /\ RejectedSilent' /\ ServerListed' = ServerListed
      /\ b \in BufferFields /\ b' \in BufferFields /\ ~b.readyConnect
      /\ b'.clientConnect = b.clientConnect /\ ~b'.readyConnect
  BY ReadCommon DEF Asking
<1>2. elem' = elem
  BY ReadCommon DEF ElementAfter
<1>3. Asks /\ ~Asking
  BY DEF Asks, Asking
<1>4. /\ Len(b.buf) <= userRead /\ b.buf = Run("user", userRead - Len(b.buf), userRead)
      /\ b.endSend => userRead = RequestLength
      /\ b.lengthBody = RequestLength - userRead
      /\ b.statusServer \in {"READ_REQUEST", "END_WORK"} /\ ~b.addData /\ toUser = <<>>
  BY <1>3 DEF StreamInv, RequestHeld
<1>5. /\ chunk \in Seq(Units) /\ n \in Nat
      /\ userRead \in Nat /\ userRead' \in Nat /\ RequestLength \in Nat
      /\ userRead <= userRead' /\ userRead' <= RequestLength
      /\ chunk = Run("user", userRead, userRead') /\ n = userRead' - userRead
      /\ Len(b.buf) \in Nat
  BY <1>1, <1>3, ReadAmounts, LengthTypes DEF BufferFields
<1> HIDE DEF n
<1>6. x = [b EXCEPT !.buf = b.buf \o chunk]
  BY <1>1, <1>4 DEF Taken, BufferFields
<1>7. b' = WrightRequestBody(x, n)
  BY ReadCommon DEF ReadFromSocket, n
<1> DEFINE left == x.lengthBody - n
           end == x.endSend \/ x.lengthBody - n <= 0
<1>8. b' = [x EXCEPT !.ready = TRUE, !.lengthBody = left, !.endSend = end]
  BY <1>7 DEF WrightRequestBody
<1>9. /\ x.lengthBody = b.lengthBody /\ x.endSend = b.endSend
      /\ x.statusClient = b.statusClient /\ x.statusServer = b.statusServer
      /\ x.addData = b.addData /\ x.buf = b.buf \o chunk /\ DOMAIN x = DOMAIN b
  <2> HIDE DEF chunk
  <2> QED  BY <1>1, <1>6 DEF BufferFields
<1>10. left = RequestLength - userRead'
  <2>1. left = b.lengthBody - n
    BY <1>9
  <2> HIDE DEF left
  <2> QED  BY <1>4, <1>5, <2>1
<1>11. end <=> userRead' = RequestLength
  <2>1. left <= 0 <=> userRead' = RequestLength
    <3> HIDE DEF left
    <3>1. \A k, m \in Nat : k <= m => (m - k <= 0 <=> k = m)
      OBVIOUS
    <3>2. RequestLength - userRead' <= 0 <=> userRead' = RequestLength
      BY <1>5, <3>1, Zenon
    <3> QED  BY <1>10, <3>2, Zenon
  <2>2. b.endSend => userRead' = RequestLength
    BY <1>4, <1>5
  <2> QED  BY <1>9, <2>1, <2>2
<1> HIDE DEF left, end
<1>12. /\ b'.buf = b.buf \o chunk /\ b'.lengthBody = left /\ b'.endSend = end
       /\ b'.statusClient = b.statusClient /\ b'.statusServer = b.statusServer
       /\ b'.addData = b.addData
  <2>1. {"buf", "lengthBody", "endSend", "statusClient", "statusServer", "addData"}
              \subseteq DOMAIN x
    BY <1>1, <1>9 DEF BufferFields
  <2> HIDE DEF x
  <2>2. /\ b'.buf = x.buf /\ b'.lengthBody = left /\ b'.endSend = end
        /\ b'.statusClient = x.statusClient /\ b'.statusServer = x.statusServer
        /\ b'.addData = x.addData
    BY <1>8, <2>1
  <2> QED  BY <1>9, <2>2
<1> HIDE DEF x, chunk
<1>13. /\ Len(b'.buf) = Len(b.buf) + n /\ Len(b'.buf) <= userRead'
       /\ userRead' - Len(b'.buf) = userRead - Len(b.buf)
       /\ b'.buf = Run("user", userRead' - Len(b'.buf), userRead')
  <2> DEFINE i == userRead - Len(b.buf)
  <2>1. i \in Nat /\ i <= userRead /\ i <= userRead' /\ userRead' - i = Len(b.buf) + n
    BY <1>4, <1>5
  <2>2. b'.buf = Run("user", i, userRead) \o Run("user", userRead, userRead')
    BY <1>4, <1>5, <1>12
  <2> HIDE DEF i
  <2>3. b'.buf = Run("user", i, userRead')
    <3>1. i \in Nat /\ userRead \in Nat /\ userRead' \in Nat /\ i <= userRead /\ userRead <= userRead'
      BY <1>5, <2>1
    <3>2. Run("user", i, userRead) \o Run("user", userRead, userRead') = Run("user", i, userRead')
      BY <3>1, RunConcat
    <3> QED  BY <2>2, <3>2
  <2>4. Len(b'.buf) = userRead' - i
    BY <1>5, <2>1, <2>3, RunFacts
  <2>5. userRead' - Len(b'.buf) = i /\ Len(b'.buf) <= userRead'
    <3>1. \A k, j \in Nat : k - (k - j) = j /\ k - j <= k
      OBVIOUS
    <3>2. userRead' - (userRead' - i) = i /\ userRead' - i <= userRead'
      BY <1>5, <2>1, <3>1, Zenon
    <3> QED  BY <2>4, <3>2, Zenon
  <2> QED  BY <2>1, <2>3, <2>4, <2>5 DEF i
<1>14. Asks' /\ ~Asking' /\ b'.statusClient = "WRITE_REQUEST_BODY"
  BY <1>12 DEF Asks, Asking
<1>15. RequestHeld'
  BY <1>1, <1>4, <1>10, <1>11, <1>12, <1>13, <1>14 DEF RequestHeld
<1>16. RequestSent'
  BY <1>1, <1>3, <1>13 DEF StreamInv, RequestSent
<1>17. ResponseStreams'
  BY <1>1, <1>14 DEF StreamInv, ResponseStreams
<1>18. Answering'
  <2>1. b.clientConnect
    BY <1>14 DEF StreamInv, Answering
  <2> QED  BY <1>1, <1>4, <1>12, <1>14, <2>1 DEF Answering
<1>19. ElementStreams'
  BY <1>1, <1>2, <1>4, <1>12 DEF StreamInv, ElementStreams
<1> QED
  BY <1>1, <1>15, <1>16, <1>17, <1>18, <1>19 DEF StreamInv

\* What a read adds to the buffer is what the response goes on with.
LEMMA AnswerGoesOn ==
    ASSUME OrderlyPeers, IInv, StreamInv, Read, ~Asks, ~Asks',
           b.statusClient = "READ_RESPONSE" => b'.buf = b.buf \o Chunk(list[it])
    PROVE  RequestHeld' /\ RequestSent' /\ ResponseStreams'
<1> DEFINE chunk == Chunk(list[it])
<1>1. /\ UNCHANGED <<request, response, userClosed, toUser, originSent, originClosed, toOrigin>>
      /\ RequestLength' = RequestLength /\ ResponseLength' = ResponseLength
      /\ b \in BufferFields /\ ~b.getCash /\ b'.statusClient = b.statusClient /\ ~b'.readyConnect
  BY ReadCommon DEF LaterRead, Asking, Asks
<1>2. RequestHeld'
  BY DEF RequestHeld
<1>3. RequestSent'
  BY <1>1 DEF StreamInv, RequestSent
<1>4. ResponseStreams'
  <2>1. CASE b.statusClient = "READ_RESPONSE" /\ request.kind # "bad"
    <3>1. /\ userRead = RequestLength /\ Len(b.buf) <= originRead
          /\ b.buf = Run("origin", originRead - Len(b.buf), originRead)
          /\ userClosed \/ Len(toUser) = originRead - Len(b.buf)
      BY <1>1, <2>1 DEF StreamInv, ResponseStreams
    <3>2. /\ originRead \in Nat /\ originRead' \in Nat /\ originRead <= originRead'
          /\ userRead' = userRead /\ chunk = Run("origin", originRead, originRead')
      BY <3>1, ReadAmounts
    <3> DEFINE i == originRead - Len(b.buf)
    <3>3. Len(b.buf) \in Nat
      BY <1>1 DEF BufferFields
    <3>4. b'.buf = Run("origin", i, originRead) \o Run("origin", originRead, originRead')
      BY <2>1, <3>1, <3>2
    <3>5. i \in Nat /\ i <= originRead
      <4> HIDE DEF chunk
      <4> QED  BY <3>1, <3>2, <3>3
    <3> HIDE DEF i, chunk
    <3>6. i <= originRead'
      <4>1. \A k, m, n \in Nat : k <= m /\ m <= n => k <= n
        OBVIOUS
      <4> QED  BY <3>2, <3>5, <4>1, Zenon
    <3>7. b'.buf = Run("origin", i, originRead')
      BY <3>2, <3>4, <3>5, RunConcat
    <3>8. Len(b'.buf) = originRead' - i
      BY <3>2, <3>5, <3>6, <3>7, RunFacts
    <3>9. originRead' - Len(b'.buf) = i /\ Len(b'.buf) <= originRead'
      <4>1. \A k, j \in Nat : k - (k - j) = j /\ k - j <= k
        OBVIOUS
      <4>2. originRead' - (originRead' - i) = i /\ originRead' - i <= originRead'
        BY <3>2, <3>5, <4>1, Zenon
      <4> QED  BY <3>8, <4>2, Zenon
    <3> QED
      BY <1>1, <3>1, <3>2, <3>7, <3>9 DEF StreamInv, ResponseStreams, i
  <2>2. CASE ~(b.statusClient = "READ_RESPONSE" /\ request.kind # "bad")
    BY <1>1, <2>2 DEF StreamInv, ResponseStreams
  <2> QED  BY <2>1, <2>2
<1> QED
  BY <1>2, <1>3, <1>4

\* A read of the response's heading.
LEMMA ReadResponseHeadingStreams ==
    ASSUME OrderlyPeers, IInv, StreamInv, Read, b.statusServer = "WRITE_RESPONSE_HEADING"
    PROVE  StreamInv'
<1> DEFINE chunk == Chunk(list[it])
           x == Taken(b, chunk)
<1>1. /\ b.statusClient = "READ_RESPONSE" /\ ~b.ready /\ ~b.endSend /\ ~b.addData
      /\ Len(b.buf) = originRead /\ userRead = RequestLength /\ b.clientConnect
  BY DEF StreamInv, Answering
<1>2. ~Asks /\ ~Asking /\ request.kind # "bad"
  BY <1>1 DEF Asks, Asking, IInv, StatusSound
<1>3. /\ ResponseLength' = ResponseLength /\ RequestLength' = RequestLength
      /\ RejectedSilent' /\ ServerListed' = ServerListed
      /\ b \in BufferFields /\ b' \in BufferFields /\ ~b.getCash
      /\ b'.clientConnect = b.clientConnect
      /\ b'.statusClient = b.statusClient
  BY <1>2, ReadCommon DEF LaterRead
<1>4. /\ chunk \in Seq(Units) /\ Len(chunk) \in Nat
      /\ originRead \in Nat /\ originRead' \in Nat /\ originRead <= originRead'
      /\ originRead' <= ResponseLength /\ ResponseLength \in Nat
      /\ userRead' = userRead /\ chunk = Run("origin", originRead, originRead')
  BY <1>1, <1>2, ReadAmounts, LengthTypes
<1>5. b.buf = Run("origin", 0, originRead)
  <2>1. b.buf = Run("origin", originRead - Len(b.buf), originRead)
    BY <1>1, <1>2, <1>3 DEF StreamInv, ResponseStreams
  <2>2. originRead - Len(b.buf) = 0
    <3>1. \A k \in Nat : k - k = 0
      OBVIOUS
    <3> QED  BY <1>1, <1>4, <3>1
  <2> QED  BY <2>1, <2>2
<1>6. x = [b EXCEPT !.buf = b.buf \o chunk]
  BY <1>1, <1>3 DEF Taken, BufferFields
<1>7. /\ x.buf = b.buf \o chunk /\ x.statusServer = b.statusServer
      /\ x.ready = b.ready /\ x.endSend = b.endSend /\ x.addData = b.addData
  <2> HIDE DEF chunk
  <2> QED  BY <1>3, <1>6 DEF BufferFields
<1>8. x \in BufferFields
  <2> HIDE DEF chunk
  <2> QED  BY <1>3, <1>4, TakenFacts
<1>9. b.buf \o chunk = Run("origin", 0, originRead') /\ Len(b.buf \o chunk) = originRead'
  <2>1. \A k \in Nat : 0 <= k /\ k - 0 = k
    OBVIOUS
  <2>2. 0 <= originRead /\ 0 <= originRead' /\ originRead' - 0 = originRead'
    BY <1>4, <2>1, Zenon
  <2>3. b.buf \o chunk = Run("origin", 0, originRead) \o Run("origin", originRead, originRead')
    BY <1>4, <1>5
  <2>4. b.buf \o chunk = Run("origin", 0, originRead')
    BY <1>4, <2>2, <2>3, RunConcat
  <2>5. Len(Run("origin", 0, originRead')) = originRead' - 0
    BY <1>4, <2>2, RunFacts
  <2> QED  BY <2>2, <2>4, <2>5, Zenon
<1>10. \/ b' = x
       \/ /\ b'.statusServer = "WRITE_RESPONSE_BODY" /\ b'.buf = x.buf
          /\ b'.haveLength => b'.lengthBody = ResponseLength - originRead'
          /\ b'.addData => x.addData \/ b'.haveLength
  <2>1. PICK store \in BOOLEAN : b' = WrightResponseHeading(x, store)
    BY <1>1, ReadCommon DEF ReadFromSocket
  <2> HIDE DEF x
  <2>2. x.buf = Run("origin", 0, originRead')
    BY <1>7, <1>9
  <2> QED  BY <1>4, <1>8, <2>1, <2>2, ResponseHeadingTaken
<1>11. elem' = IF ~b'.addData THEN elem
               ELSE [content |-> b.buf \o chunk, connected |-> TRUE, ended |-> b'.lengthBody <= 0]
  BY <1>1, ReadCommon DEF ElementAfter
<1> HIDE DEF x
<1>12. b'.buf = b.buf \o chunk
  BY <1>7, <1>10
<1>13. ~Asks'
  BY <1>1, <1>3 DEF Asks
<1>14. RequestHeld' /\ RequestSent' /\ ResponseStreams'
  BY <1>2, <1>12, <1>13, AnswerGoesOn
<1>15. \/ b'.statusServer = "WRITE_RESPONSE_HEADING" /\ ~b'.ready /\ ~b'.endSend /\ ~b'.addData
       \/ /\ b'.statusServer = "WRITE_RESPONSE_BODY"
          /\ b'.haveLength => b'.lengthBody = ResponseLength - originRead'
          /\ b'.addData => b'.haveLength
  BY <1>1, <1>7, <1>10
<1>16. Answering'
  <2>1. Len(b'.buf) = originRead'
    BY <1>9, <1>12
  <2> QED  BY <1>1, <1>3, <1>4, <1>15, <2>1 DEF Answering
<1>17. ElementStreams'
  <2>1. CASE ~b'.addData
    <3>1. elem' = elem
      BY <1>11, <2>1
    <3> QED  BY <1>3, <1>15, <2>1, <3>1 DEF StreamInv, ElementStreams
  <2>2. CASE b'.addData
    <3> DEFINE over == b'.lengthBody <= 0
    <3>1. elem' = [content |-> b.buf \o chunk, connected |-> TRUE, ended |-> over]
      BY <1>11, <2>2
    <3>2. over => originRead' = ResponseLength
      <4>1. b'.lengthBody = ResponseLength - originRead'
        BY <1>15, <2>2
      <4>2. \A k, m \in Nat : k <= m => (m - k <= 0 => k = m)
        OBVIOUS
      <4>3. ResponseLength - originRead' <= 0 => originRead' = ResponseLength
        BY <1>4, <4>2, Zenon
      <4> QED  BY <4>1, <4>3, Zenon
    <3> HIDE DEF over, chunk
    <3>3. elem'.content = b.buf \o chunk /\ elem'.ended = over
      BY <3>1
    <3>4. elem'.content = Run("origin", 0, Len(elem'.content)) /\ Len(elem'.content) = originRead'
      BY <1>9, <3>3
    <3> QED  BY <1>3, <1>15, <2>2, <3>2, <3>3, <3>4 DEF ElementStreams
  <2> QED  BY <2>1, <2>2
<1> QED
  BY <1>3, <1>14, <1>16, <1>17 DEF StreamInv

\* A read of the response's body.
LEMMA ReadResponseBodyStreams ==
    ASSUME OrderlyPeers, IInv, StreamInv, Read, b.statusServer = "WRITE_RESPONSE_BODY"
    PROVE  StreamInv'
<1> DEFINE chunk == Chunk(list[it])
           n == Len(chunk)
           x == Taken(b, chunk)
<1>1. ~Asks /\ ~Asking /\ userRead = RequestLength
  BY DEF StreamInv, RequestHeld, Answering, Asks, Asking
<1>2. /\ ResponseLength' = ResponseLength /\ RequestLength' = RequestLength
      /\ RejectedSilent' /\ ServerListed' = ServerListed
      /\ b \in BufferFields /\ b' \in BufferFields
      /\ b'.clientConnect = b.clientConnect
      /\ b'.statusClient = b.statusClient
  BY <1>1, ReadCommon DEF LaterRead
<1>3. /\ chunk \in Seq(Units) /\ n \in Nat
      /\ originRead \in Nat /\ originRead' \in Nat /\ originRead <= originRead'
      /\ originRead' <= ResponseLength /\ ResponseLength \in Nat
      /\ userRead' = userRead /\ chunk = Run("origin", originRead, originRead')
      /\ n = originRead' - originRead
  BY <1>1, ReadAmounts, LengthTypes
<1>4. b' = WrightResponseBody(x, n)
  BY <1>1, ReadCommon DEF ReadFromSocket, Asks
<1>5. elem' = IF ~b'.addData THEN elem
              ELSE [elem EXCEPT !.content = @ \o chunk, !.ended = @ \/ b'.lengthBody <= 0]
  BY <1>1, ReadCommon DEF ElementAfter, Asks
<1> DEFINE kept == IF ~b.clientConnect THEN <<>> ELSE b.buf \o chunk
           left == IF x.haveLength THEN x.lengthBody - n ELSE x.lengthBody
           end == \/ x.endSend
                  \/ x.haveLength /\ x.lengthBody - n <= 0
                  \/ ~x.haveLength /\ Has(x.buf, BodyEnd)
<1>6. x = [b EXCEPT !.buf = kept]
  BY DEF Taken
<1>7. b' = [x EXCEPT !.ready = TRUE, !.lengthBody = left, !.endSend = end]
  BY <1>4 DEF WrightResponseBody
<1>8. b'.statusClient = "READ_RESPONSE" => b.clientConnect
  BY <1>2 DEF StreamInv, Answering
<1>9. kept = (IF ~b.clientConnect THEN <<>> ELSE b.buf \o chunk)
  OBVIOUS
<1>10. left = IF x.haveLength THEN x.lengthBody - n ELSE x.lengthBody
  OBVIOUS
<1> HIDE DEF kept, left, end
<1>11. /\ x.haveLength = b.haveLength /\ x.lengthBody = b.lengthBody /\ x.buf = kept
       /\ x.statusServer = b.statusServer /\ x.addData = b.addData
       /\ {"haveLength", "buf", "lengthBody", "statusServer", "addData", "ready"} \subseteq DOMAIN x
  <2> HIDE DEF chunk, x
  <2> QED  BY <1>2, <1>6 DEF BufferFields
<1> HIDE DEF x, chunk, n
<1>12. /\ b'.haveLength = b.haveLength /\ b'.lengthBody = left /\ b'.buf = kept
       /\ b'.statusServer = b.statusServer /\ b'.addData = b.addData
  <2>1. /\ b'.haveLength = x.haveLength /\ b'.lengthBody = left /\ b'.buf = x.buf
        /\ b'.statusServer = x.statusServer /\ b'.addData = x.addData
    BY <1>7, <1>11
  <2> QED  BY <1>11, <2>1
<1>13. b.statusClient = "READ_RESPONSE" => b'.buf = b.buf \o chunk
  BY <1>2, <1>8, <1>9, <1>12
<1>14. ~Asks'
  BY <1>1, <1>2 DEF Asks
<1>15. RequestHeld' /\ RequestSent' /\ ResponseStreams'
  BY <1>1, <1>13, <1>14, AnswerGoesOn DEF chunk
<1>16. Answering'
  BY <1>1, <1>2, <1>3, <1>12 DEF StreamInv, Answering
<1>17. b.haveLength => b'.lengthBody = ResponseLength - originRead'
  <2> SUFFICES ASSUME b.haveLength PROVE b'.lengthBody = ResponseLength - originRead'
    OBVIOUS
  <2>1. b.lengthBody = ResponseLength - originRead
    BY DEF StreamInv, ElementStreams
  <2>2. b'.lengthBody = (ResponseLength - originRead) - (originRead' - originRead)
    BY <1>3, <1>10, <1>11, <1>12, <2>1
  <2>4. (ResponseLength - originRead) - (originRead' - originRead) = ResponseLength - originRead'
    <3> DEFINE j == originRead
               k == originRead'
               m == ResponseLength
    <3>1. j \in Nat /\ k \in Nat /\ m \in Nat
      BY <1>3
    <3> HIDE DEF j, k, m
    <3>2. (m - j) - (k - j) = m - k
      BY <3>1
    <3> QED
      BY <3>2 DEF j, k, m
  <2> QED  BY <2>2, <2>4
<1>18. ElementStreams'
  <2>1. CASE ~b.addData
    <3>1. elem' = elem
      BY <1>5, <1>12, <2>1
    <3> QED  BY <1>2, <1>12, <1>17, <2>1, <3>1 DEF StreamInv, ElementStreams
  <2>2. CASE b.addData
    <3> DEFINE over == elem.ended \/ b'.lengthBody <= 0
    <3>1. elem' = [elem EXCEPT !.content = elem.content \o chunk, !.ended = over]
      BY <1>5, <1>12, <2>2
    <3>2. /\ b.haveLength /\ Len(elem.content) = originRead
          /\ elem.content = Run("origin", 0, Len(elem.content))
          /\ elem.ended => Len(elem.content) = ResponseLength
      BY <2>2 DEF StreamInv, ElementStreams
    <3>3. over => originRead' = ResponseLength
      <4>1. b'.lengthBody = ResponseLength - originRead'
        BY <1>17, <3>2
      <4>2. \A k, m \in Nat : k <= m => (m - k <= 0 => k = m)
        OBVIOUS
      <4>3. ResponseLength - originRead' <= 0 => originRead' = ResponseLength
        BY <1>3, <4>2, Zenon
      <4>4. \A k, m \in Nat : k <= m /\ m <= k => k = m
        OBVIOUS
      <4>5. originRead = ResponseLength => originRead' = ResponseLength
        BY <1>3, <4>4
      <4> QED  BY <3>2, <4>1, <4>3, <4>5
    <3> HIDE DEF over
    <3>4. elem'.content = elem.content \o chunk /\ elem'.ended = over
      BY <3>1 DEF IInv, TypeOK, Elements
    <3>5. elem'.content = Run("origin", 0, originRead') /\ Len(elem'.content) = originRead'
      <4>1. \A k \in Nat : 0 <= k /\ k - 0 = k
        OBVIOUS
      <4>2. 0 <= originRead /\ 0 <= originRead' /\ originRead' - 0 = originRead'
        BY <1>3, <4>1, Zenon
      <4>3. elem'.content = Run("origin", 0, originRead) \o Run("origin", originRead, originRead')
        BY <1>3, <3>2, <3>4
      <4>4. elem'.content = Run("origin", 0, originRead')
        BY <1>3, <4>2, <4>3, RunConcat
      <4>5. Len(Run("origin", 0, originRead')) = originRead' - 0
        BY <1>3, <4>2, RunFacts
      <4> QED  BY <4>2, <4>4, <4>5, Zenon
    <3> QED  BY <1>2, <1>12, <1>17, <2>2, <3>2, <3>3, <3>4, <3>5 DEF ElementStreams
  <2> QED  BY <2>1, <2>2
<1> QED
  BY <1>2, <1>15, <1>16, <1>18 DEF StreamInv

\* A read that no buffer waits for.
LEMMA ReadIdleStreams ==
    ASSUME OrderlyPeers, IInv, StreamInv, Read, ~Asks,
           b.statusServer \in {"READ_REQUEST", "END_WORK"}
    PROVE  StreamInv'
<1> DEFINE chunk == Chunk(list[it])
<1>1. /\ UNCHANGED <<originSent, request>>
      /\ ResponseLength' = ResponseLength
      /\ RejectedSilent' /\ ServerListed' = ServerListed
      /\ b \in BufferFields
      /\ elem' = elem
  BY ReadCommon DEF ElementAfter
<1>2. b' = Taken(b, chunk)
  BY ReadCommon DEF ReadFromSocket, Asks
<1>3. b' = [b EXCEPT !.buf = b.buf \o chunk]
  BY <1>1, <1>2 DEF Taken, BufferFields
<1>4. /\ b'.buf = b.buf \o chunk
      /\ b'.statusClient = b.statusClient /\ b'.statusServer = b.statusServer
      /\ b'.addData = b.addData /\ b'.clientConnect = b.clientConnect
  <2> HIDE DEF chunk
  <2> QED  BY <1>1, <1>3 DEF BufferFields
<1>5. ~Asks'
  BY <1>4 DEF Asks
<1>6. RequestHeld' /\ RequestSent' /\ ResponseStreams'
  BY <1>4, <1>5, AnswerGoesOn
<1>7. Answering'
  BY <1>1, <1>4 DEF StreamInv, Answering
<1>8. ElementStreams'
  BY <1>1, <1>4 DEF StreamInv, ElementStreams
<1> QED
  BY <1>1, <1>6, <1>7, <1>8 DEF StreamInv

-----------------------------------------------------------------------------
(* The theorems about the streams.                                         *)

\* Nothing was sent at the start.
LEMMA InitStreams == Init => StreamInv
<1> SUFFICES ASSUME Init PROVE StreamInv
  OBVIOUS
<1>1. /\ pc = "listen" /\ list = <<>> /\ b = NewBuffer /\ elem = NoElement
      /\ request \in Requests /\ response \in Responses
      /\ userRead = 0 /\ toUser = <<>> /\ originSent = 0 /\ originRead = 0 /\ toOrigin = <<>>
      /\ events["user"] = {"in", "rdhup"} /\ revents["user"] = {}
  BY DEF Init, Clients
<1>2. /\ b.statusClient = "WRITE_REQUEST_HEADING" /\ b.statusServer = "READ_REQUEST"
      /\ b.buf = <<>> /\ ~b.addData /\ b.clientConnect /\ ~b.endSend
      /\ elem.content = <<>> /\ ~elem.ended
  BY <1>1 DEF NewBuffer, NoElement
<1>3. Len(<<>>) = 0 /\ <<>> = Run("user", 0, 0) /\ <<>> = Run("origin", 0, 0) /\ 0 - 0 = 0 /\ 0 <= 0
  BY RunEmpty, ListFacts
<1>4. ~ServerListed
  BY <1>1, ListFacts DEF ServerListed
<1>5. 0 <= ResponseLength
  BY <1>1, RequestTypes, HeadAssumption DEF ResponseLength
<1>6. RequestHeld
  BY <1>1, <1>2, <1>3 DEF RequestHeld, Asking
<1>7. RequestSent
  BY <1>1, <1>3, <1>4 DEF RequestSent
<1>8. ResponseStreams
  BY <1>1, <1>2, <1>3, <1>5 DEF ResponseStreams
<1>9. RejectedSilent
  BY <1>1 DEF RejectedSilent
<1>10. Answering
  BY <1>2 DEF Answering
<1>11. ElementStreams
  BY <1>2, <1>3 DEF ElementStreams
<1> QED
  BY <1>6, <1>7, <1>8, <1>9, <1>10, <1>11 DEF StreamInv

\* Every step keeps the streams.
LEMMA StepStreams == OrderlyPeers /\ IInv /\ StreamInv /\ [Next]_vars => StreamInv'
<1> SUFFICES ASSUME OrderlyPeers, IInv, StreamInv, [Next]_vars PROVE StreamInv'
  OBVIOUS
<1>1. CASE EventHangup \/ CheckEnded \/ SentAll
  <2>1. pc \in {"event", "check", "sent"} /\ Delete(list[it]) /\ UNCHANGED <<revents, user,
                                                                             origin>>
    BY <1>1 DEF EventHangup, CheckEnded, SentAll, Current, IInv, ListSound
  <2> QED  BY <2>1, DeleteStreams
<1>2. CASE UNCHANGED vars
  <2>1. /\ UNCHANGED <<b, elem, request, response, userRead, originRead, toUser, toOrigin>>
        /\ UNCHANGED <<pc, list, events, revents, userClosed, originClosed, originSent>>
    BY <1>2 DEF vars, links, script, user, origin
  <2>2. ServerListed' = ServerListed /\ RejectedSilent'
    BY <2>1 DEF ServerListed, StreamInv, RejectedSilent
  <2> QED  BY <2>1, <2>2, StreamsStand DEF StreamInv, RequestSent, ResponseStreams
<1>3. CASE SendSome
  <2>1. list[it] \in Clients
    BY <1>3, InLoop DEF SendSome, InWrite
  <2> QED  BY <1>3, <2>1, SendToServerStreams, SendToUserStreams DEF Clients
<1>4. CASE Read
  <2>1. /\ b.statusClient \in {"WRITE_REQUEST_HEADING", "WRITE_REQUEST_BODY"} \/ ~Asks
        /\ b.statusServer \in {"READ_REQUEST", "WRITE_RESPONSE_HEADING", "WRITE_RESPONSE_BODY",
                               "END_WORK"}
    BY DEF Asks, IInv, TypeOK, BufferFields
  <2> QED
    BY <1>4, <2>1, ReadAskingStreams, ReadRequestBodyStreams, ReadResponseHeadingStreams,
       ReadResponseBodyStreams, ReadIdleStreams DEF Asking
<1>5. CASE ConnectSecond
  <2>1. pc = "connect" /\ b.readyConnect /\ "server" \in ToSet(list)
    BY <1>5 DEF ConnectSecond
  <2> QED  BY <2>1, ConnectAlone, ListFacts
<1> QED
  BY <1>1, <1>2, <1>3, <1>4, <1>5, StartStreams, PeersStreams, PollStreams, MoveStreams,
     ConnectStreams, LastDeletionStreams DEF Next, Iteration

\* The two invariants hold together.
LEMMA StreamsInvariance == OrderlyPeers => (Spec => [](IInv /\ StreamInv))
<1>1. OrderlyPeers /\ IInv /\ StreamInv /\ [Next]_vars => (IInv /\ StreamInv)'
  BY StepKeeps, StepStreams
<1>2. Init => IInv /\ StreamInv
  BY InitSound, InitStreams
<1> SUFFICES ASSUME OrderlyPeers PROVE Spec => [](IInv /\ StreamInv)
  OBVIOUS
<1>3. IInv /\ StreamInv /\ [Next]_vars => (IInv /\ StreamInv)'
  BY <1>1
<1> QED
  BY <1>2, <1>3, PTL DEF Spec

\* With orderly peers the origin receives the request and the user the response, in
\* order, without gaps and without bytes of the other, through one shared buffer.
THEOREM StreamsAreKept == OrderlyPeers => (Spec => []Streams)
<1> SUFFICES ASSUME OrderlyPeers PROVE Spec => []Streams
  OBVIOUS
<1>1. \A s \in {"user", "origin"} : \A n \in Nat : Run(s, 0, n) = [i \in 1..n |-> <<s, i>>]
  <2> TAKE s \in {"user", "origin"}
  <2> TAKE n \in Nat
  <2>1. n - 0 = n /\ \A i \in 1..n : 0 + i = i
    OBVIOUS
  <2> QED  BY <2>1 DEF Run
<1>2. IInv /\ StreamInv => Streams
  <2> SUFFICES ASSUME IInv, StreamInv PROVE Streams
    OBVIOUS
  <2>1. Len(toOrigin) \in Nat /\ Len(toUser) \in Nat
    BY DEF IInv, TypeOK
  <2>2. toOrigin = Run("user", 0, Len(toOrigin)) /\ toUser = Run("origin", 0, Len(toUser))
    BY DEF StreamInv, RequestSent, ResponseStreams
  <2> QED  BY <1>1, <2>1, <2>2 DEF Streams
<1>3. Spec => [](IInv /\ StreamInv)
  BY StreamsInvariance
<1> QED
  BY <1>2, <1>3, PTL

\* With orderly peers the element holds the response from its first unit, whether the
\* user stays or not, and is complete when wrightResponseBody says so.
THEOREM CacheCopies == OrderlyPeers => (Spec => []CacheHoldsResponse)
<1> SUFFICES ASSUME OrderlyPeers PROVE Spec => []CacheHoldsResponse
  OBVIOUS
<1>1. IInv /\ StreamInv => CacheHoldsResponse
  <2> SUFFICES ASSUME IInv, StreamInv PROVE CacheHoldsResponse
    OBVIOUS
  <2>1. Len(elem.content) \in Nat
    BY DEF IInv, TypeOK, Elements
  <2>2. \A n \in Nat : Run("origin", 0, n) = [i \in 1..n |-> <<"origin", i>>]
    <3> TAKE n \in Nat
    <3>1. n - 0 = n /\ \A i \in 1..n : 0 + i = i
      OBVIOUS
    <3> QED  BY <3>1 DEF Run
  <2>3. /\ elem.content = Run("origin", 0, Len(elem.content))
        /\ elem.ended => Len(elem.content) = ResponseLength
    BY DEF StreamInv, ElementStreams
  <2> QED  BY <2>1, <2>2, <2>3 DEF CacheHoldsResponse
<1>2. Spec => [](IInv /\ StreamInv)
  BY StreamsInvariance
<1> QED
  BY <1>1, <1>2, PTL
=============================================================================
