---------------------------- MODULE SelectProxy ----------------------------
(***************************************************************************)
(* lab31/v1: a proxy in one thread that serves an array of client slots    *)
(* one after the other, fetches a page in one go and keeps every page it   *)
(* ever fetched; and its users, who run client.c.  proxy_test.c differs    *)
(* from proxy.c in how a request is read.                                  *)
(*                                                                         *)
(* What a user sends is a sequence of words: addresses and line ends.  The *)
(* proxy takes all that is there for one request, proxy_test.c the first   *)
(* line.  Sizes are in bytes.  The peers act between the steps of a pass.  *)
(***************************************************************************)
EXTENDS Integers, Sequences, FiniteSets

CONSTANTS
    Users,       \* the programs client.c that may run
    Slots,       \* MAX_CLIENTS_AMOUNT
    CacheSize,   \* CACHE_SIZE
    BufferSize,  \* BUFFER_SIZE
    Pages,       \* addresses of the form host/path
    Chunks,      \* what a user may type before client.c reads its input
    MaxChunks,   \* how often users type
    MaxAnswer,   \* the bytes an origin may answer with
    MaxFd        \* descriptors the process may have beside the first ones

ASSUME SlotAssumption == Slots \in Nat
ASSUME SizeAssumption ==
    /\ CacheSize \in Nat /\ BufferSize \in Nat \ {0} /\ MaxAnswer \in Nat /\ MaxFd \in Nat
ASSUME UsersAssumption == Users \cap {"free", "leaked"} = {}
ASSUME ChunksAssumption == Chunks \subseteq Seq(STRING)

EMPTY == -1
NewLine == "\n"
ExitWord == "/exit"
TwoColons == "host:1:2/path"   \* parse_URL refuses it
NoSlash == "host"
FailedConnect == <<0, 0>>      \* the text "Failed connect!" among what a user received

SlotIds == 1..Slots
Fds == 1..MaxFd

VARIABLES
    byLine,    \* the program is proxy_test.c
    process,   \* "run", "exit" (a key was pressed), "killed" (SIGPIPE) or "undefined"
    at, phase, \* the slot of the loop, 0 before the first; "read" or "send"
    clients,   \* the descriptor of each slot's user
    http,      \* clients_http_sockets
    page,      \* cache_to_client
    sent,      \* sent_bytes
    connected, \* connected_clients
    cache,     \* the pages, in order; its length is cache_size
    open,      \* what each descriptor is: a user's connection, "leaked" or "free"
    struck,    \* descriptors of users that the exit of another slot closed
    link,      \* each user's connection: "away", "up", "gone" or "dropped"
    said,      \* all a user has sent
    wire,      \* what of it nobody has read
    typed,     \* how often they typed
    got        \* the bytes of pages a user received: <<page, position>>

slots == <<clients, http, page, sent>>
loop == <<at, phase>>
peers == <<link, said, wire, typed, got>>
vars == <<byLine, process, loop, slots, connected, cache, open, struck, peers>>

\* Every slot is empty when the loop begins.
EmptySlots ==
    /\ clients = [s \in SlotIds |-> EMPTY]
    /\ http = [s \in SlotIds |-> EMPTY]
    /\ page = [s \in SlotIds |-> EMPTY]
    /\ sent = [s \in SlotIds |-> EMPTY]

\* client.c up to its connection: one whose connect fails stays away for ever.
InitUsers ==
    /\ link = [u \in Users |-> "away"]
    /\ said = [u \in Users |-> <<>>]
    /\ wire = [u \in Users |-> <<>>]
    /\ got = [u \in Users |-> <<>>]

Init ==
    /\ byLine \in BOOLEAN
    /\ process = "run"
    /\ at = 0 /\ phase = "read"
    /\ EmptySlots
    /\ connected = 0
    /\ cache = <<>>
    /\ open = [f \in Fds |-> "free"]
    /\ struck = {}
    /\ InitUsers
    /\ typed = 0

-----------------------------------------------------------------------------
(* client.c.                                                               *)

\* What a user does matters when the proxy turns to its slot; until then it may wait.
AtSlot(what) == process = "run" /\ at \in SlotIds /\ phase = what
\* Who is behind the descriptor of the current slot.
Peer == open[clients[at]]
Turn(u) == (AtSlot("read") \/ AtSlot("send")) /\ clients[at] # EMPTY /\ Peer = u

\* One read of its input: the last line end is cut off, the rest is written.  The
\* text "/exit" alone ends the program.
ClientSend(u) ==
    /\ Turn(u) /\ link[u] = "up" /\ typed < MaxChunks
    /\ \E text \in Chunks :
         /\ wire' = [wire EXCEPT ![u] = @ \o text]
         /\ said' = [said EXCEPT ![u] = @ \o text]
         /\ link' = IF text = <<ExitWord>> THEN [link EXCEPT ![u] = "gone"] ELSE link
    /\ typed' = typed + 1
    /\ UNCHANGED <<byLine, process, loop, slots, connected, cache, open, struck, got>>

\* errno is tested after every select and never reset: any call that set it ends
\* the program.
ClientGivesUp(u) ==
    /\ Turn(u) /\ link[u] = "up"
    /\ link' = [link EXCEPT ![u] = "gone"]
    /\ UNCHANGED <<byLine, process, loop, slots, connected, cache, open, struck,
                   said, wire, typed, got>>

Peers == \E u \in Users : ClientSend(u) \/ ClientGivesUp(u)

-----------------------------------------------------------------------------
(* The top of the loop.                                                    *)

Loop == process = "run" /\ at = 0

\* A key is pressed: the program ends.
Quit ==
    /\ Loop
    /\ process' = "exit"
    /\ UNCHANGED <<byLine, loop, slots, connected, cache, open, struck, peers>>

LowestFree == CHOOSE f \in Fds : open[f] = "free" /\ \A g \in 1..(f - 1) : open[g] # "free"
FdLeft == \E f \in Fds : open[f] = "free"

\* find_free_client_index: the slots before it are taken.
FindFreeClientIndex ==
    CHOOSE s \in SlotIds : clients[s] = EMPTY /\ \A r \in 1..(s - 1) : clients[r] # EMPTY
SlotLeft == \E s \in SlotIds : clients[s] = EMPTY

\* Without a free slot the descriptor would be written behind the array: the first
\* property says that this does not happen.  A user away may be one that waits.
Accepted ==
    /\ Loop /\ connected < Slots
    /\ FdLeft /\ SlotLeft
    /\ \E u \in Users :
         /\ link[u] = "away"
         /\ clients' = [clients EXCEPT ![FindFreeClientIndex] = LowestFree]
         /\ open' = [open EXCEPT ![LowestFree] = u]
         /\ link' = [link EXCEPT ![u] = "up"]
    /\ at' = 1
    /\ UNCHANGED <<byLine, process, phase, http, page, sent, cache, struck, said, wire, typed, got>>

\* Mutant: the client is not counted.
AcceptNewClientMutant == Accepted /\ UNCHANGED connected

AcceptNewClient == Accepted /\ connected' = connected + 1

\* A failed accept is counted as a client, and its slot stays free.
AcceptFails ==
    /\ Loop /\ connected < Slots
    /\ \E u \in Users : link[u] = "away"
    /\ connected' = connected + 1
    /\ at' = 1
    /\ UNCHANGED <<byLine, process, phase, slots, cache, open, struck, peers>>

\* Nobody waits, or as many clients as there may be are counted.
NoAccept ==
    /\ Loop
    /\ at' = 1
    /\ UNCHANGED <<byLine, process, phase, slots, connected, cache, open, struck, peers>>

-----------------------------------------------------------------------------
(* A slot's request.                                                       *)

NextSlot == at' = (IF at = Slots THEN 0 ELSE at + 1) /\ phase' = "read"
Undefined == process' = "undefined"

SkipSlot ==
    /\ AtSlot("read") /\ clients[at] = EMPTY
    /\ NextSlot
    /\ UNCHANGED <<byLine, process, slots, connected, cache, open, struck, peers>>

\* select and read fail on a descriptor that another slot closed: the proxy writes
\* before its buffer, and the test program reads from no stream.
ReadStruck ==
    /\ AtSlot("read") /\ clients[at] # EMPTY /\ Peer \notin Users
    /\ Undefined
    /\ UNCHANGED <<byLine, loop, slots, connected, cache, open, struck, peers>>

\* Nothing came, or the end of the connection, which proxy.c takes for nothing.
NothingThere ==
    /\ AtSlot("read") /\ clients[at] # EMPTY /\ Peer \in Users
    /\ wire[Peer] = <<>>
    /\ link[Peer] = "gone" => ~byLine
    /\ UNCHANGED <<byLine, process, slots, connected, cache, open, struck, peers>>

\* Mutant: then the slot is left at once.
ReadNothingMutant == NothingThere /\ NextSlot

ReadNothing == NothingThere /\ phase' = "send" /\ UNCHANGED at

\* getline at the end of the connection fails, and the length of a text that was
\* never written is taken.
ReadEndByLine ==
    /\ AtSlot("read") /\ clients[at] # EMPTY /\ Peer \in Users
    /\ wire[Peer] = <<>> /\ link[Peer] = "gone" /\ byLine
    /\ Undefined
    /\ UNCHANGED <<byLine, loop, slots, connected, cache, open, struck, peers>>

\* The connection was reset, for the user left unread what it was sent: the proxy
\* writes before its buffer.
ReadReset ==
    /\ AtSlot("read") /\ clients[at] # EMPTY /\ Peer \in Users
    /\ link[Peer] = "gone"
    /\ Undefined
    /\ UNCHANGED <<byLine, loop, slots, connected, cache, open, struck, peers>>

HasLine(text) == \E i \in DOMAIN text : text[i] = NewLine
FirstLine(text) ==
    SubSeq(text, 1, (CHOOSE i \in DOMAIN text :
        text[i] = NewLine /\ \A j \in 1..(i - 1) : text[j] # NewLine) - 1)

\* What proxy_test.c takes for the request: the first line, the rest is lost with
\* the stream; it waits for a line's end, and of an unfinished last line it cuts
\* the last character.
RequestByLine(text, ended) ==
    IF HasLine(text) THEN {FirstLine(text)}
    ELSE IF ended THEN {Append(text, "cut")} ELSE {}

\* The request: for proxy.c all there is.  There is none while getline waits.
Request ==
    IF ~(AtSlot("read") /\ clients[at] # EMPTY /\ Peer \in Users) THEN {}
    ELSE IF wire[Peer] = <<>> THEN {}
    ELSE IF byLine THEN RequestByLine(wire[Peer], link[Peer] = "gone")
    ELSE {wire[Peer]}
Consumed == wire' = [wire EXCEPT ![Peer] = <<>>]

\* parse_URL finds two colons before the first slash, or no slash at all.
Slashless == {NoSlash, NewLine, "cut"}
HasTwoColons(text) ==
    \E i \in DOMAIN text : text[i] = TwoColons /\ \A j \in 1..(i - 1) : text[j] \in Slashless
HasSlash(text) == \E i \in DOMAIN text : text[i] \notin Slashless
Askable(text) == text # <<ExitWord>> /\ HasSlash(text) /\ ~HasTwoColons(text)
\* The name before the slash can be that of a host.
HasHost(text) == text[1] \in Pages

\* close(clients[at]) and close(clients_http_sockets[at]): the second was closed
\* after the fetch, and the number may be somebody else's by now.
Closed == {clients[at], http[at]} \cap Fds

HangUp ==
    /\ open' = [f \in Fds |-> IF f \in Closed THEN "free" ELSE open[f]]
    /\ struck' = struck \cup {f \in {http[at]} \cap Fds : open[f] \in Users}
    /\ link' = [u \in Users |->
         IF link[u] = "up" /\ \E f \in Closed : open[f] = u THEN "dropped" ELSE link[u]]
    /\ http' = [http EXCEPT ![at] = EMPTY]
    /\ sent' = [sent EXCEPT ![at] = 0]

\* Mutant: the slot keeps its descriptor.
HandleClientDisconnectingMutant ==
    HangUp /\ page' = [page EXCEPT ![at] = EMPTY] /\ UNCHANGED clients

\* Mutant: the slot keeps its page.
HandleClientDisconnectingPageMutant ==
    HangUp /\ clients' = [clients EXCEPT ![at] = EMPTY] /\ UNCHANGED page

HandleClientDisconnecting ==
    /\ HangUp
    /\ clients' = [clients EXCEPT ![at] = EMPTY]
    /\ page' = [page EXCEPT ![at] = EMPTY]

Exit ==
    /\ <<ExitWord>> \in Request
    /\ connected' = connected - 1
    /\ HandleClientDisconnecting
    /\ NextSlot /\ Consumed
    /\ UNCHANGED <<byLine, process, cache, said, typed, got>>

BadUrl ==
    /\ \E text \in Request : HasTwoColons(text)
    /\ NextSlot /\ Consumed
    /\ UNCHANGED <<byLine, process, slots, connected, cache, open, struck, link, said, typed, got>>

\* An address without a slash has no host: a null pointer is looked up.
NoHost ==
    /\ \E text \in Request : ~HasSlash(text)
    /\ Undefined /\ Consumed
    /\ UNCHANGED <<byLine, loop, slots, connected, cache, open, struck, link, said, typed, got>>

-----------------------------------------------------------------------------
(* The page that was asked for.                                            *)

TryFindAtCache(text) == {i \in DOMAIN cache : cache[i].title = text}

\* Whatever the slot was still sending is forgotten.
ServeFrom(i) ==
    /\ page' = [page EXCEPT ![at] = i]
    /\ sent' = [sent EXCEPT ![at] = 0]
    /\ phase' = "send"

Found ==
    /\ \E text \in Request : /\ Askable(text)
                             /\ \E i \in TryFindAtCache(text) : ServeFrom(i)
    /\ Consumed
    /\ UNCHANGED <<byLine, process, at, clients, http, connected, cache, open, struck,
                   link, said, typed, got>>

Missed(text) == Askable(text) /\ TryFindAtCache(text) = {}

\* A socket that cannot be used is not closed.  The text for a user that left may end
\* the process.
ConnectFails ==
    /\ \E text \in Request :
         /\ Missed(text)
         /\ \/ UNCHANGED open
            \/ HasHost(text) /\ FdLeft /\ open' = [open EXCEPT ![LowestFree] = "leaked"]
    /\ process' \in (IF link[Peer] = "gone" THEN {"run", "killed"} ELSE {"run"})
    /\ http' = [http EXCEPT ![at] = EMPTY]
    /\ got' = IF link[Peer] = "up" THEN [got EXCEPT ![Peer] = Append(@, FailedConnect)] ELSE got
    /\ NextSlot /\ Consumed
    /\ UNCHANGED <<byLine, clients, page, sent, connected, cache, struck, link, said, typed>>

\* page_size: of an answer without a byte it stays BUFFER_SIZE, and a read that
\* failed takes one off.
PageSize(bytes, reset) == IF reset THEN bytes - 1 ELSE IF bytes = 0 THEN BufferSize ELSE bytes

\* socket_connect may succeed: the name resolves and a descriptor is left.
SocketConnect(text) == Missed(text) /\ HasHost(text) /\ FdLeft

\* The page is read to its end, for which the origin has to close; then the socket is
\* closed, and the slot keeps its number.
Fetch ==
    /\ Len(cache) < CacheSize
    /\ \E text \in Request, bytes \in 0..MaxAnswer, reset \in BOOLEAN :
         /\ SocketConnect(text)
         /\ cache' = Append(cache, [title |-> text, size |-> PageSize(bytes, reset)])
    /\ http' = [http EXCEPT ![at] = LowestFree]
    /\ ServeFrom(Len(cache) + 1) /\ Consumed
    /\ UNCHANGED <<byLine, process, at, clients, connected, open, struck, link, said, typed, got>>

\* The size of the cache is never compared with that of its array.
CacheFull ==
    /\ Len(cache) = CacheSize
    /\ \E text \in Request : SocketConnect(text)
    /\ Undefined /\ Consumed
    /\ UNCHANGED <<byLine, loop, slots, connected, cache, open, struck, link, said, typed, got>>

\* Bytes written behind their blocks, which may be harmless (the actions before) or not:
\* the end of a request that fills its buffer, the end of each title, and that of a
\* page of which not a byte came.
BehindBlock ==
    /\ \E text \in Request : SocketConnect(text) \/ (~byLine /\ text # <<ExitWord>>)
    /\ Undefined /\ Consumed
    /\ UNCHANGED <<byLine, loop, slots, connected, cache, open, struck, link, said, typed, got>>

-----------------------------------------------------------------------------
(* resend_from_cache.                                                      *)

HasRest(s) == page[s] # EMPTY /\ sent[s] < cache[page[s]].size
Portion ==
    LET left == cache[page[at]].size - sent[at]
    IN IF BufferSize < left THEN BufferSize ELSE left

SendNothing ==
    /\ AtSlot("send") /\ ~HasRest(at)
    /\ NextSlot
    /\ UNCHANGED <<byLine, process, slots, connected, cache, open, struck, peers>>

Resend ==
    /\ AtSlot("send") /\ HasRest(at) /\ link[Peer] = "up"
    /\ got' = [got EXCEPT ![Peer] = @ \o [k \in 1..Portion |-> <<page[at], sent[at] + k>>]]
    /\ sent' = [sent EXCEPT ![at] = @ + Portion]
    /\ NextSlot
    /\ UNCHANGED <<byLine, process, clients, http, page, connected, cache, open, struck,
                   link, said, wire, typed>>

\* The user left: what is written is lost, or the write fails, which moves sent_bytes
\* back (the branch for it is behind a test that a failure passes), or it ends the
\* process.
ResendToGone ==
    /\ AtSlot("send") /\ HasRest(at) /\ link[Peer] = "gone" /\ sent[at] >= 0
    /\ \/ sent' = [sent EXCEPT ![at] = @ + Portion] /\ UNCHANGED process
       \/ sent' = [sent EXCEPT ![at] = @ - 1] /\ UNCHANGED process
       \/ process' = "killed" /\ UNCHANGED sent
    /\ NextSlot
    /\ UNCHANGED <<byLine, clients, http, page, connected, cache, open, struck, peers>>

\* After a failure at its start the page is read from before it.
ResendBeforePage ==
    /\ AtSlot("send") /\ HasRest(at) /\ sent[at] < 0
    /\ Undefined
    /\ UNCHANGED <<byLine, loop, slots, connected, cache, open, struck, peers>>

-----------------------------------------------------------------------------
Read == ReadStruck \/ ReadNothing \/ ReadEndByLine \/ ReadReset
Answer == Exit \/ BadUrl \/ NoHost \/ Found \/ ConnectFails \/ Fetch \/ CacheFull \/ BehindBlock
Send == SendNothing \/ Resend \/ ResendToGone \/ ResendBeforePage
Proxy == AcceptNewClient \/ AcceptFails \/ NoAccept \/ SkipSlot \/ Read \/ Answer \/ Send

Stopped == process # "run" /\ UNCHANGED vars

Next == Proxy \/ Quit \/ Peers \/ Stopped

Spec == Init /\ [][Next]_vars

\* The step connects to an origin and reads until that closes, or writes to a user: calls
\* without a timeout, which return when the peer lets them.
Blocked ==
    \/ \E text \in Request : Missed(text)
    \/ AtSlot("send") /\ HasRest(at) /\ link[Peer] = "up"

\* The proxy runs on until it ends or its peer lets it wait; nobody has to type, and no
\* key has to be pressed.
FairSpec == Spec /\ WF_vars(Proxy /\ ~Blocked)

-----------------------------------------------------------------------------
(* Properties.                                                             *)

Occupied == {s \in SlotIds : clients[s] # EMPTY}

\* proxy.c 94-112: the counter says when a client may be accepted, the array where it
\* goes.  They are changed in different functions, and failures count one and not
\* the other; still there is a slot whenever the counter lets a client in.
SlotForNewClient == connected < Slots => SlotLeft

\* proxy.c 114-118: until an exit closed a number that was somebody else's, every slot
\* holds the connection of a user of its own.
OwnSocket ==
    (struck = {} /\ process = "run") =>
        /\ \A s \in Occupied : open[clients[s]] \in Users
        /\ \A s, r \in Occupied : clients[s] = clients[r] => s = r

PartOf(text, whole) ==
    \E i, j \in 0..Len(whole) : text = SubSeq(whole, i + 1, j)

\* Place k comes after that byte, but for the texts of failures in between.
Follows(bytes, k, byte) ==
    \E j \in 1..(k - 1) :
        bytes[j] = byte /\ \A m \in (j + 1)..(k - 1) : bytes[m] = FailedConnect

\* proxy.c 186-236: until then a user is sent only pages it asked for, each from its
\* start and without a gap but for the text "Failed connect!", however its requests,
\* the fetches of others and the portions follow one another.
OwnPages ==
    struck = {} => \A u \in Users : \A k \in DOMAIN got[u] :
        LET i == got[u][k][1]  position == got[u][k][2]
        IN got[u][k] # FailedConnect =>
             /\ PartOf(cache[i].title, said[u])
             /\ position # 1 => Follows(got[u], k, <<i, position - 1>>)

\* proxy.c 290-355: a user that asked for one page and stays is told that the origin
\* cannot be reached or is sent the whole page, while the proxy runs and is not held
\* for ever by one peer, be it another's.
Waits(u) ==
    /\ process = "run" /\ ~byLine
    /\ link[u] = "up"
    /\ \E p \in Pages : said[u] = <<p>>
Served(u) ==
    \/ FailedConnect \in {got[u][k] : k \in DOMAIN got[u]}
    \/ \E s \in Occupied : open[clients[s]] = u /\ page[s] # EMPTY /\ ~HasRest(s)
PageDelivered ==
    (\A u \in Users : Waits(u) ~> (Served(u) \/ ~Waits(u))) \/ <>[]Blocked
=============================================================================
