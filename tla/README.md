# Verification of OperatingSystemsLabs

The repository holds exercises on threads and sockets: small programs that print
from two threads (`lab1` to `lab14`) and four generations of a caching HTTP
proxy (`lab31/v1`, `lab31/v2`, `lab32`, `lab32v2`). This directory holds TLA+
models of the parts whose correctness depends on interleavings, on the order of
events or on failures, TLC configurations that check them on small instances,
and theorems that TLAPS proves for every value of the constants.

## Inventory

| part | state | operations | hard behaviour |
|---|---|---|---|
| **lab32v2, transfer through the cache** (`CashElementImpl`, cache branches of `BufferImpl`, `getFromCash`/`sendAll`) | the element: content, `_isDownloadEnd`, `_isServerConnected`, `_listSubscribers`, user count; per thread a cursor and a condition variable | append, signal, subscribe, wait, copy, send, leave | readers follow a download that is still running; the test and the wait are not atomic with the signal; lengths are read more than once |
| **lab32v2, cache** (`CashImpl`) | list of elements in order of use, `byteInCash` | look-up, fetch, add with eviction | check-then-act across critical sections, users counted outside the lock, an iterator that is moved twice, an account that is never initialised |
| **lab32v2, handler of one client** (`HandlerOneClientImpl`, `BufferImpl`, `ClientImpl`) | client list, poll events, one buffer shared by the user and its server | poll, read, connect, send, delete in every order | order of poll events, hang-ups at any moment, who deletes what, re-arming of events |
| **lab32v2, server and sockets** (`NewServerImpl`, `ServerSocketImpl`) | list of thread arguments, sockets | accept, start a thread, connect | failures of accept and of thread creation |
| **lab32v2, parser** (`ParserImpl`) | none | find the end of a heading or body, parse | what is taken for an end |
| **lab32** (`ServerImpl`, `Context`, `ThreadContext`, `Cleaner`, `CashContext`) | map of threads, write-once cache | accept, serve, join the dead, stop | an unlocked map, reuse of thread ids, failed creations, stopping |
| **lab11** | three error-checking mutexes, a flag | lock, print, unlock | hand-over in a ring, spin on a plain variable |
| **lab14** | two semaphores | wait, print, post | hand-over, start and clean-up |
| **lab12** | two mutexes of the default kind | lock, print, unlock | who locks first; a thread may wait for the mutex it holds |
| **lab8** | arguments and results of the threads, the sum | split, compute, join | division with remainder, failed creation, identifiers that were never written |
| **lab6** | strings, identifiers, time | read, start, sleep, print, clean up | order by sleeping, failed creation, strings freed at the end |
| **lab4, lab5** | one thread, its cancel state | print, cancel, clean up | cancellation is refused but for one point of the loop |
| **lab1 to lab3** | threads, an array of main's | create, print, join | failed creation, a main that ends first |
| **lab31/v1** (`proxy.c`, `proxy_test.c`, `client.c`) | slots of clients with a page and a position each, a cache that only grows, a counter of clients | accept, read a request, fetch, send a portion, disconnect | counter and slots are changed apart, a descriptor is closed twice, failures that are taken for something else |
| **lab31/v2** (`ServerImpl`, `BufferImpl`, `ClientImpl`, `CashImpl`, `CashElementImpl`) | list of all clients, poll set, one buffer per user and its origin, cache | poll, accept, read, connect, send, delete | events handed out by position, an iterator that erasing moves twice, two flags that decide when a buffer dies, a buffer whose status alone says whose data this is |
| **BinaryString** (lab31/v2, used by nothing) | array with length and recorded capacity | append, shift, copy, assign | calls that allocate and calls that rely on what an earlier one allocated |
| **loggers, lab32's empty classes, build trees** | none | | |

In `lab32v2` each accepted user gets a handler thread. The thread reads the
request into its buffer, asks the cache for the heading and either becomes a
*reader* of an element (`getFromCash`) or connects to the origin. In the second
case it may become the *writer* of a new element while it forwards the response
to its own user. Handler threads meet only in the cache: in its list (module
`Cash`) and in single elements (module `CashTransfer`). Everything else a handler
does is sequential but driven by events of two sockets (module
`HandlerOneClient`).

`lab31/v2` is the ancestor of `lab32v2`: the same buffer and cache, but one thread
and one list for all users and origins. Nothing is concurrent there but the
peers, so what can go wrong is the order in which their data, hang-ups and
failures meet the loop (module `PollProxy`).

What makes each part correct:

* transfer: a reader sends exactly the element, in order, never reads past its
  end, does not sleep through the last signal, and is never signalled after its
  condition variable is gone; an element is marked complete when it is;
* cache: the budget holds, a key is stored once, an element in use stays, the
  walk that makes room ends;
* handler: the streams are forwarded unchanged, the cached copy is the response,
  no object is used after its deletion or lost, hang-ups are noticed and
  complete responses delivered;
* lab32: no context outlives or precedes its thread wrongly, no client is lost
  from the map, hits agree, sockets are closed, "q" stops the server;
* lab31/v2: a buffer lives exactly as long as a client uses it, users of elements
  are counted, events go to the client they belong to, the cache holds what the
  origin sent, and a user has its answer when its connection is closed;
* lab31/v1: a slot is free when the counter lets a client in, slots keep apart,
  a user gets pages it asked for, in order and whole;
* lab11, lab12, lab14: the lines alternate, all are printed, no call is misused;
* lab1 to lab6, lab8: no thread outlives what it works on, the output is what was
  asked for, the program ends;
* BinaryString: an object holds the text its calls stand for, in its own memory.

The hazards behind these are listed, each at its line, in `PROJECT.json`.

## Modules

| module | models | checked by |
|---|---|---|
| `CashTransfer` | one element, one writer, any number of readers | `MCCashTransfer` |
| `ByteFeed` | what readers are promised: a growing sequence, complete at the end | implemented by `CashTransfer` |
| `CashTransferProofs` | theorems about `CashTransfer` | TLAPS |
| `Cash` | the cache's list, budget and eviction under several handlers | `MCCash` |
| `CashProofs` | theorems about `Cash` | TLAPS |
| `HandlerOneClient` | the poll loop of one handler thread | `MCHandlerOneClient` |
| `HandlerOneClientProofs` | theorems about `HandlerOneClient` | TLAPS |
| `ThreadProxy` | lab32 as a whole | `MCThreadProxy` |
| `ThreadProxyProofs` | theorems about `ThreadProxy` | TLAPS |
| `PollProxy` | lab31/v2 as a whole | `MCPollProxy` |
| `SelectProxy` | lab31/v1: either proxy, and the users' program | `MCSelectProxy` |
| `SelectProxyProofs` | theorems about `SelectProxy` | TLAPS |
| `PollProxyProofs` | theorems about `PollProxy` | TLAPS |
| `BinaryString` | the string class of lab31/v2 | `MCBinaryString` |
| `Alternation` | two parties that take turns | implemented by the next three |
| `TwoThreads` | what the next three share: main, the new thread, their lines | `MCPrinters` |
| `MutexRing` | lab11 | `MCPrinters` |
| `SemaphorePair` | lab14 | `MCPrinters` |
| `TwoMutexes` | lab12 | `MCPrinters` |
| `Workers` | what the next four share: a main that creates threads in a loop and joins them | `MCLabs` |
| `CreateJoin` | lab1 to lab3 | `MCLabs` |
| `CancelPrinter` | lab4 and lab5 | `MCLabs` |
| `SleepSort` | lab6 | `MCLabs` |
| `Series`, `PartialSums` | lab8 | `MCLabs` |
| `LabsProofs` | theorems about all the labs, one by one and as composed in `MCPrinters` and `MCLabs` | TLAPS |
| `CommonLemmas` | facts about intervals and sequences that the proof modules share | TLAPS |

`MCPrinters` and `MCLabs` instantiate several programs side by side: which one
runs is chosen at the start, the variables of the others stay as they are. The
programs never meet; one run per family keeps their common properties together.

Definitions named `...Mutant` are faulty variants of the definition that follows
them. They are not part of any specification; replacing the definition by the
variant makes TLC find the property that `PROJECT.json` names violated.

### CashTransfer

Data is counted in units: the heading is the first unit of a response, `Body`
is the declared length, `BufMax` the units one send can take. `wpc` is the place
of the writer between the statements of `wrightResponseHeading`,
`wrightResponseBody` and `deleteClientServer` that touch the element; `pc[r]` is
the place of a reader in `wrightRequestHeading`, `getFromCash` and `sendAll`.
One action is one access to shared state: fields like the length and the
connected flag are read without a common lock in the code, so each reading is an
action of its own. `signalUsers` and the list operations are one action each
because `_mutexForSubscribers` makes them so. `stale` is bookkeeping of the model:
the readers that a signal passed by between their test and `pthread_cond_wait`.
This is the lost wake-up the code allows: the mutex a reader waits with is its
own, so it protects nothing. `exit[r] = "early"` marks a reader that found the
element before `setIsServerConnect(true)` and takes it for a finished one.

### Cash

A handler is a cursor through `isElementInCash`, `findResponseInCash`,
`addCountUsers` and `addStringToCash`; elements carry the charge, the current
length, the user count. The eviction walk is step by step because `getCountUsers`
is read under a lock that `addCountUsers` does not take. `AfterErase` is the
iterator after `it = erase(it)` and the loop's own increment: it skips the next
element, and past the end it wraps to the beginning as the circular `std::list`
of libstdc++ does. `Bases` are the values the uninitialised `byteInCash` may
start from. Keys stand for hashes of headings.

### HandlerOneClient

The streams are sequences of numbered units, so a property can say that what
arrives is what was sent. Each visit of the loop to a client is three steps,
`pc = "event"`, `"check"` and `"send"` (with `"connect"` between), matching lines
62-119, 120-143 and 144-176. Before it stand the start of the server, `accept`
and the creation of the thread, with the failures of each. Only the peers act
between these steps. `live`, `pair`, `handling` and `bufLive` are the object graph
that `deleteClientUser` and `deleteClientServer` take apart. `connectToClient`
succeeds or fails. A user that hits the cache goes to `fromCash`, where
`CashTransfer` takes over.

Poll finds a peer writable or not as it likes (`room`): a slow peer has not taken
what it was sent. Only a connection that is new has room for certain. A write is one
step, `SendSome`, that may never be taken (`InWrite`). Origins speak once they have
the whole request or, with `EarlyReply`, whenever they like. One that speaks before
the request is written is read at once, and the heading, which is still in the
buffer, is found again: `ConnectSecond` connects a second server, `Read` may now find
the heading in the cache. Both end in `pc = "astray"`, from where the program is not
followed: `_pollSet` has no entry for a third client, and a `getFromCash` in the
server's turn sends to a client that is not the user. If that second connect fails,
`ConnectFails` deletes the client in turn, the first server, and the thread ends
without its user.

### ThreadProxy

One action per access to what threads share: the map, the flags, the cache, the
sockets' fates. A thread id is free again when its thread was joined, as the
stacks of an implementation are, so an insert between the join and the erase can
find its key taken (`refused`). A failed creation leaves a context under 0 or
under an id that nobody has. Where C++ leaves the behaviour undefined (an insert
that overlaps the walk, a join of an id that names no thread, a cleaner whose
object is gone) the model takes either the harmless outcome or the terminal
state `process = "undefined"`. `"killed"` is SIGPIPE or an uncaught exception.

### PollProxy

One action is what the loop does with one client between two looks at the
peers: one of the branches of `handlingEvent` with everything it calls
(`HangUp`, `Read`, `Connect`, `ConnectFails`, `Collect`, `Send`, `Idle`), then
`configurePollArr` and `acceptNewClient` at the end of the pass. `BufferImpl` and
`CashImpl` are operators that take a buffer and a cache and give the new ones.
Connection `<<u, 0>>` is the one user `u` opened, `<<u, k>>` the `k`-th one opened
for it; `b[u]` is the buffer they share and `live` says whether it was deleted.
`it` moves as `it = erase(it)` followed by `it++` does, from `end()` on to
`begin()`. A branch that looks into a deleted buffer ends in `process =
"undefined"`, a write to a peer that reset the connection in `"killed"`, a failed
`accept`, whose exception no clause catches by pointer, in `"exit"`.

`new CashImpl()` zeroes `_byteInCash`, since that class has no constructor of its
own (that of lab32v2 has one, and there the account is undefined).
`ServerImpl.cpp:120` ends with a debugging statement that prints an undeclared
name; the model is of the program without it. `SIZE_EACH_CASH_ELEMENT` is larger
than any response and left out. Origins answer once they have the whole request
(`Pending`), a restriction of the model: one that speaks first would be taken for its
user, as in `HandlerOneClient`. A second origin for one buffer is reached all the same,
by users that send more than a heading.

### SelectProxy

One pass of the loop is an accept and then, slot by slot, the reading of a request
(`phase = "read"`) and the sending of one portion (`"send"`). `byLine` says which of
the two programs runs: `proxy.c` takes all that one `read` brings for a request,
`proxy_test.c` the first line. `open` says what each descriptor is, by number,
because the program closes numbers: `clients_http_sockets` keeps that of a socket
that was closed after the fetch, and `handle_client_disconnecting` closes it once
more, by then perhaps somebody else's. `struck` remembers those it hit. A page is
its size, and `got` records which bytes of which page a user received, so that
order and gaps can be spoken of. Accesses behind an array and lengths of texts
that were never written end in `"undefined"`; bytes written just behind a block, as
the end of every title is, may also be harmless (`BehindBlock` beside `Fetch` and the
others). A fetch is one step, which is taken when the origin has closed. `client.c` is the user: it ends when
`errno` is set, which nothing ever resets.

### BinaryString

An object is its memory, cell by cell, with the size and the capacity that it
records; `text` is what the calls made so far stand for. A call is made with the
operands it is meant for, and whatever it touches outside its memory sets `stray`.
What `shiftDataNotMalloc` is for is written nowhere; its text is what its loop leaves,
so of that call only the length and the memory are judged.

### The labs

`Workers` has the loop that creates, the loop that joins, and the two ways main
ends: a return ends every thread (`"cut"`), `pthread_exit` none. A join of an
identifier that was never written is refused, ends the program, or waits for
good. `CancelPrinter` gives `pthread_testcancel` an action of its own between the
two changes of the cancel state. In `SleepSort` time passes in units of the
coefficient. In `PartialSums` a term of the series is its index and the sum says
how often it has each one; floating point is left out, the ranges are not.
`TwoMutexes` has mutexes of the default kind, which anybody may unlock.

### MutexRing and SemaphorePair

Every call on a mutex or semaphore is an action with its error results. In
`MutexRing` the build may read `ready` once before the loop (`hoisted`) or each
time, which the C standard leaves open for a plain variable. `Alternation` is
the abstract specification of both programs.

## Runs

| run | question | bounds |
|---|---|---|
| `transfer` | the string of the last copy, subscriptions, sleeping, the completeness mark; readers finish after the origin is gone; the transfer implements `ByteFeed` | 2 readers, one unit of body declared, at most 3 units, sends of 2: an origin can send less, as much and more than it declared, an element needs a whole send and a partial one |
| `cash` | budget, look-up, how far an eviction gets, and that its walk ends | 2 handlers, 5 elements, of which 3 fill the cache and one kind is too large for it, three initial accounts (less than nothing, nothing, more than the limit): the cache fills and evicts several elements in one walk |
| `cash_three` | duplicates, elements in use | 3 handlers on 2 keys, elements of two sizes: two may race while the third evicts |
| `handler` | streams, cached copy, hang-ups noticed, complete delivery, with orderly peers | 3 kinds of request, 5 kinds of response, bodies up to 2 units, every splitting into reads, peers that are slow to take what they are sent |
| `handler_any` | object graph with peers that send too much or speak too early, and who brings in a second server | as above with 2 surplus units and origins that speak whenever they like |
| `handler_rejected` | shows that a rejected user is not answered | as `handler`, peers that are never slow |
| `threads` | joins, registrations, hits, collection and stopping in lab32 | 2 connections on 2 ids (enough for reuse, refusal and waiting for a stranger), three responses of which one is empty |
| `poll` | buffers, user counts, cache and complete answers in lab31/v2 | origins that answer after the request; 2 users, 2 origins each, five scripts (two keys of which each can be hit, a POST, a malformed heading, data behind a heading, answers that are longer than announced, end by a marker or failed), sends of 2 units, a cache that two elements fill |
| `select` | slots and counter, owners of descriptors, pages in order and whole, in lab31/v1 | 2 users, 2 slots, 3 descriptors (both users and one origin), a cache of one page, pages of up to 2 portions, 3 texts typed out of a page, `/exit`, both in one write, and a text that `proxy.c` refuses and that leaves `proxy_test.c` without a host: a number can be used by an origin, closed, given to a user and closed again |
| `printers` | no call fails, one permit, alternation, everything printed, in labs 11, 12 and 14 | 10 lines per thread, as in lab11 |
| `labs` | threads that are cut off, the output, the end (unless lab6 waits for a line), in labs 1 to 6 and 8 | at most 4 threads, lines of up to 4 characters, 10 terms (4 and 3 threads leave a remainder, 2 and 1 do not) |
| `strings` | what the objects hold | 2 objects, 2 bytes, texts of up to 2 bytes, one byte of slack: appending reaches and passes the recorded capacity |

Deadlock is checked where the system never stops of itself: in `strings`, and in
`select`, whose ends are states of their own. Elsewhere the program may end, a
thread may be done, or a bound on data or connections may be reached, and such
states have no successor.

`handler_rejected` is the one run that is expected to fail. `parsHead` puts the
answer `incorrect heading` into the buffer before it throws, and the handler logs
"send error and disconnect", but it does neither: the user's poll events stay at
`POLLIN | POLLRDHUP`.

What the runs show about the code beyond that, as exceptions the properties had
to name:

* a reader can sleep for ever when a signal falls between its test and its wait
  (`stale` in `SleeperMissedNothing` and `DisconnectReleases`);
* a reader can be cut short when it looks before the writer marked the origin
  connected (`"early"` in `NoTruncation`);
* the copy into a reader's string can be longer than the string while a download
  runs (`FinalCopyFits` speaks of the last copy, where it cannot);
* an origin that speaks before the request is written makes the handler of lab32v2
  connect a second server, or leave its user undeleted; nothing else does (`SpokeFirst`
  in `ObjectsSound`);
* a peer that takes nothing more holds a handler of lab32v2 in its write, where no
  hang-up is seen (`InWrite` in `HangupNoticed` and `ResponseDelivered`, `"write"` in
  `DisconnectReleases`), and a peer that neither closes nor takes anything holds all
  of lab31/v1 (`Blocked` in `PageDelivered`);
* a cache look-up can return null, and a key can be stored twice
  (`NullOnlyAfterEviction`, `DuplicatesRaced` say when);
* in lab31/v2 a user that is served from the cache gets at most `BUF_SIZE - 1`
  bytes of what is left of a complete element, because the first send that finds
  it complete ends the work (`Answered`);
* there, data behind a heading that is still to be sent makes the proxy take the
  heading again and connect a second origin, which no flag accounts for: the
  buffer may be deleted under one of them (`BufferLifetime` holds for one origin;
  `process = "undefined"` is reached);
* in lab31/v1 an exit can close the connection of another user
  (`OwnSocket` and `OwnPages` hold until then), a full cache, an address without a
  slash and a reset connection are undefined behaviour, as is what lies behind a title
  or a full request (`BehindBlock`), and a user that leaves
  without `/exit` keeps its slot and its place in the counter for ever;
* in lab12 the new thread can lock main's partner mutex first: it prints one line
  and waits for the mutex it holds itself (`Alternates`, `AllPrinted` name the case);
* in lab8 the sum has some terms twice and lacks as many unless the number of
  threads divides the number of terms (`TermsSummed`), and a thread that could not
  be created contributes a number nobody computed;
* in lab6 a string created late comes out late (`Sorted`), and main may join what
  was never an identifier;
* in lab32 a client can be refused by the map and never joined (`Registered`),
  the cleaner can wait for a stranger (`EndedIsCollected`), and clients accepted
  just before "q" are not waited for.

## Fairness

Weak fairness is assumed of steps a thread takes by itself: threads are scheduled,
mutexes are free again after a few steps, a poll or select with a timeout returns, a
`connect` of lab32v2 succeeds or fails. Nothing is assumed of peers (with one
exception, below), of stdin, or of spurious wake-ups. A call that returns only when a
peer or stdin lets it is taken out of the fairness, and a liveness property has the
alternative that the program waits in such a call for ever, written `<>[]`:

| module | fair to | not fair to, and the alternative |
|---|---|---|
| `CashTransfer` | the writer's own steps, each reader | what the origin sends, its closing; a reader's `Write`: `<>[](pc[r] = "write")` |
| `Cash` | the steps of a walk | |
| `HandlerOneClient` | the loop, whose poll returns at least every ten seconds | `SendSome`: `<>[]InWrite`; `getFromCash` |
| `ThreadProxy` | the cleaner, a client thread between its calls to peers, the server but for its waits for input | what waits for peers or stdin; no property asks for it |
| `SelectProxy` | the loop, whose selects time out | `connect`, the fetch, and writing to a user that is there: `<>[]Blocked` |
| `MCLabs` | main and every thread | lab6's `getline`: `<>[]AwaitsLine` |
| `MCPrinters` | main and every thread | |

The exception is a strong fairness in `HandlerOneClient`: polls find the user's socket
writable again and again, if not at any particular moment. Without it nothing could be
delivered; `ResponseDelivered` is the property that needs it.

In `MCPrinters` weak fairness suffices because at most one thread waits for a mutex or
semaphore at any time. The clock of `SleepSort` moves only when nobody is due: a thread
prints within the unit in which its sleep ends, which is what sorting by sleeping takes
for granted. `PollProxy` and `BinaryString` have only safety properties (`Delivered` is
one of steps) and assume nothing.

Failures that the code offers no way out of are exempt by name in these properties, so
that they say what else could go wrong and does not: a lost wake-up (`stale`), a main
of lab11 that reads the flag once (`hoisted`), a thread that could not be created
(`failed`).

## Proofs

`CashTransferProofs`: `IInv` is inductive for any set of readers, any declared
length, any bound on the data and any size of a send. The safety properties are
not inductive by themselves. `NoTruncation` needs to know that a reader that
decided to leave because of a closed origin works on a final length (`ExitInv`),
which needs the flags to follow the writer's place (`WriterInv`); the signals
reach only live variables because subscriptions lie within the life of a
reader's resources (`SubscriptionInv`); `SleepInv` says what was true when a
reader tested and what may have changed since. `LastCopyFits` follows from `ExitInv`:
the last copy works on a final length. `CopyStaysInside`, that no copy goes past the
end of the element, is a part of the invariant and not listed in the run. The
refinement `ImplementsFeed` follows from the invariant, with one case per action.

`CashProofs`: for any set of handlers, keys, lengths and starting accounts. `IInv`
says, for each place of a handler, what it may rely on between the critical
sections. The counter of an element is the number of threads that use it
(`UsersInv`); what is listed under the key of a thread that saw it unlisted was
added later (`KnownInv`), which is how a key comes to be stored twice; a thread that
saw its key listed finds it unless it was evicted since (`FindInv`). For the walk,
the elements that the iterator is past and that were idle throughout are no more
than those erased (`PassedInv`), because each erasure skips one: hence a walk that
ends with too little room has left no more idle elements than it erased
(`Exhausted`). `BudgetInv` is a second inductive invariant, of sums: each element
that is being downloaded is charged for the whole of what its origin declared, each
other one for what it holds, and the sum of these charges is at most `byteInCash`
minus what it started from. The sum is a recursive function; that it has a solution,
and what appending, erasing and moving an element do to it, are lemmas. `Budget` has
the hypothesis `Overrun = 0`, that no origin sends more than it declared, as in both
configurations: the code charges the declared length and stores what comes.

`HandlerOneClientProofs`: for every size of a read and a send, every length of the
headings, every request, response and surplus, with origins that speak after the
request or whenever they like. The objects are sound (`ObjectsSound`) because nobody
but an origin that speaks first brings in a second server, and that is not evident: a
GET leaves the buffer in `WRITE_REQUEST_HEADING` when its server is connected and until
the request is written, so any read before that finds the heading again and connects
again. `FirstTurn` says who can be read in between. The server is in front of the user
in the list, a new connection is writable, and one write takes the whole request
(`ReqHead + Extra <= BufMax`, an assumption of the model: a GET and what comes with it
fit into one buffer). So the server's first turn writes the request away unless there
is something to read from it, which is the origin that speaks first; and if that read
fails, its turn is over and the user behind it may be read. In both cases
`SpokeFirst` holds. `ListSound` and `LinksSound` relate the list to `live`, `pair`,
`handling` and the flags of the buffer; `StatusSound` says which statuses of the two
sides go together; `ElementSound` says that a connected element is the one this buffer
fills, which gives `ElementFollowsServer`. One lemma per operation of the buffer says
what it does to the fields the invariant speaks of, one lemma per action that the
invariant is kept. `MessageAssumption` types the messages: a GET has no body, what a
user sends behind one is counted by `Extra`.

`Streams` and `CacheHoldsResponse` are proved in the same module for peers that keep
to the protocol (`OrderlyPeers`: nothing behind the request, no response before all
of it arrived), as in the configuration `MCHandlerOneClient`. Without that
hypothesis they do not hold, since the buffer is one for both directions: TLC finds
`Streams` violated with early replies and with a surplus, `CacheHoldsResponse` with
a surplus. The invariant `StreamInv` says that the buffer always holds a run of
consecutive units of one sender that ends at what was read from it, and that the
receiver has exactly the run before (`RequestHeld`, `RequestSent`,
`ResponseStreams`). The status of the client's side tells whose units they are; an
orderly origin has sent nothing while the request is not out, so a read brings only
the side whose turn it is. `Answering` and `ElementStreams` add the countdown: while
a body is passed on `lengthBody` is what is still to come of it, which is why the
last read is recognised, for the user and for the element.

`LabsProofs` has one part per program and the compositions. For `MutexRing` the
invariant gives, for each pair of places of the two threads, who holds which mutex;
it follows that nobody locks what it holds or unlocks what it does not, and that a
line is printed only in turn. For `SemaphorePair` the two counters and the threads
between wait and post add up to one, and the count of lines determines where the
permit is. For `TwoMutexes` the invariant says who holds which mutex unless the new
thread was first. All are proved for every number of lines. Each step of
`MCPrinters` is a step of the program that was chosen and leaves the others alone
(`RunsRing`, `RunsPair`, `RunsTwo`), so the three invariants give `NoMutexError`,
`OnePermit` and `Alternates` as the run states them.

The programs of `MCLabs` come next, `NobodyCutOff` and `RightOutput` being what they
have in common. In lab1 to lab3 what became of a thread follows from where main is
and from its loop variable: in the loop of joins the threads below it are joined, in
the loop before those from it on are not created yet; main is back with no thread at
work, unless a `pthread_create` of lab3 failed. In lab4 and lab5 the thread is over
exactly when it left at its test, which is after the request. In lab6 no sleeping
thread is overdue: time passes only as far as the next line that is due, so whatever
is printed is due no later than what is still asleep, and the output is sorted
(`SleepSorted`). In lab8 the ranges are intervals of the quotient, the first ones
longer by one, so a term lies in one range or in two neighbouring ones
(`SumIsKnown`, with the arithmetic of division in lemmas of its own); that main has
added exactly the results of the threads below `k`, each the range of its arguments,
is the inductive part. When the quotient is exact nothing overlaps (`SumIsWhole`). A
run of the composition is one of the program it starts as (`RunsJoin`, `RunsCancel`,
`RunsSleep`, `RunsSums`), which carries the four invariants to `NobodyIsCutOff` and
`OutputIsRight`. The only assumption added is that `MaxLength` is a natural number.

`SelectProxyProofs`: `CountInv` says that the slots taken are no more than the
counter counts, which an accept that fails, an exit and a fetch all keep; so a slot
is free when the counter lets a client in, and the loop of `find_free_client_index`
ends at one (`LeastMember`). `SocketInv` says that until a number was struck every
slot has the descriptor of a user, and no two the same; an accept keeps it because
the descriptor it gets was free, an exit because it is the exit that strikes.
`PageInv`, for `OwnPages`, relates what a user said, what of it is unread, what its
slot sends and what it got: the unread part is the end of what was said, so a
request (or its first line, or what `try_find_at_cache` finds under the same title)
is part of what the user said; the slot's `sent_bytes` is the position of the last
byte of the page that the user has (`Follows`), so a portion goes on there; two
slots have different users, so no other slot writes in between. The one word that
`proxy_test.c` makes up (`"cut"`, of an unfinished last line) is in no page that a
user who is still there receives without having typed it. Nothing is said of a user
that left.

`ThreadProxyProofs`: `MapInv` says that an entry of the map is a context with that
id, and that the cleaner joins one that has stopped working; `GoneInv` that what was
joined has ended and what was deleted has no thread; `DeadInv` that a thread under a
key which is about to be erased is not lost with it: it was refused, or it is the
one the server is just inserting. `DataInv` is the invariant about the cache and the
sockets: entries are written once, and each place of a client thread has its set of
open descriptors.

`PollProxyProofs`: for any users, any scripts and any number of origins of a user. A
client that leaves is taken from the list in the middle of the loop, and the last
client of a user takes the buffer with it; that the next client still finds its own
buffer is `BufferLifetime`. `LinksInv` relates the two flags of a buffer to the
list: its user is listed as long as `clientConnect` says so, an origin is listed
whenever `serverConnect` says so, and the converse holds while there has been one
origin only. The second one is what the code does not foresee: when it or the first
one leaves, the flag is cleared for both. So an allocated buffer always has a
client, and with one origin no client is without a buffer. `ListInv` (nobody is
listed twice) and `PositionInv` (the iterator stays on the list while clients are
handled) say that erasing takes the right one; `ComingInv` that users come in order,
so a new one finds nothing of its own. For `UsersCounted` the counts change where a
hit adds one and where a user ends, hangs up or fails, which takes one only if it is
served from the cache (`CountInv`). A new element starts from zero, and that nobody
is counted for it already is `ElementInv`: the element that an unanswered buffer is
going to fill is neither listed nor anybody's. `StatusInv` says which statuses go
together, which is why a buffer that is served from the cache is never connected to
an origin. The eviction is a walk of as many rounds as it can take: what each round
keeps, the walk keeps (`Carried`), so it only drops elements. The assumption added
is `ScriptsAssumption`: the marker of a user that did not come is nobody's request.

`CacheConsistent` has an invariant of its own on top of that one, `CInv`. `KeysInv`
is its first half with the kind of the requests: a key is looked for and stored in
one step, and a hit or an eviction only moves or drops elements. The second half
follows the stream of every user that sends a GET and nothing behind it
(`TrackInv`): its heading is coming (`Asking`), is on its way to the only origin
(`Forwarding`), the heading of the answer is coming (`AwaitingHeading`), its body
(`Answering`), or nothing that comes matters (`Finished`). Each of them says what is
in the buffer and how many units were read, so that `AskingRead`, `AwaitingRead`,
`AnsweringRead` and `FinishedRead` can say what the next read does, and `SentTrack`
what a send does. The whole heading goes in one write, since it fits into
`BUF_SIZE`; were a part of it left, more of the user's stream would be taken for the
answer. In the body `_lengthBody` is what was announced less what was read, up to
multiples of its width (`LeftStep`); an element ends at zero, and as an announced
length is below that width, no less than it was read then (`LeftNothing`). That a
step leaves the other users' streams and elements alone is `ContentsKeep`, and it
needs `OwnedInv`: a buffer that adds data to the cache adds it to its own user's
element. Of a user that sends more behind its heading nothing is said: its second
heading brings a second origin. `LengthsAssumption` says what the scripts are: what
follows a GET is `extra`, an answer's body has a length, and `atoi` makes an int
of the digits of `Content-Length`, which is smaller than `_lengthBody` can be.

`CommonLemmas` proves that a set of numbers up to a bound has a least member, from
the library's theorem that the strict subsets of a finite set are well-founded: the
intervals up to the members are such sets. What every step of an interval keeps is
then kept to its end, which stands for induction over rounds. The other lemmas say
what erasing and appending do to a list and to the set of its entries. All proofs
rest only on the named assumptions on the constants.

Only model-checked: every liveness property, since liveness under fairness and
`ENABLED` are out of the prover's reach; `Delivered` of lab31/v2, `HoldsText` of
the string class. Induction over data and recursive
operators are out of reach as well; none of the modules here declares one.

## Not modelled

* Failures of `pthread_mutex_lock`, `unlock` and `pthread_cond_wait` in lab32v2:
  the calls are used as specified and have no error to return.
* Short writes: a write takes the whole string or fails.
* A failure of `bind` and `listen` in lab31/v1, which the program does not look at;
  what a page says there, and the date that a new user is sent.
* A failure of `poll`, and more than 65000 connections, in lab31/v2.
* Texts: a heading is one of a few kinds. Collisions of hashes, numbers that
  `atoi` cannot represent, and host names (with the static result of
  `gethostbyname`) are outside the models.
* Memory that is never freed (evicted elements, arguments of threads), descriptors
  in lab32v2. The loggers, which only write a file and are read by nobody.
* `acceptNewClient` and `closeSocket` of lab32v2, which nothing calls, and the empty
  classes of lab32.
* The generated build trees.

## Plan

1. A composition of `HandlerOneClient`, `Cash` and `CashTransfer`: handlers that
   hit, miss and evict in one state. The three together are beyond one run; it
   needs a handler reduced to its accesses to the cache.
2. Proofs: `Delivered` of `PollProxy`, from `CInv` and what a user was sent so far;
   `HoldsText` of `BinaryString`.
3. Liveness of `PollProxy` (a peer that hangs up is noticed) on a smaller instance.
