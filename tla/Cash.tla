-------------------------------- MODULE Cash --------------------------------
(***************************************************************************)
(* The cache of lab32v2 as its handler threads share it: the list of       *)
(* elements in the order of use, the account byteInCash, the eviction walk *)
(* of addStringToCash, and the calls of BufferImpl that surround them.     *)
(*                                                                         *)
(* Modelled: CashImpl, the counters of CashElementImpl, and the order in   *)
(* which wrightRequestHeading and wrightResponseHeading use them.  A key   *)
(* is the hash of a request heading.  One action is one critical section   *)
(* of CashImpl's mutex, except the walk: what it reads of the elements     *)
(* (users, length) changes under other locks meanwhile, so it is a test    *)
(* and an erasure for each element.                                        *)
(***************************************************************************)
EXTENDS Integers, Sequences, FiniteSets, SequencesExt

CONSTANTS
    Threads,      \* handler threads
    Keys,         \* hashes of request headings
    NoKey,        \* not a key: the thread has no request yet
    Lengths,      \* lengths an origin may declare, its heading included
    HeadingSize,  \* size of a request heading
    MaxCashSize,  \* MAX_CASH_SIZE
    MaxElement,   \* SIZE_EACH_CASH_ELEMENT
    Bases,        \* values the uninitialised byteInCash may start with
    Overrun,      \* units an origin may send beyond what it declared
    MaxElements   \* bound: elements ever added

ASSUME SizeAssumption ==
    /\ Lengths \subseteq Nat /\ HeadingSize \in Nat /\ Overrun \in Nat
    /\ MaxCashSize \in Nat /\ MaxElement \in Nat /\ Bases \subseteq Int

ASSUME KeyAssumption == NoKey \notin Keys
ASSUME ThreadAssumption == "free" \notin Threads

VARIABLES
    listCash,    \* _listCash, least recently found first
    elements,    \* every element ever added; none is freed
    byteInCash,
    mutex,       \* the thread inside addStringToCash's walk, or "free"
    thread,      \* each handler thread: where it stands and what it works with
    crashed,     \* a null element was used
    base,        \* history: what byteInCash started with
    walk         \* history: what happened to the elements during the current walk

vars == <<listCash, elements, byteInCash, mutex, thread, crashed, base, walk>>

\* key: its request; dataSize: what the response will take; cash: _cashElement;
\* it: its iterator; lost (history): its key was evicted since it saw it listed;
\* known (history): elements there were when it saw its key unlisted.
NewThread == [pc |-> "idle", key |-> NoKey, dataSize |-> 0, cash |-> 0, it |-> 0,
              lost |-> FALSE, known |-> 0]
NoWalk == [start |-> {}, busy |-> {}, idle |-> {}, erased |-> 0]

Init ==
    /\ listCash = <<>>
    /\ elements = <<>>
    /\ byteInCash \in Bases
    /\ mutex = "free"
    /\ thread = [t \in Threads |-> NewThread]
    /\ crashed = FALSE
    /\ base = byteInCash
    /\ walk = NoWalk

At(t, label) == thread[t].pc = label
Listed(k) == \E e \in ToSet(listCash) : elements[e].key = k
Used(es) == {e \in DOMAIN es : es[e].users > 0}

\* The thread ends; another one takes its place here.
Leave(t) == thread' = [thread EXCEPT ![t] = NewThread]

-----------------------------------------------------------------------------
(* A user's request.                                                       *)

\* A request arrives and isElementInCash is asked, line 32.
IsElementInCash(t) ==
    /\ At(t, "idle") /\ mutex = "free"
    /\ \E k \in Keys :
         thread' = [thread EXCEPT ![t].key = k,
                                  ![t].pc = IF Listed(k) THEN "find" ELSE "miss"]
    /\ UNCHANGED <<listCash, elements, byteInCash, mutex, crashed, base, walk>>

\* Mutant: the splice loses the element.
FindResponseInCashLossMutant(t) ==
    /\ At(t, "find") /\ mutex = "free"
    /\ IF Listed(thread[t].key)
         THEN LET n == SelectInSeq(listCash, LAMBDA e : elements[e].key = thread[t].key)
              IN  /\ thread' = [thread EXCEPT ![t].cash = listCash[n], ![t].pc = "count"]
                  /\ listCash' = RemoveAt(listCash, n)
                  /\ UNCHANGED crashed
         ELSE crashed' = TRUE /\ UNCHANGED <<thread, listCash>>
    /\ UNCHANGED <<elements, byteInCash, mutex, base, walk>>

\* findResponseInCash moves the first match to the end; without a match the
\* next line calls a method of a null pointer.
FindResponseInCash(t) ==
    /\ At(t, "find") /\ mutex = "free"
    /\ IF Listed(thread[t].key)
         THEN LET n == SelectInSeq(listCash, LAMBDA e : elements[e].key = thread[t].key)
              IN  /\ thread' = [thread EXCEPT ![t].cash = listCash[n], ![t].pc = "count"]
                  /\ listCash' = Append(RemoveAt(listCash, n), listCash[n])
                  /\ UNCHANGED crashed
         ELSE crashed' = TRUE /\ UNCHANGED <<thread, listCash>>
    /\ UNCHANGED <<elements, byteInCash, mutex, base, walk>>

\* The counter of users, and what the walk in progress cannot know of it.
CountUsers(t, change) ==
    /\ elements' = [elements EXCEPT ![thread[t].cash].users = @ + change]
    /\ walk' = IF mutex = "free" THEN walk
               ELSE [walk EXCEPT !.busy = @ \cup Used(elements'),
                                 !.idle = @ \cup (DOMAIN elements' \ Used(elements'))]
    /\ UNCHANGED <<listCash, byteInCash, mutex, crashed, base>>

AddCountUsers(t) ==
    /\ At(t, "count")
    /\ CountUsers(t, 1)
    /\ thread' = [thread EXCEPT ![t].pc = "use"]

\* The user was served or left: deleteClientUser, line 208.
MinusCountUsers(t) ==
    /\ At(t, "use")
    /\ CountUsers(t, -1)
    /\ Leave(t)

-----------------------------------------------------------------------------
(* A response that is to be cached.                                        *)

\* Mutant: line 73 does not ask again.
CheckBeforeAddMutant(t) ==
    /\ At(t, "miss") /\ mutex = "free"
    /\ \/ Leave(t)
       \/ /\ \E n \in Lengths :
               thread' = [thread EXCEPT ![t].dataSize = n + HeadingSize,
                                        ![t].known = Len(elements), ![t].pc = "add"]
    /\ UNCHANGED <<listCash, elements, byteInCash, mutex, crashed, base, walk>>

\* The heading of the response is in: not to be cached, or cached already (line
\* 73), or it is to be added.
CheckBeforeAdd(t) ==
    /\ At(t, "miss") /\ mutex = "free"
    /\ \/ Leave(t)
       \/ /\ ~Listed(thread[t].key)
          /\ \E n \in Lengths :
               thread' = [thread EXCEPT ![t].dataSize = n + HeadingSize,
                                        ![t].known = Len(elements), ![t].pc = "add"]
    /\ UNCHANGED <<listCash, elements, byteInCash, mutex, crashed, base, walk>>

\* Mutant: the limit counts as free.
FitsMutant(t, bytes) == bytes + thread[t].dataSize <= MaxCashSize

Fits(t, bytes) == bytes + thread[t].dataSize < MaxCashSize

\* The element that is made: empty, of the heading of the request.
NewCashElement(t) == [key |-> thread[t].key, length |-> 0, users |-> 0, known |-> thread[t].known]

\* Lines 71-79.
PushBack(t) ==
    /\ byteInCash' = byteInCash + thread[t].dataSize
    /\ elements' = Append(elements, NewCashElement(t))
    /\ listCash' = Append(listCash, Len(elements) + 1)
    /\ thread' = [thread EXCEPT ![t].cash = Len(elements) + 1, ![t].pc = "download"]
    /\ mutex' = "free"
    /\ walk' = NoWalk
    /\ UNCHANGED <<crashed, base>>

Refuse(t) ==
    /\ Leave(t)
    /\ mutex' = "free"
    /\ walk' = NoWalk
    /\ UNCHANGED <<listCash, elements, byteInCash, crashed, base>>

StartWalk(t) ==
    /\ mutex' = t
    /\ thread' = [thread EXCEPT ![t].it = 1, ![t].pc = "evict"]
    /\ walk' = [start |-> ToSet(listCash), busy |-> Used(elements),
                idle |-> DOMAIN elements \ Used(elements), erased |-> 0]
    /\ UNCHANGED <<listCash, elements, byteInCash, crashed, base>>

AddStringToCash(t) ==
    /\ At(t, "add") /\ mutex = "free"
    /\ Len(elements) < MaxElements
    /\ IF thread[t].dataSize > MaxElement THEN Refuse(t)
       ELSE IF Fits(t, byteInCash) THEN PushBack(t)
       ELSE StartWalk(t)

\* Mutant: an element with one user counts as unused.
EvictTestUserMutant(t) ==
    /\ At(t, "evict") /\ thread[t].it <= Len(listCash)
    /\ thread' = IF elements[listCash[thread[t].it]].users <= 1
                   THEN [thread EXCEPT ![t].pc = "erase"]
                   ELSE [thread EXCEPT ![t].it = @ + 1]
    /\ UNCHANGED <<listCash, elements, byteInCash, mutex, crashed, base, walk>>

\* Mutant: the walk starts over until there is room.
EvictTestRetryMutant(t) ==
    /\ At(t, "evict") /\ thread[t].it <= Len(listCash)
    /\ thread' = IF elements[listCash[thread[t].it]].users <= 0
                   THEN [thread EXCEPT ![t].pc = "erase"]
                   ELSE [thread EXCEPT ![t].it = IF @ = Len(listCash) THEN 1 ELSE @ + 1]
    /\ UNCHANGED <<listCash, elements, byteInCash, mutex, crashed, base, walk>>

\* getCountUsers reads the counter without the lock that guards it.
EvictTest(t) ==
    /\ At(t, "evict") /\ thread[t].it <= Len(listCash)
    /\ thread' = IF elements[listCash[thread[t].it]].users <= 0
                   THEN [thread EXCEPT ![t].pc = "erase"]
                   ELSE [thread EXCEPT ![t].it = @ + 1]
    /\ UNCHANGED <<listCash, elements, byteInCash, mutex, crashed, base, walk>>

\* Mutant: the walk stops after one erasure.
AfterEraseMutant(i, n) == n + 1

\* The loop's it++ after it = erase(it), n elements left: it skips one, and from
\* end() it goes on to begin(), as in the circular std::list of libstdc++.
AfterErase(i, n) == IF n > 0 /\ i > n THEN 1 ELSE i + 1

\* The account gets back what the element holds now.
EvictErase(t) ==
    /\ At(t, "erase")
    /\ LET e == listCash[thread[t].it]
           rest == RemoveAt(listCash, thread[t].it)
       IN  /\ listCash' = rest
           /\ byteInCash' = byteInCash - elements[e].length - HeadingSize
           /\ thread' = [u \in Threads |->
                IF u = t
                  THEN [thread[t] EXCEPT !.it = AfterErase(@, Len(rest)),
                                         !.pc = IF Fits(t, byteInCash') THEN "walked" ELSE "evict"]
                  ELSE [thread[u] EXCEPT !.lost = @ \/ (At(u, "find") /\ thread[u].key = elements[e].key)]]
    /\ walk' = [walk EXCEPT !.erased = @ + 1]
    /\ UNCHANGED <<elements, mutex, crashed, base>>

\* The walk is over; lines 63-70.
WalkIsOver(t) == At(t, "walked") \/ (At(t, "evict") /\ thread[t].it > Len(listCash))

EndOfWalk(t) ==
    /\ WalkIsOver(t)
    /\ IF Fits(t, byteInCash) THEN PushBack(t) ELSE Refuse(t)

\* appendStringToCash, until the response is complete or the origin is gone.
AppendStringToCash(t) ==
    /\ At(t, "download")
    /\ elements[thread[t].cash].length < thread[t].dataSize - HeadingSize + Overrun
    /\ elements' = [elements EXCEPT ![thread[t].cash].length = @ + 1]
    /\ UNCHANGED <<listCash, byteInCash, mutex, thread, crashed, base, walk>>

EndDownload(t) ==
    /\ At(t, "download")
    /\ Leave(t)
    /\ UNCHANGED <<listCash, elements, byteInCash, mutex, crashed, base, walk>>

-----------------------------------------------------------------------------
Step(t) ==
    \/ IsElementInCash(t) \/ FindResponseInCash(t) \/ AddCountUsers(t) \/ MinusCountUsers(t)
    \/ CheckBeforeAdd(t) \/ AddStringToCash(t)
    \/ EvictTest(t) \/ EvictErase(t) \/ EndOfWalk(t)
    \/ AppendStringToCash(t) \/ EndDownload(t)

Next == ~crashed /\ \E t \in Threads : Step(t)

Spec == Init /\ [][Next]_vars

\* A thread inside the walk is not waiting for anything.
Fairness == \A t \in Threads : WF_vars(~crashed /\ (EvictTest(t) \/ EvictErase(t) \/ EndOfWalk(t)))
FairSpec == Spec /\ Fairness

-----------------------------------------------------------------------------
(* Properties.                                                             *)

Places == {"idle", "find", "miss", "count", "use", "add", "evict", "erase", "walked", "download"}

TypeOK ==
    /\ listCash \in Seq(DOMAIN elements)
    /\ elements \in Seq([key : Keys, length : Nat, users : Int, known : Nat])
    /\ byteInCash \in Int /\ base \in Int
    /\ mutex \in Threads \cup {"free"}
    /\ thread \in [Threads -> [pc : Places, key : Keys \cup {NoKey}, dataSize : Nat,
                               cash : 0..Len(elements), it : Nat, lost : BOOLEAN, known : 0..Len(elements)]]
    /\ crashed \in BOOLEAN
    /\ walk \in [start : SUBSET DOMAIN elements, busy : SUBSET DOMAIN elements,
                 idle : SUBSET DOMAIN elements, erased : Nat]

\* What the listed elements hold is covered by the account and stays below
\* MAX_CASH_SIZE, whatever is evicted in the middle of its download and in whatever order
\* threads add, if no origin sends more than it declared (Overrun = 0: the code charges
\* what is declared and stores what comes).
SumUpTo(w) == LET sum[n \in 0..Len(w)] == IF n = 0 THEN 0 ELSE sum[n - 1] + w[n] IN sum
Total(w) == SumUpTo(w)[Len(w)]
Holdings == Total([n \in DOMAIN listCash |-> elements[listCash[n]].length + HeadingSize])
WithinBudget ==
    /\ Holdings <= byteInCash - base
    /\ base < MaxCashSize => Holdings < MaxCashSize - base

\* A hit finds no element only if its key was evicted between the two calls.
NullOnlyAfterEviction == crashed => \E t \in Threads : At(t, "find") /\ thread[t].lost

\* Two listed elements of one key come from two misses that were in flight
\* together: the second thread looked before the first element was there.
DuplicatesRaced ==
    \A e, f \in ToSet(listCash) :
        e < f /\ elements[e].key = elements[f].key => elements[f].known < e

\* A walk takes no element that somebody used before it and during all of it.
UsersKeepElement == mutex # "free" => walk.start \ walk.idle \subseteq ToSet(listCash)

\* A walk that went through the list left no more unused elements than it
\* evicted (it does leave some: the iterator skips one after each erasure).
Exhausted == \A t \in Threads :
    At(t, "evict") /\ WalkIsOver(t) => Cardinality(ToSet(listCash) \ walk.busy) <= walk.erased

\* The walk ends and frees the mutex, though its iterator may start over.
WalkEnds == \A t \in Threads : mutex = t ~> (mutex # t \/ crashed)
=============================================================================
