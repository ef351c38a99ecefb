---------------------------- MODULE CashTransfer ----------------------------
(***************************************************************************)
(* One element of the cache of lab32v2 while it is shared: the handler     *)
(* thread of the user that missed downloads the response into it (the      *)
(* writer), the handler threads of the users that hit read from it.        *)
(*                                                                         *)
(* Modelled: CashElementImpl, the cache branches of BufferImpl, and        *)
(* getFromCash / sendAll of HandlerOneClientImpl.  A response is a number  *)
(* of units, its heading is one unit.  One action is one access to shared  *)
(* state: a read or a store of an unlocked field, or one critical section  *)
(* of _mutexForSubscribers or _mutexForData.                               *)
(***************************************************************************)
EXTENDS Integers

CONSTANTS
    Readers,    \* handler threads that hit in the cache
    Body,       \* Content-Length the origin declared
    MaxLength,  \* bound: units the origin sends at most, heading included
    BufMax      \* units that BUF_SIZE - 1 bytes stand for

ASSUME BodyAssumption == Body \in Nat
ASSUME LengthAssumption == MaxLength \in Nat \ {0}
ASSUME BufAssumption == BufMax \in Nat \ {0}

VARIABLES
    length,           \* size of _cash
    downloadEnd,      \* _isDownloadEnd
    serverConnected,  \* _isServerConnected
    subscribers,      \* _listSubscribers: whose condition variables
    countUsers,       \* _countConnectedUsers
    wpc,              \* where the writer stands
    chunk,            \* units the writer has just appended
    lengthBody,       \* _lengthBody of the writer's buffer
    pc,               \* where each reader stands
    count,            \* _countByteReadFromCash of each reader's buffer
    ready,            \* _isReadyToSend of each reader's buffer
    target,           \* size of the string a reader sends from
    exit,             \* why a reader leaves, or is about to
    alive,            \* readers whose mutex and cond are initialised
    stale             \* readers a signal passed between their test and their wait

element == <<length, downloadEnd, serverConnected>>
writer == <<wpc, chunk, lengthBody>>
cursor == <<count, ready, target>>
vars == <<element, subscribers, countUsers, writer, pc, cursor, exit, alive, stale>>

Declared == 1 + Body

Opening == {"absent", "head", "headSignal", "setEnd", "connect"}
WriterPc == Opening \cup
    {"headEnd", "body", "bodySignal", "bodyEnd", "discSignal", "gone", "pollError"}

InLoop == {"test", "testReady", "wait", "waiting", "leaveTest", "readyTest",
           "sendLoop", "fill", "resize", "copy", "write", "proof"}
ReaderPc == InLoop \cup
    {"search", "found", "hit", "subscribe", "unsubscribe", "release", "uncount", "done"}

Exits == {"none", "early", "closed", "failed", "noResources"}

Goto(r, label) == pc' = [pc EXCEPT ![r] = label]

-----------------------------------------------------------------------------
(* The writer.                                                             *)

\* addStringToCash makes the element and publishes it: hits find it from here on.
AddElement ==
    /\ wpc = "absent"
    /\ wpc' = "head"
    /\ UNCHANGED <<element, subscribers, countUsers, chunk, lengthBody, pc, cursor, exit, alive, stale>>

\* What a reader has tested is out of date, and it does not wait yet.
PassedBy(r) == pc[r] = "wait" \/ (pc[r] = "testReady" /\ ~serverConnected)

\* Signalling every subscriber wakes those that wait and passes the others by.
SignalUsers(next) ==
    /\ wpc' = next
    /\ pc' = [r \in Readers |->
                IF r \in subscribers /\ pc[r] = "waiting" THEN "test" ELSE pc[r]]
    /\ stale' = stale \cup {r \in subscribers : PassedBy(r)}
    /\ UNCHANGED <<element, subscribers, countUsers, chunk, lengthBody, cursor, exit, alive>>

\* The heading arrives together with the start of the body.
AppendHead ==
    /\ wpc = "head"
    /\ \E n \in 1..MaxLength :
         /\ length' = n
         /\ chunk' = n
    /\ wpc' = "headSignal"
    /\ UNCHANGED <<downloadEnd, serverConnected, subscribers, countUsers, lengthBody,
                   pc, cursor, exit, alive, stale>>

HeadSignal == wpc = "headSignal" /\ SignalUsers("setEnd")

SetDownloadNotEnd ==
    /\ wpc = "setEnd"
    /\ downloadEnd' = FALSE
    /\ wpc' = "connect"
    /\ UNCHANGED <<length, serverConnected, subscribers, countUsers, chunk, lengthBody,
                   pc, cursor, exit, alive, stale>>

\* Mutant: the element is not marked as connected.
SetConnectedMutant ==
    /\ wpc = "connect"
    /\ wpc' = "headEnd"
    /\ UNCHANGED <<element, subscribers, countUsers, chunk, lengthBody,
                   pc, cursor, exit, alive, stale>>

\* setIsServerConnect(true) signals nobody.
SetConnected ==
    /\ wpc = "connect"
    /\ serverConnected' = TRUE
    /\ wpc' = "headEnd"
    /\ UNCHANGED <<length, downloadEnd, subscribers, countUsers, chunk, lengthBody,
                   pc, cursor, exit, alive, stale>>

\* The countdown of the body, and the mark that it is complete.
CountBody(left) ==
    /\ lengthBody' = left
    /\ downloadEnd' = (downloadEnd \/ left <= 0)
    /\ wpc' = "body"
    /\ UNCHANGED <<length, serverConnected, subscribers, countUsers, chunk,
                   pc, cursor, exit, alive, stale>>

\* Mutant: the heading is counted as body.
HeadEndMutant == wpc = "headEnd" /\ CountBody(Body - chunk)

HeadEnd == wpc = "headEnd" /\ CountBody(Body - (chunk - 1))

\* More of the response arrives, declared or not.
AppendBody ==
    /\ wpc = "body"
    /\ \E n \in 1..(MaxLength - length) :
         /\ length' = length + n
         /\ chunk' = n
    /\ wpc' = "bodySignal"
    /\ UNCHANGED <<downloadEnd, serverConnected, subscribers, countUsers, lengthBody,
                   pc, cursor, exit, alive, stale>>

BodySignal == wpc = "bodySignal" /\ SignalUsers("bodyEnd")

BodyEnd == wpc = "bodyEnd" /\ CountBody(lengthBody - chunk)

\* Mutant: nobody is told.
DisconnectMutant ==
    /\ wpc = "body"
    /\ serverConnected' = FALSE
    /\ wpc' = "gone"
    /\ UNCHANGED <<length, downloadEnd, subscribers, countUsers, chunk, lengthBody,
                   pc, cursor, exit, alive, stale>>

\* The origin closed, or the response is complete: deleteClientServer.
Disconnect ==
    /\ wpc = "body"
    /\ serverConnected' = FALSE
    /\ wpc' = "discSignal"
    /\ UNCHANGED <<length, downloadEnd, subscribers, countUsers, chunk, lengthBody,
                   pc, cursor, exit, alive, stale>>

DisconnectSignal == wpc = "discSignal" /\ SignalUsers("gone")

\* poll fails in the writer's thread: it leaves its loop and drops everything as it is.
PollError ==
    /\ wpc = "body"
    /\ wpc' = "pollError"
    /\ UNCHANGED <<element, subscribers, countUsers, chunk, lengthBody, pc, cursor, exit, alive, stale>>

-----------------------------------------------------------------------------
(* A reader, from its look-up to the end of its thread.                    *)

Unshared == UNCHANGED <<element, writer>>

\* isElementInCash and findResponseInCash return the element.
Search(r) ==
    /\ pc[r] = "search"
    /\ wpc # "absent"
    /\ Goto(r, "found")
    /\ Unshared /\ UNCHANGED <<subscribers, countUsers, cursor, exit, alive, stale>>

AddCountUsers(r) ==
    /\ pc[r] = "found"
    /\ countUsers' = countUsers + 1
    /\ Goto(r, "hit")
    /\ Unshared /\ UNCHANGED <<subscribers, cursor, exit, alive, stale>>

InitializeResources(r) ==
    /\ pc[r] = "hit"
    /\ \/ /\ alive' = alive \cup {r}
          /\ Goto(r, "subscribe")
          /\ UNCHANGED exit
       \/ /\ exit' = [exit EXCEPT ![r] = "noResources"]
          /\ Goto(r, "uncount")
          /\ UNCHANGED alive
    /\ Unshared /\ UNCHANGED <<subscribers, countUsers, cursor, stale>>

AddCondVar(r) ==
    /\ pc[r] = "subscribe"
    /\ subscribers' = subscribers \cup {r}
    /\ Goto(r, "test")
    /\ Unshared /\ UNCHANGED <<countUsers, cursor, exit, alive, stale>>

\* Inner loop, first operand: isIsServerConnected.
TestConnected(r) ==
    /\ pc[r] = "test"
    /\ Goto(r, IF serverConnected THEN "testReady" ELSE "leaveTest")
    /\ stale' = stale \ {r}
    /\ Unshared /\ UNCHANGED <<subscribers, countUsers, cursor, exit, alive>>

\* isReadyToSend refreshes the flag from the element's length, then branches on it.
IsReadyToSend(r, whenReady, whenNot) ==
    LET now == ready[r] \/ length > count[r]
    IN  /\ ready' = [ready EXCEPT ![r] = now]
        /\ Goto(r, IF now THEN whenReady ELSE whenNot)
        /\ Unshared /\ UNCHANGED <<subscribers, countUsers, count, target, alive, stale>>

TestReady(r) ==
    /\ pc[r] = "testReady"
    /\ IsReadyToSend(r, "leaveTest", "wait")
    /\ UNCHANGED exit

\* pthread_cond_wait; its mutex is the reader's own, so signals come at any moment.
CondWait(r) ==
    /\ pc[r] = "wait"
    /\ Goto(r, "waiting")
    /\ Unshared /\ UNCHANGED <<subscribers, countUsers, cursor, exit, alive, stale>>

SpuriousWakeup(r) ==
    /\ pc[r] = "waiting"
    /\ Goto(r, "test")
    /\ Unshared /\ UNCHANGED <<subscribers, countUsers, cursor, exit, alive, stale>>

\* Mutant: without the last sendAll.
LeaveTestMutant(r) ==
    /\ pc[r] = "leaveTest"
    /\ IF serverConnected
         THEN Goto(r, "readyTest") /\ UNCHANGED exit
         ELSE /\ exit' = [exit EXCEPT ![r] = IF wpc \in Opening THEN "early" ELSE "closed"]
              /\ Goto(r, "unsubscribe")
    /\ Unshared /\ UNCHANGED <<subscribers, countUsers, cursor, alive, stale>>

\* The test after the inner loop: a disconnected origin means the last sendAll.
LeaveTest(r) ==
    /\ pc[r] = "leaveTest"
    /\ IF serverConnected
         THEN Goto(r, "readyTest") /\ UNCHANGED exit
         ELSE /\ exit' = [exit EXCEPT ![r] = IF wpc \in Opening THEN "early" ELSE "closed"]
              /\ Goto(r, "sendLoop")
    /\ Unshared /\ UNCHANGED <<subscribers, countUsers, cursor, alive, stale>>

ReadyTest(r) ==
    /\ pc[r] = "readyTest"
    /\ IsReadyToSend(r, "sendLoop", "test")
    /\ UNCHANGED exit

\* sendAll: when nothing is left, back to the outer loop, or out of it.
SendLoop(r) ==
    /\ pc[r] = "sendLoop"
    /\ IsReadyToSend(r, "fill", IF exit[r] = "none" THEN "test" ELSE "unsubscribe")
    /\ UNCHANGED exit

\* BufferImpl::sendBuf, its two tests of the length: a full string is copied at once.
Fill(r) ==
    /\ pc[r] = "fill"
    /\ target' = [target EXCEPT ![r] = IF length >= count[r] + BufMax THEN BufMax ELSE 0]
    /\ Goto(r, IF length \in (count[r] + 1)..(count[r] + BufMax - 1) THEN "resize" ELSE "write")
    /\ Unshared /\ UNCHANGED <<subscribers, countUsers, count, ready, exit, alive, stale>>

\* Otherwise the string gets the size that is left now ...
Resize(r) ==
    /\ pc[r] = "resize"
    /\ target' = [target EXCEPT ![r] = length - count[r]]
    /\ Goto(r, "copy")
    /\ Unshared /\ UNCHANGED <<subscribers, countUsers, count, ready, exit, alive, stale>>

\* ... and receives a copy of the size that is left then: length is read again.
\* (A copy longer than the string is written beyond its size; the model goes on
\* as if the surplus were harmless.)
MemCopyFromCash(r) ==
    /\ pc[r] = "copy"
    /\ Goto(r, "write")
    /\ Unshared /\ UNCHANGED <<subscribers, countUsers, cursor, exit, alive, stale>>

\* write() to the user: all of the string, or an error that ends the loop.  It lasts
\* until the user has taken what the socket does not hold.
Write(r) ==
    /\ pc[r] = "write"
    /\ \/ Goto(r, "proof") /\ UNCHANGED exit
       \/ Goto(r, "unsubscribe") /\ exit' = [exit EXCEPT ![r] = "failed"]
    /\ Unshared /\ UNCHANGED <<subscribers, countUsers, cursor, alive, stale>>

\* BufferImpl::proofSend, cache branch.
ProofSend(r) ==
    /\ pc[r] = "proof"
    /\ count' = [count EXCEPT ![r] = @ + target[r]]
    /\ ready' = [ready EXCEPT ![r] = @ /\ length # count'[r]]
    /\ Goto(r, "sendLoop")
    /\ Unshared /\ UNCHANGED <<subscribers, countUsers, target, exit, alive, stale>>

\* Mutant: the variable stays in the list.
DellCondVarMutant(r) ==
    /\ pc[r] = "unsubscribe"
    /\ Goto(r, "release")
    /\ Unshared /\ UNCHANGED <<subscribers, countUsers, cursor, exit, alive, stale>>
DellCondVar(r) ==
    /\ pc[r] = "unsubscribe"
    /\ subscribers' = subscribers \ {r}
    /\ Goto(r, "release")
    /\ Unshared /\ UNCHANGED <<countUsers, cursor, exit, alive, stale>>

DeleteResources(r) ==
    /\ pc[r] = "release"
    /\ alive' = alive \ {r}
    /\ Goto(r, "uncount")
    /\ Unshared /\ UNCHANGED <<subscribers, countUsers, cursor, exit, stale>>

\* deleteClientUser of a user served from the cache, then the thread exits.
MinusCountUsers(r) ==
    /\ pc[r] = "uncount"
    /\ countUsers' = countUsers - 1
    /\ Goto(r, "done")
    /\ Unshared /\ UNCHANGED <<subscribers, cursor, exit, alive, stale>>

-----------------------------------------------------------------------------
Init ==
    /\ length = 0
    /\ downloadEnd = FALSE
    /\ serverConnected = FALSE
    /\ subscribers = {}
    /\ countUsers = 0
    /\ wpc = "absent"
    /\ chunk = 0
    /\ lengthBody = 0
    /\ pc = [r \in Readers |-> "search"]
    /\ count = [r \in Readers |-> 0]
    /\ ready = [r \in Readers |-> FALSE]
    /\ target = [r \in Readers |-> 0]
    /\ exit = [r \in Readers |-> "none"]
    /\ alive = {}
    /\ stale = {}

\* Steps the writer takes by itself, and those that need its origin or fail.
WriterStep == AppendHead \/ HeadSignal \/ SetDownloadNotEnd \/ SetConnected \/ HeadEnd
              \/ BodySignal \/ BodyEnd \/ DisconnectSignal
WriterEvent == AddElement \/ AppendBody \/ Disconnect \/ PollError

ReaderStep(r) ==
    \/ AddCountUsers(r) \/ InitializeResources(r) \/ AddCondVar(r)
    \/ TestConnected(r) \/ TestReady(r) \/ CondWait(r) \/ LeaveTest(r) \/ ReadyTest(r)
    \/ SendLoop(r) \/ Fill(r) \/ Resize(r) \/ MemCopyFromCash(r) \/ Write(r) \/ ProofSend(r)
    \/ DellCondVar(r) \/ DeleteResources(r) \/ MinusCountUsers(r)
ReaderEvent(r) == Search(r) \/ SpuriousWakeup(r)

Next == WriterStep \/ WriterEvent \/ \E r \in Readers : ReaderStep(r) \/ ReaderEvent(r)

Spec == Init /\ [][Next]_vars

\* A thread that can run does; nothing is assumed of origins, of wakeups, or of users:
\* a write may last for ever.
Fairness ==
    /\ WF_vars(WriterStep)
    /\ \A r \in Readers : WF_vars(ReaderStep(r) /\ pc[r] # "write")
FairSpec == Spec /\ Fairness

-----------------------------------------------------------------------------
(* Properties.                                                             *)

TypeOK ==
    /\ length \in 0..MaxLength
    /\ downloadEnd \in BOOLEAN
    /\ serverConnected \in BOOLEAN
    /\ subscribers \subseteq Readers
    /\ countUsers \in Int
    /\ wpc \in WriterPc
    /\ chunk \in 0..MaxLength
    /\ lengthBody \in Int
    /\ pc \in [Readers -> ReaderPc]
    /\ count \in [Readers -> 0..MaxLength]
    /\ ready \in [Readers -> BOOLEAN]
    /\ target \in [Readers -> 0..MaxLength]
    /\ exit \in [Readers -> Exits]
    /\ alive \subseteq Readers
    /\ stale \subseteq Readers

\* Every condition variable in _listSubscribers, which signalUsers signals, is
\* an initialised variable of a reader still inside getFromCash.
SubscribersAlive == subscribers \subseteq alive

\* What a reader has sent and what it is about to send are in the element:
\* memCopyFromCash never reads past its end.
NeverPastEnd ==
    \A r \in Readers :
        /\ count[r] <= length
        /\ pc[r] \in {"copy", "write", "proof"} => count[r] + target[r] <= length

\* A reader that left because the origin is gone has sent the whole element,
\* unless it left before the writer marked the origin as connected.
NoTruncation ==
    \A r \in Readers :
        pc[r] \in {"unsubscribe", "release", "uncount", "done"} /\ exit[r] = "closed"
            => count[r] = length

\* In the last sendAll nothing is appended any more, so the string is as long as the
\* copy it receives.  (Before, the element may grow between the two readings of its
\* length, and the copy is longer than the string: only a live download does that.)
FinalCopyFits ==
    \A r \in Readers :
        pc[r] = "copy" /\ exit[r] = "closed" => target[r] = length - count[r]

\* A reader sleeps only while the origin is connected and it has sent all there
\* is, or the signal that will wake it is still to come; the one exception is a
\* signal that passed between the reader's test and its wait.
SleeperMissedNothing ==
    \A r \in Readers :
        pc[r] = "waiting" /\ r \notin stale =>
            /\ serverConnected \/ wpc = "discSignal"
            /\ length = count[r] \/ wpc \in {"headSignal", "bodySignal"}

\* A download is marked complete exactly when all of the declared response is in
\* the element: a shorter element is one whose origin closed early.
EndMeansComplete ==
    /\ downloadEnd => length >= Declared
    /\ wpc \in {"body", "discSignal", "gone", "pollError"} /\ length >= Declared => downloadEnd

\* Once the origin is gone and said so, every reader that hit finishes, except
\* one the signal passed by between its test and its wait, which nothing wakes, and
\* one whose user takes nothing more of a write: nothing else keeps a reader.
DisconnectReleases ==
    \A r \in Readers :
        \/ (wpc = "gone" /\ r \notin stale /\ pc[r] # "search") ~> pc[r] = "done"
        \/ <>[](pc[r] = "write")

-----------------------------------------------------------------------------
(* The inductive invariant: where the writer and each reader stand says     *)
(* what the shared fields hold.                                             *)

\* The flags and the countdown follow the writer.
WriterInv ==
    /\ wpc \in {"absent", "head"} => length = 0
    /\ serverConnected <=> wpc \in {"headEnd", "body", "bodySignal", "bodyEnd", "pollError"}
    /\ wpc \in {"headSignal", "setEnd", "connect", "headEnd"} => chunk = length
    /\ wpc \in Opening \cup {"headEnd"} => ~downloadEnd
    /\ wpc \in {"bodySignal", "bodyEnd"} => lengthBody - chunk = Declared - length
    /\ wpc \in {"body", "discSignal", "gone", "pollError"} =>
         /\ lengthBody = Declared - length
         /\ length >= Declared => downloadEnd
    /\ downloadEnd => length >= Declared

\* A reader is subscribed while it is in the loop, and its resources outlive that.
SubscriptionInv ==
    \A r \in Readers :
        /\ pc[r] \in InLoop \cup {"unsubscribe"} => r \in alive
        /\ pc[r] = "subscribe" => r \in alive
        /\ pc[r] \in InLoop => r \in subscribers
        /\ r \in subscribers => pc[r] \in InLoop \cup {"unsubscribe"}

Leaving == {"sendLoop", "fill", "resize", "copy", "write", "proof",
            "unsubscribe", "release", "uncount", "done"}

\* A reader whose exit is due has left the tests; "closed" is a final length.
ExitInv ==
    \A r \in Readers :
        /\ exit[r] # "none" => pc[r] \in Leaving
        /\ exit[r] = "closed" => wpc \in {"discSignal", "gone"}
        /\ exit[r] \in {"failed", "noResources"} => pc[r] \notin InLoop
        /\ pc[r] \in {"unsubscribe", "release", "uncount", "done"} => exit[r] # "none"

\* What a reader that is about to sleep has established.
SleepInv ==
    \A r \in Readers :
        /\ pc[r] \in {"testReady", "wait", "waiting"} /\ r \notin stale
             => serverConnected \/ wpc = "discSignal"
        /\ pc[r] \in {"wait", "waiting"} /\ r \notin stale
             => length = count[r] \/ wpc \in {"headSignal", "bodySignal"}

\* The invariant the proofs carry from step to step.
IInv ==
    /\ TypeOK
    /\ WriterInv
    /\ SubscriptionInv
    /\ NeverPastEnd
    /\ ExitInv
    /\ NoTruncation
    /\ FinalCopyFits
    /\ SleepInv

-----------------------------------------------------------------------------
(* The element as the readers are promised it.                             *)

Phase ==
    IF wpc \in Opening THEN "opening"
    ELSE IF wpc \in {"discSignal", "gone"} THEN "closed" ELSE "open"

Status ==
    [r \in Readers |->
        IF exit[r] \in {"failed", "noResources"} THEN "broken"
        ELSE IF exit[r] = "early" THEN "early"
        ELSE IF exit[r] = "closed" /\ pc[r] \notin InLoop THEN "finished"
        ELSE "reading"]

Feed == INSTANCE ByteFeed
            WITH avail <- length, phase <- Phase, taken <- count, status <- Status

\* The transfer implements the feed: a served reader has had every unit of the
\* element, in growing prefixes, whatever the interleaving with the download.
ImplementsFeed == Feed!Spec
=============================================================================
