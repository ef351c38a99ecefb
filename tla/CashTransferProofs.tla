------------------------- MODULE CashTransferProofs -------------------------
(***************************************************************************)
(* Proofs about CashTransfer, for any readers, any declared length and any *)
(* buffer size: the inductive invariant, the safety properties it implies  *)
(* and the refinement of ByteFeed.                                         *)
(***************************************************************************)
EXTENDS CashTransfer, TLAPS

USE BodyAssumption, LengthAssumption, BufAssumption

-----------------------------------------------------------------------------
(* The inductive invariant.                                                *)

\* Before the response exists and before any look-up everything is at zero.
LEMMA InitInv == Init => IInv
<1> SUFFICES ASSUME Init PROVE IInv
    OBVIOUS
<1> USE DEF Init, Opening
<1>1. TypeOK
    <2>1. ready \in [Readers -> BOOLEAN] /\ downloadEnd \in BOOLEAN /\ serverConnected \in BOOLEAN
        BY Zenon
    <2>2. wpc \in WriterPc /\ pc \in [Readers -> ReaderPc] /\ exit \in [Readers -> Exits]
        BY Zenon DEF WriterPc, ReaderPc, Exits
    <2>3. /\ length \in 0..MaxLength /\ chunk \in 0..MaxLength
          /\ count \in [Readers -> 0..MaxLength] /\ target \in [Readers -> 0..MaxLength]
          /\ lengthBody \in Int /\ countUsers \in Int
        <3>1. 0 \in 0..MaxLength /\ 0 \in Int
            OBVIOUS
        <3> QED BY <3>1, Zenon
    <2>4. subscribers \subseteq Readers /\ alive \subseteq Readers /\ stale \subseteq Readers
        BY Zenon
    <2> QED BY <2>1, <2>2, <2>3, <2>4, Zenon DEF TypeOK
<1>2. WriterInv
    BY DEF WriterInv
<1>3. SubscriptionInv /\ NeverPastEnd /\ ExitInv /\ NoTruncation /\ FinalCopyFits /\ SleepInv
    BY DEF SubscriptionInv, NeverPastEnd, ExitInv, NoTruncation, FinalCopyFits, SleepInv,
           InLoop, Leaving
<1> QED BY <1>1, <1>2, <1>3 DEF IInv

\* No step of the download breaks the invariant: what a reader relies on is the
\* writer's position, and a signal leaves no subscriber asleep.
LEMMA WriterInvariance == IInv /\ (WriterStep \/ WriterEvent) => IInv'
<1> SUFFICES ASSUME IInv, WriterStep \/ WriterEvent
             PROVE  IInv'
    OBVIOUS
<1> USE DEF IInv, TypeOK, SubscriptionInv, NeverPastEnd, ExitInv, NoTruncation,
            FinalCopyFits, SleepInv, WriterPc, Opening, ReaderPc, InLoop, Exits, Leaving,
            element, writer, cursor, Declared, WriterInv
<1>1. CASE AppendHead
    BY <1>1 DEF AppendHead
<1>2. CASE HeadSignal
    BY <1>2 DEF HeadSignal, SignalUsers, PassedBy
<1>3. CASE SetDownloadNotEnd
    <2> USE <1>3 DEF SetDownloadNotEnd
    <2>1. TypeOK'
        OBVIOUS
    <2>2. WriterInv'
        <3>1. (serverConnected <=> wpc \in {"headEnd", "body", "bodySignal", "bodyEnd", "pollError"})'
            OBVIOUS
        <3>2. (wpc \in {"absent", "head"} => length = 0)'
            OBVIOUS
        <3>3. (wpc \in {"headSignal", "setEnd", "connect", "headEnd"} => chunk = length)'
            OBVIOUS
        <3>4. (wpc \in Opening \cup {"headEnd"} => ~downloadEnd)'
            OBVIOUS
        <3>5. (wpc \in {"bodySignal", "bodyEnd"} => lengthBody - chunk = Declared - length)'
            OBVIOUS
        <3>6. (wpc \in {"body", "discSignal", "gone", "pollError"} =>
                lengthBody = Declared - length /\ (length >= Declared => downloadEnd))'
            OBVIOUS
        <3>7. (downloadEnd => length >= Declared)'
            OBVIOUS
        <3> QED BY <3>1, <3>2, <3>3, <3>4, <3>5, <3>6, <3>7
    <2>3. SubscriptionInv' /\ NeverPastEnd' /\ ExitInv' /\ NoTruncation' /\ FinalCopyFits' 
        OBVIOUS
    <2>4. SleepInv'
        OBVIOUS
    <2> QED BY <2>1, <2>2, <2>3, <2>4
<1>4. CASE SetConnected
    BY <1>4 DEF SetConnected
<1>5. CASE HeadEnd
    <2> USE <1>5 DEF HeadEnd, CountBody
    <2>1. TypeOK'
        OBVIOUS
    <2>2. WriterInv'
        <3>1. (serverConnected <=> wpc \in {"headEnd", "body", "bodySignal", "bodyEnd", "pollError"})'
            OBVIOUS
        <3>2. (wpc \in {"absent", "head"} => length = 0)'
            OBVIOUS
        <3>3. (wpc \in {"headSignal", "setEnd", "connect", "headEnd"} => chunk = length)'
            OBVIOUS
        <3>4. (wpc \in Opening \cup {"headEnd"} => ~downloadEnd)'
            OBVIOUS
        <3>5. (wpc \in {"bodySignal", "bodyEnd"} => lengthBody - chunk = Declared - length)'
            OBVIOUS
        <3>6. (wpc \in {"body", "discSignal", "gone", "pollError"} =>
                lengthBody = Declared - length /\ (length >= Declared => downloadEnd))'
            <4>1. lengthBody' = Declared - length /\ length' = length
                OBVIOUS
            <4>2. length >= Declared => lengthBody' <= 0
                BY <4>1, Z3
            <4>3. lengthBody' <= 0 => downloadEnd'
                BY Zenon
            <4> QED BY <4>1, <4>2, <4>3
        <3>7. (downloadEnd => length >= Declared)'
            OBVIOUS
        <3> QED BY <3>1, <3>2, <3>3, <3>4, <3>5, <3>6, <3>7
    <2>3. SubscriptionInv' /\ NeverPastEnd' /\ ExitInv' /\ NoTruncation' /\ FinalCopyFits' 
        OBVIOUS
    <2>4. SleepInv'
        OBVIOUS
    <2> QED BY <2>1, <2>2, <2>3, <2>4
<1>6. CASE BodySignal
    BY <1>6 DEF BodySignal, SignalUsers, PassedBy
<1>7. CASE BodyEnd
    <2> USE <1>7 DEF BodyEnd, CountBody
    <2>1. TypeOK'
        OBVIOUS
    <2>2. WriterInv'
        <3>1. (serverConnected <=> wpc \in {"headEnd", "body", "bodySignal", "bodyEnd", "pollError"})'
            OBVIOUS
        <3>2. (wpc \in {"absent", "head"} => length = 0)'
            OBVIOUS
        <3>3. (wpc \in {"headSignal", "setEnd", "connect", "headEnd"} => chunk = length)'
            OBVIOUS
        <3>4. (wpc \in Opening \cup {"headEnd"} => ~downloadEnd)'
            OBVIOUS
        <3>5. (wpc \in {"bodySignal", "bodyEnd"} => lengthBody - chunk = Declared - length)'
            OBVIOUS
        <3>6. (wpc \in {"body", "discSignal", "gone", "pollError"} =>
                lengthBody = Declared - length /\ (length >= Declared => downloadEnd))'
            <4>1. lengthBody' = Declared - length /\ length' = length
                OBVIOUS
            <4>2. length >= Declared => lengthBody' <= 0
                BY <4>1, Z3
            <4>3. lengthBody' <= 0 => downloadEnd'
                BY Zenon
            <4> QED BY <4>1, <4>2, <4>3
        <3>7. (downloadEnd => length >= Declared)'
            OBVIOUS
        <3> QED BY <3>1, <3>2, <3>3, <3>4, <3>5, <3>6, <3>7
    <2>3. SubscriptionInv' /\ NeverPastEnd' /\ ExitInv' /\ NoTruncation' /\ FinalCopyFits' 
        OBVIOUS
    <2>4. SleepInv'
        OBVIOUS
    <2> QED BY <2>1, <2>2, <2>3, <2>4
<1>8. CASE DisconnectSignal
    BY <1>8 DEF DisconnectSignal, SignalUsers, PassedBy
<1>9. CASE AddElement
    BY <1>9 DEF AddElement
<1>10. CASE AppendBody
    BY <1>10 DEF AppendBody
<1>11. CASE Disconnect
    <2> USE <1>11 DEF Disconnect
    <2>1. TypeOK'
        OBVIOUS
    <2>2. WriterInv'
        <3>1. (serverConnected <=> wpc \in {"headEnd", "body", "bodySignal", "bodyEnd", "pollError"})'
            OBVIOUS
        <3>2. (wpc \in {"absent", "head"} => length = 0)'
            OBVIOUS
        <3>3. (wpc \in {"headSignal", "setEnd", "connect", "headEnd"} => chunk = length)'
            OBVIOUS
        <3>4. (wpc \in Opening \cup {"headEnd"} => ~downloadEnd)'
            OBVIOUS
        <3>5. (wpc \in {"bodySignal", "bodyEnd"} => lengthBody - chunk = Declared - length)'
            OBVIOUS
        <3>6. (wpc \in {"body", "discSignal", "gone", "pollError"} =>
                lengthBody = Declared - length /\ (length >= Declared => downloadEnd))'
            OBVIOUS
        <3>7. (downloadEnd => length >= Declared)'
            OBVIOUS
        <3> QED BY <3>1, <3>2, <3>3, <3>4, <3>5, <3>6, <3>7
    <2>3. SubscriptionInv' /\ NeverPastEnd' /\ ExitInv' /\ NoTruncation' /\ FinalCopyFits' 
        OBVIOUS
    <2>4. SleepInv'
        OBVIOUS
    <2> QED BY <2>1, <2>2, <2>3, <2>4
<1>12. CASE PollError
    BY <1>12 DEF PollError
<1> QED
    BY <1>1, <1>2, <1>3, <1>4, <1>5, <1>6, <1>7, <1>8, <1>9, <1>10, <1>11, <1>12
    DEF WriterStep, WriterEvent

\* No step of a reader breaks the invariant, for itself or for the others.
LEMMA ReaderInvariance ==
    ASSUME IInv, NEW r \in Readers, ReaderStep(r) \/ ReaderEvent(r)
    PROVE  IInv'
<1> USE DEF IInv, TypeOK, SubscriptionInv, NeverPastEnd, ExitInv, NoTruncation,
            FinalCopyFits, SleepInv, WriterPc, Opening, ReaderPc, InLoop, Exits, Leaving,
            element, writer, cursor, Declared, WriterInv, Goto, Unshared
<1>1. CASE AddCountUsers(r)
    BY <1>1 DEF AddCountUsers
<1>2. CASE InitializeResources(r)
    BY <1>2 DEF InitializeResources
<1>3. CASE AddCondVar(r)
    BY <1>3 DEF AddCondVar
<1>4. CASE TestConnected(r)
    BY <1>4 DEF TestConnected
<1>5. CASE TestReady(r)
    BY <1>5 DEF TestReady, IsReadyToSend
<1>6. CASE CondWait(r)
    BY <1>6 DEF CondWait
<1>7. CASE LeaveTest(r)
    BY <1>7 DEF LeaveTest
<1>8. CASE ReadyTest(r)
    BY <1>8 DEF ReadyTest, IsReadyToSend
<1>9. CASE SendLoop(r)
    BY <1>9 DEF SendLoop, IsReadyToSend
<1>10. CASE Fill(r)
    BY <1>10 DEF Fill
<1>11. CASE Resize(r)
    BY <1>11 DEF Resize
<1>12. CASE MemCopyFromCash(r)
    BY <1>12 DEF MemCopyFromCash
<1>13. CASE Write(r)
    BY <1>13 DEF Write
<1>14. CASE ProofSend(r)
    BY <1>14 DEF ProofSend
<1>15. CASE DellCondVar(r)
    BY <1>15 DEF DellCondVar
<1>16. CASE DeleteResources(r)
    BY <1>16 DEF DeleteResources
<1>17. CASE MinusCountUsers(r)
    BY <1>17 DEF MinusCountUsers
<1>18. CASE Search(r)
    BY <1>18 DEF Search
<1>19. CASE SpuriousWakeup(r)
    BY <1>19 DEF SpuriousWakeup
<1> QED
    BY <1>1, <1>2, <1>3, <1>4, <1>5, <1>6, <1>7, <1>8, <1>9, <1>10,
       <1>11, <1>12, <1>13, <1>14, <1>15, <1>16, <1>17, <1>18, <1>19
    DEF ReaderStep, ReaderEvent

\* The inductive invariant holds in every state.
THEOREM Invariance == Spec => []IInv
<1>1. IInv /\ [Next]_vars => IInv'
    <2> SUFFICES ASSUME IInv, [Next]_vars
                 PROVE  IInv'
        OBVIOUS
    <2>1. CASE WriterStep \/ WriterEvent
        BY <2>1, WriterInvariance
    <2>2. ASSUME NEW r \in Readers, ReaderStep(r) \/ ReaderEvent(r)
          PROVE  IInv'
        BY <2>2, ReaderInvariance
    <2>3. CASE UNCHANGED vars
        BY <2>3 DEF vars, element, writer, cursor, IInv, TypeOK, WriterInv, SubscriptionInv,
                    NeverPastEnd, ExitInv, NoTruncation, FinalCopyFits, SleepInv
    <2> QED BY <2>1, <2>2, <2>3 DEF Next
<1> QED BY InitInv, <1>1, PTL DEF Spec

-----------------------------------------------------------------------------
(* What it implies.                                                        *)

\* Every variable keeps its type; in particular no cursor leaves the element's bound.
THEOREM TypeCorrect == Spec => []TypeOK
BY Invariance, PTL DEF IInv

\* signalUsers never touches a condition variable that was destroyed.
THEOREM NoDeadSubscriber == Spec => []SubscribersAlive
<1>1. IInv => SubscribersAlive
    BY DEF IInv, SubscriptionInv, SubscribersAlive, TypeOK
<1> QED BY Invariance, <1>1, PTL

\* memCopyFromCash never reads past the end of the element.
THEOREM CopyStaysInside == Spec => []NeverPastEnd
BY Invariance, PTL DEF IInv

\* A reader that leaves because the origin is gone has sent the whole element.
THEOREM ServedInFull == Spec => []NoTruncation
BY Invariance, PTL DEF IInv

\* In the last sendAll the copy has the size of its string.
THEOREM LastCopyFits == Spec => []FinalCopyFits
BY Invariance, PTL DEF IInv

\* A reader sleeps with nothing left to do, or in the one window of getFromCash.
THEOREM NoNeedlessSleep == Spec => []SleeperMissedNothing
<1>1. IInv => SleeperMissedNothing
    BY DEF IInv, SleepInv, SleeperMissedNothing
<1> QED BY Invariance, <1>1, PTL

\* _isDownloadEnd is set exactly for the elements that hold the declared response.
THEOREM EndIsHonest == Spec => []EndMeansComplete
<1>1. IInv => EndMeansComplete
    BY DEF IInv, WriterInv, EndMeansComplete
<1> QED BY Invariance, <1>1, PTL

-----------------------------------------------------------------------------
(* CashTransfer implements ByteFeed.                                       *)

LEMMA FeedInit == Init => Feed!Init
BY DEF Init, Feed!Init, Phase, Status, Opening

\* A step of the writer grows, opens or closes the feed, or does not show in it.
LEMMA WriterImplements ==
    IInv /\ (WriterStep \/ WriterEvent) => [Feed!Next]_(Feed!vars)
<1> SUFFICES ASSUME IInv, WriterStep \/ WriterEvent
             PROVE  [Feed!Next]_(Feed!vars)
    OBVIOUS
<1> USE DEF IInv, TypeOK, Phase, Status, Opening, WriterPc, element, writer, cursor, Feed!vars
<1>1. CASE AddElement \/ SetDownloadNotEnd \/ PollError
    BY <1>1 DEF AddElement, SetDownloadNotEnd, PollError
<1>2. CASE AppendHead
    <2>1. Feed!Grow
        BY <1>2 DEF AppendHead, Feed!Grow, WriterInv
    <2> QED BY <2>1 DEF Feed!Next
<1>3. CASE HeadSignal \/ BodySignal \/ DisconnectSignal
    <2>1. Status' = Status
        BY <1>3 DEF HeadSignal, BodySignal, DisconnectSignal, SignalUsers, InLoop, ExitInv, Leaving
    <2> QED BY <1>3, <2>1 DEF HeadSignal, BodySignal, DisconnectSignal, SignalUsers
<1>4. CASE SetConnected
    <2>1. Feed!Open
        BY <1>4 DEF SetConnected, Feed!Open
    <2> QED BY <2>1 DEF Feed!Next
<1>5. CASE HeadEnd \/ BodyEnd
    BY <1>5 DEF HeadEnd, BodyEnd, CountBody
<1>6. CASE AppendBody
    <2>1. Feed!Grow
        BY <1>6 DEF AppendBody, Feed!Grow
    <2> QED BY <2>1 DEF Feed!Next
<1>7. CASE Disconnect
    <2>1. Feed!Close
        BY <1>7 DEF Disconnect, Feed!Close
    <2> QED BY <2>1 DEF Feed!Next
<1> QED BY <1>1, <1>2, <1>3, <1>4, <1>5, <1>6, <1>7 DEF WriterStep, WriterEvent

\* A step of a reader takes from the feed or ends the taking, or does not show in it.
LEMMA ReaderImplements ==
    ASSUME IInv, NEW r \in Readers, ReaderStep(r) \/ ReaderEvent(r)
    PROVE  [Feed!Next]_(Feed!vars)
<1> USE DEF IInv, TypeOK, Phase, Status, Opening, WriterPc, ReaderPc, InLoop, Exits,
            ExitInv, Leaving, element, writer, cursor, Goto, Unshared, Feed!vars
<1>1. CASE InitializeResources(r)
    <2>1. CASE exit' = exit
        BY <1>1, <2>1 DEF InitializeResources
    <2>2. CASE exit' # exit
        <3>1. Status[r] \in {"reading", "early"}
            BY <1>1, <2>2 DEF InitializeResources
        <3>2. exit' = [exit EXCEPT ![r] = IF pc[r] = "write" THEN "failed" ELSE "noResources"]
            BY <1>1, <2>2 DEF InitializeResources
        <3>3. Status' = [Status EXCEPT ![r] = "broken"]
            <4>1. ASSUME NEW q \in Readers \ {r} PROVE exit'[q] = exit[q] /\ pc'[q] = pc[q]
                BY <1>1, <3>2 DEF InitializeResources
            <4>2. exit'[r] \in {"failed", "noResources"}
                BY <3>2
            <4> QED BY <4>1, <4>2
        <3>4. UNCHANGED <<length, Phase, count>>
            BY <1>1 DEF InitializeResources
        <3>5. Feed!Break(r)
            BY ONLY <3>1, <3>3, <3>4 DEF Feed!Break
        <3> QED BY <3>5 DEF Feed!Next
    <2> QED BY <2>1, <2>2
<1>2. CASE LeaveTest(r)
    <2>1. CASE exit' = exit \/ exit'[r] = "closed"
        BY <1>2, <2>1 DEF LeaveTest
    <2>2. CASE exit' # exit /\ exit'[r] # "closed"
        <3>1. Feed!GiveUpEarly(r)
            <4>1. exit' = [exit EXCEPT ![r] = "early"] /\ Phase = "opening"
                BY <1>2, <2>2 DEF LeaveTest
            <4>2. Status[r] = "reading" /\ \A q \in Readers \ {r} : pc'[q] = pc[q]
                BY <1>2 DEF LeaveTest, ExitInv, Leaving
            <4>3. Status' = [Status EXCEPT ![r] = "early"]
                <5>1. ASSUME NEW q \in Readers \ {r} PROVE exit'[q] = exit[q] /\ pc'[q] = pc[q]
                    BY <4>1, <4>2
                <5>2. exit'[r] = "early"
                    BY <4>1
                <5> QED BY <5>1, <5>2
            <4>4. UNCHANGED <<length, Phase, count>>
                BY <1>2 DEF LeaveTest
            <4> QED
                BY ONLY <4>1, <4>2, <4>3, <4>4 DEF Feed!GiveUpEarly
        <3> QED BY <3>1 DEF Feed!Next
    <2> QED BY <2>1, <2>2
<1>3. CASE SendLoop(r)
    <2>1. CASE pc'[r] = "unsubscribe" /\ exit[r] = "closed"
        <3>1. Status[r] = "reading" /\ Phase = "closed" /\ length = count[r]
            BY <1>3, <2>1 DEF SendLoop, IsReadyToSend, NeverPastEnd
        <3>2. Status' = [Status EXCEPT ![r] = "finished"]
            <4>1. ASSUME NEW q \in Readers \ {r} PROVE exit'[q] = exit[q] /\ pc'[q] = pc[q]
                BY <1>3 DEF SendLoop, IsReadyToSend
            <4>2. exit'[r] = "closed" /\ pc'[r] \notin InLoop
                BY <1>3, <2>1 DEF SendLoop, IsReadyToSend
            <4>3. \A q \in Readers \ {r} : Status'[q] = Status[q]
                BY <4>1
            <4>4. Status'[r] = "finished"
                BY <4>2
            <4>5. Status = [q \in Readers |-> Status[q]] /\ Status' = [q \in Readers |-> Status'[q]]
                OBVIOUS
            <4> HIDE DEF Status
            <4> QED BY ONLY <4>3, <4>4, <4>5
        <3>3. UNCHANGED <<length, Phase, count>>
            BY <1>3 DEF SendLoop, IsReadyToSend
        <3>4. Feed!Finish(r)
            BY ONLY <3>1, <3>2, <3>3 DEF Feed!Finish
        <3> QED BY <3>4 DEF Feed!Next
    <2>2. CASE ~(pc'[r] = "unsubscribe" /\ exit[r] = "closed")
        BY <1>3, <2>2 DEF SendLoop, IsReadyToSend
    <2> QED BY <2>1, <2>2
<1>4. CASE Write(r)
    <2>1. CASE exit' = exit
        BY <1>4, <2>1 DEF Write
    <2>2. CASE exit' # exit
        <3>1. Status[r] \in {"reading", "early"}
            BY <1>4, <2>2 DEF Write
        <3>2. exit' = [exit EXCEPT ![r] = IF pc[r] = "write" THEN "failed" ELSE "noResources"]
            BY <1>4, <2>2 DEF Write
        <3>3. Status' = [Status EXCEPT ![r] = "broken"]
            <4>1. ASSUME NEW q \in Readers \ {r} PROVE exit'[q] = exit[q] /\ pc'[q] = pc[q]
                BY <1>4, <3>2 DEF Write
            <4>2. exit'[r] \in {"failed", "noResources"}
                BY <3>2
            <4> QED BY <4>1, <4>2
        <3>4. UNCHANGED <<length, Phase, count>>
            BY <1>4 DEF Write
        <3>5. Feed!Break(r)
            BY ONLY <3>1, <3>3, <3>4 DEF Feed!Break
        <3> QED BY <3>5 DEF Feed!Next
    <2> QED BY <2>1, <2>2
<1>5. CASE ProofSend(r)
    <2>1. CASE target[r] = 0
        BY <1>5, <2>1 DEF ProofSend
    <2>2. CASE target[r] # 0
        <3>1. Status[r] \in {"reading", "early"}
            BY <1>5 DEF ProofSend
        <3>2. count[r] + target[r] \in (count[r] + 1)..length
            BY <1>5, <2>2 DEF ProofSend, NeverPastEnd
        <3>3. count' = [count EXCEPT ![r] = count[r] + target[r]]
            BY <1>5 DEF ProofSend
        <3>4. UNCHANGED <<length, Phase, Status>>
            BY <1>5 DEF ProofSend
        <3>5. Feed!Take(r)
            BY ONLY <3>1, <3>2, <3>3, <3>4 DEF Feed!Take
        <3> QED BY <3>5 DEF Feed!Next
    <2> QED BY <2>1, <2>2
<1>6. CASE TestReady(r) \/ ReadyTest(r)
    BY <1>6 DEF TestReady, ReadyTest, IsReadyToSend
<1>7. CASE AddCountUsers(r) \/ AddCondVar(r) \/ TestConnected(r) \/ CondWait(r)
    BY <1>7 DEF AddCountUsers, AddCondVar, TestConnected, CondWait
<1>8. CASE Fill(r) \/ Resize(r) \/ MemCopyFromCash(r)
    BY <1>8 DEF Fill, Resize, MemCopyFromCash
<1>9. CASE DellCondVar(r) \/ DeleteResources(r) \/ MinusCountUsers(r)
    BY <1>9 DEF DellCondVar, DeleteResources, MinusCountUsers
<1>10. CASE Search(r) \/ SpuriousWakeup(r)
    BY <1>10 DEF Search, SpuriousWakeup
<1> QED BY <1>1, <1>2, <1>3, <1>4, <1>5, <1>6, <1>7, <1>8, <1>9, <1>10
    DEF ReaderStep, ReaderEvent

\* What the readers are promised: every behaviour of the code's threads on the
\* element, its signals and its unlocked reads, is a behaviour of the feed.
THEOREM Implementation == Spec => ImplementsFeed
<1>1. IInv /\ [Next]_vars => [Feed!Next]_(Feed!vars)
    <2> SUFFICES ASSUME IInv, [Next]_vars
                 PROVE  [Feed!Next]_(Feed!vars)
        OBVIOUS
    <2>1. CASE WriterStep \/ WriterEvent
        BY <2>1, WriterImplements
    <2>2. ASSUME NEW r \in Readers, ReaderStep(r) \/ ReaderEvent(r)
          PROVE  [Feed!Next]_(Feed!vars)
        BY <2>2, ReaderImplements
    <2>3. CASE UNCHANGED vars
        BY <2>3 DEF vars, element, writer, cursor, Feed!vars, Phase, Status
    <2> QED BY <2>1, <2>2, <2>3 DEF Next
<1> QED BY FeedInit, <1>1, Invariance, PTL DEF Spec, ImplementsFeed, Feed!Spec

=============================================================================
