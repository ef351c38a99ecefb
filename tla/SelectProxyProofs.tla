------------------------- MODULE SelectProxyProofs -------------------------
(***************************************************************************)
(* The slots of lab31/v1, for arrays of any size and any users: a client   *)
(* that may be accepted finds a slot, and every slot has a connection of   *)
(* its own.  The counter is never below the number of slots taken; a       *)
(* descriptor that is given out was free, so nobody's.                     *)
(*                                                                         *)
(* The second part is about the pages: until an exit strikes, what a user  *)
(* got and what its slot goes on to send are pages it asked for, each byte *)
(* after the one before it.                                                *)
(***************************************************************************)
EXTENDS SelectProxy, CommonLemmas

TypeOK ==
    /\ at \in Nat
    /\ clients \in [SlotIds -> Fds \cup {EMPTY}]
    /\ http \in [SlotIds -> Fds \cup {EMPTY}]
    /\ connected \in Int
    /\ open \in [Fds -> Users \cup {"free", "leaked"}]
    /\ struck \in SUBSET Fds

CountInv == Cardinality(Occupied) <= connected

SocketInv ==
    struck = {} =>
        /\ \A s \in Occupied : open[clients[s]] \in Users
        /\ \A s, r \in Occupied : clients[s] = clients[r] => s = r

IInv == TypeOK /\ CountInv /\ SocketInv

USE SlotAssumption, SizeAssumption, UsersAssumption

\* What a scan from the first entry on finds.
LEMMA LeastEntry ==
    ASSUME NEW N \in Nat, NEW T \in SUBSET (1..N), T # {}
    PROVE  \E x \in T : \A y \in 1..(x - 1) : y \notin T
<1>1. T \in SUBSET (0..N)
  OBVIOUS
<1>2. PICK x \in T : \A y \in T : x <= y
  BY <1>1, LeastMember
<1> QED
  BY <1>2

\* The kernel gives out a descriptor that is free.
LEMMA FreeDescriptor ==
    ASSUME FdLeft PROVE LowestFree \in Fds /\ open[LowestFree] = "free"
<1> DEFINE T == {f \in Fds : open[f] = "free"}
<1>1. PICK x \in T : \A y \in 1..(x - 1) : y \notin T
  <2>1. T \in SUBSET (1..MaxFd) /\ T # {}
    BY DEF FdLeft, Fds
  <2>2. MaxFd \in Nat
    BY SizeAssumption
  <2> HIDE DEF T
  <2> QED
    BY <2>1, <2>2, LeastEntry
<1>2. \A y \in 1..(x - 1) : open[y] # "free"
  BY <1>1 DEF Fds
<1> QED
  BY <1>2 DEF LowestFree

\* find_free_client_index finds a slot that is free, if there is one.
LEMMA FreeSlot ==
    ASSUME SlotLeft PROVE FindFreeClientIndex \in SlotIds \ Occupied
<1> DEFINE T == {s \in SlotIds : clients[s] = EMPTY}
<1>1. PICK x \in T : \A y \in 1..(x - 1) : y \notin T
  <2>1. T \in SUBSET (1..Slots) /\ T # {}
    BY DEF SlotLeft, SlotIds
  <2> HIDE DEF T
  <2> QED
    BY <2>1, LeastEntry
<1>2. \A y \in 1..(x - 1) : clients[y] # EMPTY
  BY <1>1 DEF SlotIds
<1> QED
  BY <1>2 DEF FindFreeClientIndex, Occupied

\* There are finitely many slots.
LEMMA OccupiedFinite ==
    IsFiniteSet(SlotIds) /\ IsFiniteSet(Occupied) /\ Cardinality(Occupied) \in Nat
<1>1. IsFiniteSet(SlotIds)
  BY FS_Interval, SlotAssumption DEF SlotIds
<1>2. Occupied \in SUBSET SlotIds
  BY DEF Occupied
<1> QED
  BY <1>1, <1>2, FS_Subset, FS_CardinalityType

\* Every slot is free at the start.
LEMMA InitInv == Init => IInv
<1> SUFFICES ASSUME Init PROVE IInv
  OBVIOUS
<1>1. Occupied = {}
  BY DEF Init, EmptySlots, Occupied
<1> QED
  BY <1>1, FS_EmptySet DEF Init, EmptySlots, IInv, TypeOK, CountInv, SocketInv, SlotIds, Fds, EMPTY

\* AcceptNewClient fills a free slot with a descriptor nobody has, and counts it.
LEMMA AcceptInvariance == IInv /\ AcceptNewClient => IInv'
<1> SUFFICES ASSUME IInv, AcceptNewClient PROVE IInv'
  OBVIOUS
<1> DEFINE s == FindFreeClientIndex
           f == LowestFree
<1>1. f \in Fds /\ open[f] = "free"
  BY FreeDescriptor DEF AcceptNewClient, Accepted
<1>2. s \in SlotIds \ Occupied
  BY FreeSlot DEF AcceptNewClient, Accepted
<1>3. PICK u \in Users : /\ clients' = [clients EXCEPT ![s] = f]
                         /\ open' = [open EXCEPT ![f] = u]
  BY DEF AcceptNewClient, Accepted
<1>4. connected' = connected + 1 /\ at' = 1 /\ UNCHANGED <<http, struck>> /\ SlotLeft
  BY DEF AcceptNewClient, Accepted
<1> HIDE DEF s, f
<1> USE DEF IInv
<1>5. f # EMPTY
  BY <1>1 DEF Fds, EMPTY
<1>6. Occupied' = Occupied \cup {s}
  BY <1>2, <1>3, <1>5 DEF Occupied, TypeOK
<1>7. TypeOK'
  BY <1>1, <1>2, <1>3, <1>4 DEF TypeOK, SlotLeft, SlotIds
<1>8. CountInv'
  <2>1. Cardinality(Occupied') = Cardinality(Occupied) + 1
    BY <1>2, <1>6, OccupiedFinite, FS_AddElement
  <2> QED
    BY <2>1, <1>4, OccupiedFinite DEF CountInv, TypeOK
<1>9. SocketInv'
  <2> SUFFICES ASSUME struck = {}
               PROVE  /\ \A r \in Occupied' : open'[clients'[r]] \in Users
                      /\ \A r, q \in Occupied' : clients'[r] = clients'[q] => r = q
    BY <1>4 DEF SocketInv
  <2>1. \A r \in Occupied : clients'[r] = clients[r] /\ clients[r] \in Fds /\ clients[r] # f
    BY <1>1, <1>2, <1>3, UsersAssumption DEF SocketInv, Occupied, TypeOK
  <2>2. clients'[s] = f /\ open'[f] \in Users
    BY <1>1, <1>2, <1>3 DEF TypeOK
  <2>3. \A r \in Occupied : open'[clients'[r]] \in Users
    BY <2>1, <1>3 DEF SocketInv, TypeOK
  <2> QED
    BY <2>1, <2>2, <2>3, <1>6 DEF SocketInv
<1> QED
  BY <1>7, <1>8, <1>9

\* Exit frees the slot of the loop; if its second descriptor was somebody's, it is struck.
LEMMA ExitInvariance == IInv /\ Exit => IInv'
<1> SUFFICES ASSUME IInv, Exit PROVE IInv'
  OBVIOUS
<1> USE DEF IInv
<1>1. at \in Occupied
  BY DEF Exit, Request, AtSlot, Occupied
<1>2. /\ clients' = [clients EXCEPT ![at] = EMPTY]
      /\ http' = [http EXCEPT ![at] = EMPTY]
      /\ open' = [g \in Fds |-> IF g \in Closed THEN "free" ELSE open[g]]
      /\ struck' = struck \cup {g \in {http[at]} \cap Fds : open[g] \in Users}
      /\ connected' = connected - 1
  BY DEF Exit, HandleClientDisconnecting, HangUp
<1>3. at' \in Nat
  BY <1>1 DEF Exit, NextSlot, TypeOK, Occupied, SlotIds
<1>4. Occupied' = Occupied \ {at}
  BY <1>1, <1>2 DEF Occupied, TypeOK
<1>5. TypeOK'
  BY <1>1, <1>2, <1>3 DEF TypeOK, Occupied
<1>6. CountInv'
  <2>1. Cardinality(Occupied') = Cardinality(Occupied) - 1
    BY <1>1, <1>4, OccupiedFinite, FS_RemoveElement
  <2> QED
    BY <2>1, <1>2, OccupiedFinite DEF CountInv, TypeOK
<1>7. SocketInv'
  <2> SUFFICES ASSUME struck' = {}
               PROVE  /\ \A r \in Occupied' : open'[clients'[r]] \in Users
                      /\ \A r, q \in Occupied' : clients'[r] = clients'[q] => r = q
    BY DEF SocketInv
  <2>1. struck = {} /\ (http[at] \in Fds => open[http[at]] \notin Users)
    BY <1>2
  <2>2. \A r \in Occupied' : clients'[r] = clients[r] /\ clients[r] \in Fds
    BY <1>2, <1>4 DEF Occupied, TypeOK
  <2>3. \A r \in Occupied' : clients[r] \notin Closed
    BY <1>1, <1>4, <2>1, <2>2 DEF SocketInv, Closed
  <2> QED
    BY <1>2, <1>4, <2>1, <2>2, <2>3 DEF SocketInv
<1> QED
  BY <1>5, <1>6, <1>7

\* The other steps leave the slots and their descriptors alone; a descriptor is lost, or
\* remembered after its use, only if it was free.
LEMMA OtherInvariance ==
    IInv /\ Next /\ ~AcceptNewClient /\ ~Exit => IInv'
<1> SUFFICES ASSUME IInv, Next, ~AcceptNewClient, ~Exit PROVE IInv'
  OBVIOUS
<1> USE DEF IInv
<1>1. CASE UNCHANGED <<clients, http, connected, open, struck>> /\ at' \in Nat
  BY <1>1 DEF TypeOK, CountInv, SocketInv, Occupied
<1>2. CASE AcceptFails
  <2>1. UNCHANGED <<clients, http, open, struck, Occupied>> /\ connected' = connected + 1
    BY <1>2 DEF AcceptFails, Occupied, slots
  <2>2. at' \in Nat
    BY <1>2 DEF AcceptFails, TypeOK
  <2> QED
    BY <2>1, <2>2, OccupiedFinite DEF TypeOK, CountInv, SocketInv
<1>3. CASE ConnectFails
  <2>1. at \in SlotIds /\ at' \in Nat
    BY <1>3 DEF ConnectFails, Request, AtSlot, NextSlot, TypeOK, SlotIds
  <2>2. UNCHANGED <<clients, connected, struck, Occupied>> /\ http' = [http EXCEPT ![at] = EMPTY]
    BY <1>3 DEF ConnectFails, Occupied
  <2>3. \/ UNCHANGED open
        \/ FdLeft /\ open' = [open EXCEPT ![LowestFree] = "leaked"]
    BY <1>3 DEF ConnectFails
  <2>4. \A g \in Fds : open[g] \in Users => open'[g] = open[g]
    BY <2>3, FreeDescriptor, UsersAssumption DEF TypeOK
  <2>5. TypeOK'
    BY <2>1, <2>2, <2>3, FreeDescriptor DEF TypeOK
  <2>6. SocketInv'
    BY <2>2, <2>4 DEF SocketInv, Occupied, TypeOK
  <2> QED
    BY <2>2, <2>5, <2>6 DEF CountInv
<1>4. CASE Fetch
  <2>1. UNCHANGED <<at, clients, connected, open, struck>> /\ http' = [http EXCEPT ![at] = LowestFree]
    BY <1>4 DEF Fetch
  <2>2. LowestFree \in Fds
    BY <1>4, FreeDescriptor DEF Fetch, SocketConnect
  <2> QED
    BY <2>1, <2>2 DEF TypeOK, CountInv, SocketInv, Occupied
<1>5. CASE NoAccept \/ SkipSlot
  <2>1. at' \in Nat
    BY <1>5 DEF NoAccept, SkipSlot, NextSlot, AtSlot, TypeOK, SlotIds
  <2> QED
    BY <1>5, <1>1, <2>1 DEF NoAccept, SkipSlot, slots
<1>10. CASE Read
  BY <1>10, <1>1 DEF Read, ReadStruck, ReadNothing, NothingThere, ReadEndByLine, ReadReset,
     slots, loop, TypeOK
<1>6. CASE Send
  BY <1>6, <1>1 DEF Send, SendNothing, Resend, ResendToGone, ResendBeforePage, NextSlot, AtSlot,
     slots, loop, TypeOK, SlotIds
<1>7. CASE BadUrl \/ NoHost \/ CacheFull \/ BehindBlock
  BY <1>7, <1>1 DEF BadUrl, NoHost, CacheFull, BehindBlock, Request, NextSlot, AtSlot, slots, loop,
     TypeOK, SlotIds
<1>8. CASE Found
  BY <1>8, <1>1 DEF Found, ServeFrom, TypeOK
<1>9. CASE Quit \/ Peers \/ Stopped
  BY <1>9, <1>1 DEF Quit, Peers, ClientSend, ClientGivesUp, Stopped, vars, slots, loop, TypeOK
<1> QED
  BY <1>2, <1>3, <1>4, <1>5, <1>6, <1>7, <1>8, <1>9, <1>10 DEF Next, Proxy, Answer

\* The counter covers the slots taken, and every slot has a descriptor of its own.
THEOREM Invariance == Spec => []IInv
<1>1. IInv /\ [Next]_vars => IInv'
  <2> SUFFICES ASSUME IInv, [Next]_vars PROVE IInv'
    OBVIOUS
  <2>1. CASE UNCHANGED vars
    BY <2>1 DEF vars, loop, slots, IInv, TypeOK, CountInv, SocketInv, Occupied
  <2> QED
    BY <2>1, AcceptInvariance, ExitInvariance, OtherInvariance
<1> QED
  BY InitInv, <1>1, PTL DEF Spec

\* proxy.c 94-112: with fewer clients counted than slots there is a slot.
THEOREM SlotFound == Spec => []SlotForNewClient
<1>1. IInv => SlotForNewClient
  <2> SUFFICES ASSUME IInv, connected < Slots PROVE SlotLeft
    BY DEF SlotForNewClient
  <2>1. Cardinality(Occupied) < Slots
    BY OccupiedFinite DEF IInv, CountInv, TypeOK
  <2>2. Cardinality(SlotIds) = Slots
    BY FS_Interval DEF SlotIds
  <2>3. Occupied # SlotIds
    BY <2>1, <2>2
  <2> QED
    BY <2>3 DEF SlotLeft, Occupied
<1> QED
  BY <1>1, Invariance, PTL

\* proxy.c 114-118: until an exit closes somebody else's number, no two slots share a
\* connection, and each has one.
THEOREM SocketsOwned == Spec => []OwnSocket
<1>1. IInv => OwnSocket
  BY DEF IInv, SocketInv, OwnSocket
<1> QED
  BY <1>1, Invariance, PTL

-----------------------------------------------------------------------------
(* The pages.                                                              *)

\* What requests are made of.
Words == STRING \cup {"cut"}

PageTypes ==
    /\ page \in [SlotIds -> (DOMAIN cache) \cup {EMPTY}]
    /\ sent \in [SlotIds -> Int]
    /\ cache \in Seq([title : Seq(Words), size : Int])
    /\ link \in [Users -> {"away", "up", "gone", "dropped"}]
    /\ said \in [Users -> Seq(Words)]
    /\ wire \in [Users -> Seq(Words)]
    /\ got \in [Users -> Seq(Nat \X Nat)]

Owner(s) == open[clients[s]]

\* What nobody has read is the end of what was sent.
WireInv ==
    \A u \in Users : \E i \in 0..Len(said[u]) : wire[u] = SubSeq(said[u], i + 1, Len(said[u]))

\* Until an exit strikes, a user has one descriptor, and it has connected.
UserInv ==
    /\ \A f, g \in Fds : open[f] \in Users /\ open[f] = open[g] => f = g
    /\ \A f \in Fds : open[f] \in Users => link[open[f]] # "away"

\* A slot sends what its user asked for, and goes on where the last portion ended.
Sending(s) ==
    /\ sent[s] \in Nat
    /\ PartOf(cache[page[s]].title, said[Owner(s)])
    /\ sent[s] # 0 => Follows(got[Owner(s)], Len(got[Owner(s)]) + 1, <<page[s], sent[s]>>)

SlotInv ==
    /\ \A s \in SlotIds \ Occupied : page[s] = EMPTY
    /\ \A s \in Occupied : page[s] # EMPTY /\ link[Owner(s)] = "up" => Sending(s)

\* A user has what it asked for, each byte after the one before it.
Asked(u, k) ==
    got[u][k] # FailedConnect =>
        /\ got[u][k][1] \in DOMAIN cache
        /\ PartOf(cache[got[u][k][1]].title, said[u])
        /\ got[u][k][2] # 1 => Follows(got[u], k, <<got[u][k][1], got[u][k][2] - 1>>)

GotInv == \A u \in Users : \A k \in DOMAIN got[u] : Asked(u, k)

PageInv == PageTypes /\ WireInv /\ UserInv /\ SlotInv /\ GotInv

\* What is part of a text is part of a longer one.
LEMMA PartOfLonger ==
    ASSUME NEW whole \in Seq(Words), NEW more \in Seq(Words), NEW text, PartOf(text, whole)
    PROVE  PartOf(text, whole \o more)
<1>1. PICK i, j \in 0..Len(whole) : text = SubSeq(whole, i + 1, j)
  BY DEF PartOf
<1>2. whole \o more \in Seq(Words) /\ Len(whole \o more) = Len(whole) + Len(more)
      /\ \A n \in 1..Len(whole) : (whole \o more)[n] = whole[n]
  BY ConcatProperties
<1>3. Len(whole) \in Nat /\ Len(more) \in Nat
  BY LenProperties
<1>4. SubSeq(whole \o more, i + 1, j) = SubSeq(whole, i + 1, j)
  <2>1. CASE i + 1 <= j
    BY <1>2, <1>3, <2>1
  <2>2. CASE ~(i + 1 <= j)
    BY <1>2, <1>3, <2>2
  <2> QED  BY <2>1, <2>2
<1>5. i \in 0..Len(whole \o more) /\ j \in 0..Len(whole \o more)
  BY <1>2, <1>3
<1> QED
  BY <1>1, <1>4, <1>5 DEF PartOf

\* A byte that comes before a place does so when more follows.
LEMMA FollowsLonger ==
    ASSUME NEW bytes \in Seq(Nat \X Nat), NEW more \in Seq(Nat \X Nat),
           NEW k \in Nat, k <= Len(bytes) + 1, NEW byte, Follows(bytes, k, byte)
    PROVE  Follows(bytes \o more, k, byte)
<1>1. Len(bytes) \in Nat /\ \A n \in 1..Len(bytes) : (bytes \o more)[n] = bytes[n]
  BY ConcatProperties, LenProperties
<1>2. PICK j \in 1..(k - 1) :
        bytes[j] = byte /\ \A m \in (j + 1)..(k - 1) : bytes[m] = FailedConnect
  BY DEF Follows
<1>3. \A m \in 1..(k - 1) : (bytes \o more)[m] = bytes[m]
  BY <1>1
<1>4. (j + 1)..(k - 1) \subseteq 1..(k - 1)
  OBVIOUS
<1>5. (bytes \o more)[j] = byte /\ \A m \in (j + 1)..(k - 1) : (bytes \o more)[m] = FailedConnect
  BY <1>2, <1>3, <1>4, Zenon
<1> QED
  BY <1>5, Zenon DEF Follows

\* The text of a failure does not come between.
LEMMA FollowsFailure ==
    ASSUME NEW bytes \in Seq(Nat \X Nat), NEW byte, Follows(bytes, Len(bytes) + 1, byte)
    PROVE  Follows(Append(bytes, FailedConnect), Len(Append(bytes, FailedConnect)) + 1, byte)
<1> DEFINE all == Append(bytes, FailedConnect)
<1>1. /\ Len(bytes) \in Nat /\ Len(all) = Len(bytes) + 1 /\ all[Len(bytes) + 1] = FailedConnect
      /\ \A n \in 1..Len(bytes) : all[n] = bytes[n]
  BY AppendProperties, LenProperties DEF FailedConnect
<1>2. PICK j \in 1..Len(bytes) :
        bytes[j] = byte /\ \A m \in (j + 1)..Len(bytes) : bytes[m] = FailedConnect
  BY <1>1 DEF Follows
<1> HIDE DEF all
<1>3. \A m \in (j + 1)..(Len(all) + 1 - 1) : all[m] = FailedConnect
  <2>1. Len(all) + 1 - 1 = Len(bytes) + 1
    BY <1>1
  <2> SUFFICES ASSUME NEW m \in (j + 1)..(Len(bytes) + 1) PROVE all[m] = FailedConnect
    BY <2>1
  <2>2. CASE m = Len(bytes) + 1
    BY <1>1, <2>2
  <2>3. CASE m # Len(bytes) + 1
    <3>1. m \in (j + 1)..Len(bytes) /\ m \in 1..Len(bytes)
      BY <1>1, <1>2, <2>3
    <3>2. all[m] = bytes[m] /\ bytes[m] = FailedConnect
      BY <1>1, <1>2, <3>1
    <3> QED  BY <3>2
  <2> QED  BY <2>2, <2>3
<1>4. all[j] = byte /\ j \in 1..(Len(all) + 1 - 1)
  BY <1>1, <1>2
<1>5. Follows(all, Len(all) + 1, byte)
  BY <1>3, <1>4 DEF Follows
<1> QED
  BY <1>5 DEF all

\* The first line is what comes before a line's end.
LEMMA FirstLineEnds ==
    ASSUME NEW text \in Seq(Words), HasLine(text)
    PROVE  \E c \in 1..Len(text) : FirstLine(text) = SubSeq(text, 1, c - 1)
<1> DEFINE T == {n \in DOMAIN text : text[n] = NewLine}
           c == CHOOSE n \in DOMAIN text :
                  text[n] = NewLine /\ \A m \in 1..(n - 1) : text[m] # NewLine
<1>1. Len(text) \in Nat /\ DOMAIN text = 1..Len(text)
  BY LenProperties
<1>2. PICK x \in T : \A y \in 1..(x - 1) : y \notin T
  <2>1. T \in SUBSET (1..Len(text)) /\ T # {}
    BY <1>1 DEF HasLine
  <2> HIDE DEF T
  <2> QED  BY <1>1, <2>1, LeastEntry
<1>3. x \in DOMAIN text /\ text[x] = NewLine /\ \A y \in 1..(x - 1) : text[y] # NewLine
  BY <1>1, <1>2
<1>4. c \in 1..Len(text)
  BY <1>1, <1>3
<1> QED
  BY <1>4 DEF FirstLine

\* What a request is made of, a user sent.
LEMMA RequestSaid ==
    ASSUME PageInv, NEW text \in Request, link[Peer] = "up"
    PROVE  Peer \in Users /\ PartOf(text, said[Peer])
<1>1. AtSlot("read") /\ clients[at] # EMPTY /\ Peer \in Users /\ wire[Peer] # <<>>
  BY DEF Request
<1> DEFINE w == wire[Peer]
           whole == said[Peer]
<1>2. w \in Seq(Words) /\ whole \in Seq(Words)
  BY <1>1 DEF PageInv, PageTypes
<1>3. PICK i \in 0..Len(whole) : w = SubSeq(whole, i + 1, Len(whole))
  BY <1>1 DEF PageInv, WireInv
<1>4. text = w \/ (HasLine(w) /\ text = FirstLine(w))
  BY <1>1 DEF Request, RequestByLine
<1> HIDE DEF w, whole
<1>5. Len(whole) \in Nat
  BY <1>2, LenProperties
<1>6. CASE text = w
  <2>1. \E m, j \in 0..Len(whole) : text = SubSeq(whole, m + 1, j)
    <3>1. Len(whole) \in 0..Len(whole)
      BY <1>5
    <3> QED  BY <1>3, <1>6, <3>1, Zenon
  <2> QED  BY <1>1, <2>1 DEF PartOf, whole
<1>7. CASE HasLine(w) /\ text = FirstLine(w)
  <2>1. Len(w) \in Nat
    BY <1>2, LenProperties
  <2>2. PICK c \in 1..Len(w) : text = SubSeq(w, 1, c - 1)
    BY <1>2, <1>7, FirstLineEnds
  <2>3. Len(w) = Len(whole) - i /\ \A n \in 1..Len(w) : w[n] = whole[i + n]
    BY <1>2, <1>3, <1>5
  <2>4. SubSeq(w, 1, c - 1) = SubSeq(whole, i + 1, i + (c - 1))
    <3>1. c \in 1..Len(w) /\ i + (c - 1) <= Len(whole)
      BY <1>5, <2>1, <2>2, <2>3
    <3>2. CASE c = 1
      BY <1>2, <3>2
    <3>3. CASE c # 1
      BY <1>2, <1>5, <2>1, <2>3, <3>1, <3>3
    <3> QED  BY <3>2, <3>3
  <2>5. i + (c - 1) \in 0..Len(whole)
    BY <1>5, <2>1, <2>2, <2>3
  <2> QED
    BY <2>2, <2>4, <2>5, <1>1 DEF PartOf, whole
<1> QED
  BY <1>4, <1>6, <1>7

\* What a user asked for it has asked for when more is sent and more is stored.
LEMMA GotStays ==
    ASSUME GotInv, UNCHANGED got,
           \A i \in DOMAIN cache : i \in DOMAIN cache' /\ cache'[i] = cache[i],
           \A u \in Users : \A text : PartOf(text, said[u]) => PartOf(text, said'[u])
    PROVE  GotInv'
<1> SUFFICES ASSUME NEW u \in Users, NEW k \in DOMAIN got[u], got[u][k] # FailedConnect
             PROVE  /\ got[u][k][1] \in DOMAIN cache'
                    /\ PartOf(cache'[got[u][k][1]].title, said'[u])
                    /\ got[u][k][2] # 1 => Follows(got[u], k, <<got[u][k][1], got[u][k][2] - 1>>)
  BY DEF GotInv, Asked, FailedConnect
<1> QED
  BY DEF GotInv, Asked

\* So it is for the slot that sends it.
LEMMA SendingStays ==
    ASSUME PageTypes, NEW s \in SlotIds, page[s] # EMPTY, Sending(s), Owner(s) \in Users,
           page'[s] = page[s], sent'[s] = sent[s], Owner(s)' = Owner(s),
           got'[Owner(s)] = got[Owner(s)],
           \A i \in DOMAIN cache : i \in DOMAIN cache' /\ cache'[i] = cache[i],
           \A u \in Users : \A text : PartOf(text, said[u]) => PartOf(text, said'[u])
    PROVE  Sending(s)'
<1> QED
  BY DEF PageTypes, Sending, Follows, FailedConnect

\* And for all slots, while no slot is given another page.
LEMMA SlotsStay ==
    ASSUME IInv, PageInv, struck = {}, UNCHANGED <<clients, open, page, sent, got>>,
           \A u \in Users : link'[u] = link[u] \/ link'[u] = "gone",
           \A i \in DOMAIN cache : i \in DOMAIN cache' /\ cache'[i] = cache[i],
           \A u \in Users : \A text : PartOf(text, said[u]) => PartOf(text, said'[u])
    PROVE  SlotInv'
<1>1. Occupied' = Occupied
  BY DEF Occupied
<1>2. \A s \in SlotIds \ Occupied : page'[s] = EMPTY
  BY DEF PageInv, SlotInv
<1>3. ASSUME NEW s \in Occupied, page[s] # EMPTY, link'[Owner(s)] = "up"
      PROVE  Sending(s)'
  <2>1. Owner(s) \in Users /\ s \in SlotIds
    BY DEF IInv, SocketInv, Owner, Occupied
  <2>2. Sending(s)
    BY <1>3, <2>1 DEF PageInv, SlotInv
  <2>3. Owner(s)' = Owner(s)
    BY DEF Owner
  <2> QED  BY <1>3, <2>1, <2>2, <2>3, SendingStays DEF PageInv
<1> QED  BY <1>1, <1>2, <1>3 DEF SlotInv, Owner

\* A request was taken: nothing is left unread of its user.
LEMMA ConsumedStreams ==
    ASSUME PageInv, Consumed, Peer \in Users, UNCHANGED said
    PROVE  WireInv' /\ wire' \in [Users -> Seq(Words)]
<1>1. \A u \in Users : wire'[u] = IF u = Peer THEN <<>> ELSE wire[u]
  BY DEF Consumed, PageInv, PageTypes
<1>2. wire' \in [Users -> Seq(Words)]
  BY DEF Consumed, PageInv, PageTypes
<1>3. ASSUME NEW u \in Users
      PROVE  \E i \in 0..Len(said[u]) : wire'[u] = SubSeq(said[u], i + 1, Len(said[u]))
  <2>1. CASE u = Peer
    <3>1. said[u] \in Seq(Words) /\ Len(said[u]) \in Nat
      BY LenProperties DEF PageInv, PageTypes
    <3>2. SubSeq(said[u], Len(said[u]) + 1, Len(said[u])) = <<>>
      BY <3>1
    <3>3. Len(said[u]) \in 0..Len(said[u])
      BY <3>1
    <3>4. wire'[u] = <<>>
      BY <1>1, <2>1
    <3> QED  BY <3>2, <3>3, <3>4
  <2>2. CASE u # Peer
    BY <1>1, <2>2 DEF PageInv, WireInv
  <2> QED  BY <2>1, <2>2
<1> QED
  BY <1>2, <1>3 DEF WireInv

\* Steps that move nothing.
LEMMA NothingMoves ==
    ASSUME IInv, PageInv, struck = {},
           UNCHANGED <<clients, open, struck, page, sent, cache, link, said, wire, got>>
    PROVE  PageInv'
<1>1. PageTypes' /\ WireInv'
  BY DEF PageInv, PageTypes, WireInv
<1>2. \A u \in Users : \A text : PartOf(text, said[u]) => PartOf(text, said'[u])
  OBVIOUS
<1>3. UserInv'
  BY DEF PageInv, UserInv
<1>4. SlotInv'
  BY <1>2, SlotsStay
<1>5. GotInv'
  BY <1>2, GotStays DEF PageInv
<1> QED
  BY <1>1, <1>3, <1>4, <1>5 DEF PageInv

\* Requests that are not answered.
LEMMA UnansweredPages ==
    ASSUME IInv, PageInv, struck = {}, BadUrl \/ NoHost \/ CacheFull \/ BehindBlock
    PROVE  PageInv'
<1>1. /\ Consumed /\ Peer \in Users
      /\ UNCHANGED <<clients, open, struck, page, sent, cache, link, said, got>>
  BY DEF BadUrl, NoHost, CacheFull, BehindBlock, Request, loop, slots
<1>2. \A u \in Users : \A text : PartOf(text, said[u]) => PartOf(text, said'[u])
  BY <1>1
<1>3. PageTypes' /\ WireInv'
  BY <1>1, ConsumedStreams DEF PageInv, PageTypes
<1>4. UserInv'
  BY <1>1 DEF PageInv, UserInv
<1>5. SlotInv'
  BY <1>1, <1>2, SlotsStay
<1>6. GotInv'
  BY <1>1, <1>2, GotStays DEF PageInv
<1> QED
  BY <1>1, <1>3, <1>4, <1>5, <1>6 DEF PageInv

\* The rest of a text goes on with the text.
LEMMA RestLonger ==
    ASSUME NEW whole \in Seq(Words), NEW more \in Seq(Words), NEW i \in 0..Len(whole)
    PROVE  SubSeq(whole, i + 1, Len(whole)) \o more
             = SubSeq(whole \o more, i + 1, Len(whole \o more))
<1> DEFINE all == whole \o more
           n == Len(whole)
<1>1. /\ all \in Seq(Words) /\ Len(all) = n + Len(more) /\ n \in Nat /\ Len(more) \in Nat
      /\ \A m \in 1..n : all[m] = whole[m]
      /\ \A m \in 1..Len(more) : all[n + m] = more[m]
  BY ConcatProperties, LenProperties
<1> HIDE DEF all
<1>2. /\ SubSeq(whole, i + 1, n) \in Seq(Words) /\ Len(SubSeq(whole, i + 1, n)) = n - i
      /\ \A m \in 1..(n - i) : SubSeq(whole, i + 1, n)[m] = whole[i + m]
  BY <1>1
<1>3. /\ SubSeq(all, i + 1, Len(all)) \in Seq(Words)
      /\ Len(SubSeq(all, i + 1, Len(all))) = Len(all) - i
      /\ \A m \in 1..(Len(all) - i) : SubSeq(all, i + 1, Len(all))[m] = all[i + m]
  BY <1>1
<1>4. /\ SubSeq(whole, i + 1, n) \o more \in Seq(Words)
      /\ Len(SubSeq(whole, i + 1, n) \o more) = (n - i) + Len(more)
      /\ \A m \in 1..((n - i) + Len(more)) :
           (SubSeq(whole, i + 1, n) \o more)[m]
             = IF m <= n - i THEN SubSeq(whole, i + 1, n)[m] ELSE more[m - (n - i)]
  <2> DEFINE rest == SubSeq(whole, i + 1, n)
  <2>1. rest \in Seq(Words) /\ Len(rest) = n - i
    BY <1>2
  <2> HIDE DEF rest, n
  <2>2. /\ rest \o more \in Seq(Words) /\ Len(rest \o more) = Len(rest) + Len(more)
        /\ \A m \in 1..(Len(rest) + Len(more)) :
             (rest \o more)[m] = IF m <= Len(rest) THEN rest[m] ELSE more[m - Len(rest)]
    BY <2>1, ConcatProperties
  <2>3. /\ rest \o more \in Seq(Words) /\ Len(rest \o more) = (n - i) + Len(more)
        /\ \A m \in 1..((n - i) + Len(more)) :
             (rest \o more)[m] = IF m <= n - i THEN rest[m] ELSE more[m - (n - i)]
    BY <2>1, <2>2
  <2> QED  BY <2>3 DEF rest
<1> HIDE DEF n
<1>5. ASSUME NEW m \in 1..((n - i) + Len(more))
      PROVE  (SubSeq(whole, i + 1, n) \o more)[m] = all[i + m]
  <2>1. CASE m <= n - i
    BY <1>1, <1>2, <1>4, <2>1
  <2>2. CASE ~(m <= n - i)
    <3>1. m - (n - i) \in 1..Len(more) /\ n + (m - (n - i)) = i + m
      BY <1>1, <2>2
    <3> QED  BY <1>1, <1>4, <2>2, <3>1
  <2> QED  BY <2>1, <2>2
<1>6. (n - i) + Len(more) = Len(all) - i
  BY <1>1
<1>7. SubSeq(whole, i + 1, n) \o more = SubSeq(all, i + 1, Len(all))
  BY <1>3, <1>4, <1>5, <1>6, SeqEqual
<1> QED
  BY <1>7 DEF all, n

\* A user sends, and may leave; or it leaves.
LEMMA PeerPages ==
    ASSUME IInv, PageInv, struck = {}, Peers
    PROVE  PageInv'
<1>1. PICK u \in Users : ClientSend(u) \/ ClientGivesUp(u)
  BY DEF Peers
<1>2. /\ UNCHANGED <<clients, open, struck, page, sent, cache, got>>
      /\ link[u] = "up"
      /\ link' \in {link, [link EXCEPT ![u] = "gone"]}
  BY <1>1 DEF ClientSend, ClientGivesUp, slots
<1>3. \/ UNCHANGED <<said, wire>>
      \/ \E text \in Seq(Words) : /\ said' = [said EXCEPT ![u] = @ \o text]
                                  /\ wire' = [wire EXCEPT ![u] = @ \o text]
  <2>1. Chunks \subseteq Seq(Words)
    BY ChunksAssumption, SeqMonotonic DEF Words
  <2> QED  BY <1>1, <2>1 DEF ClientSend, ClientGivesUp
<1>4. /\ said' \in [Users -> Seq(Words)] /\ wire' \in [Users -> Seq(Words)] /\ WireInv'
      /\ \A v \in Users : \A text : PartOf(text, said[v]) => PartOf(text, said'[v])
  <2>1. CASE UNCHANGED <<said, wire>>
    BY <2>1 DEF PageInv, PageTypes, WireInv, PartOf
  <2>2. CASE ~UNCHANGED <<said, wire>>
    <3>1. PICK more \in Seq(Words) : /\ said' = [said EXCEPT ![u] = @ \o more]
                                     /\ wire' = [wire EXCEPT ![u] = @ \o more]
      BY <1>3, <2>2
    <3>2. /\ said[u] \in Seq(Words) /\ wire[u] \in Seq(Words)
          /\ said[u] \o more \in Seq(Words) /\ wire[u] \o more \in Seq(Words)
          /\ Len(said[u]) \in Nat /\ Len(said[u] \o more) \in Nat
          /\ Len(said[u] \o more) >= Len(said[u])
      BY ConcatProperties, LenProperties DEF PageInv, PageTypes
    <3>3. said' \in [Users -> Seq(Words)] /\ wire' \in [Users -> Seq(Words)]
      BY <3>1, <3>2 DEF PageInv, PageTypes
    <3>4. /\ \A v \in Users : said'[v] = IF v = u THEN said[u] \o more ELSE said[v]
          /\ \A v \in Users : wire'[v] = IF v = u THEN wire[u] \o more ELSE wire[v]
      BY <3>1 DEF PageInv, PageTypes
    <3>5. ASSUME NEW v \in Users
          PROVE  \E i \in 0..Len(said'[v]) :
                   wire'[v] = SubSeq(said'[v], i + 1, Len(said'[v]))
      <4>1. PICK i \in 0..Len(said[v]) : wire[v] = SubSeq(said[v], i + 1, Len(said[v]))
        BY DEF PageInv, WireInv
      <4>2. CASE v # u
        BY <3>4, <4>1, <4>2
      <4>3. CASE v = u
        <5>1. wire[u] \o more = SubSeq(said[u] \o more, i + 1, Len(said[u] \o more))
          <6>1. i \in 0..Len(said[u]) /\ wire[u] = SubSeq(said[u], i + 1, Len(said[u]))
            BY <4>1, <4>3
          <6>2. SubSeq(said[u], i + 1, Len(said[u])) \o more
                  = SubSeq(said[u] \o more, i + 1, Len(said[u] \o more))
            BY <3>2, <6>1, RestLonger
          <6> QED  BY <6>1, <6>2, Zenon
        <5>2. i \in 0..Len(said[u] \o more)
          BY <3>2, <4>3
        <5> QED  BY <3>4, <4>3, <5>1, <5>2
      <4> QED  BY <4>2, <4>3
    <3>6. ASSUME NEW v \in Users, NEW text, PartOf(text, said[v])
          PROVE  PartOf(text, said'[v])
      BY <3>2, <3>4, <3>6, PartOfLonger
    <3> QED  BY <3>3, <3>5, <3>6 DEF WireInv
  <2> QED  BY <2>1, <2>2
<1>5. PageTypes'
  BY <1>2, <1>4 DEF PageInv, PageTypes
<1>6. \A v \in Users : link'[v] = link[v] \/ (v = u /\ link'[v] = "gone")
  BY <1>2 DEF PageInv, PageTypes
<1>7. UserInv'
  BY <1>2, <1>6 DEF PageInv, UserInv
<1>8. SlotInv'
  BY <1>2, <1>4, <1>6, SlotsStay
<1>9. GotInv'
  BY <1>2, <1>4, GotStays DEF PageInv
<1> QED
  BY <1>2, <1>4, <1>5, <1>7, <1>8, <1>9 DEF PageInv

\* A slot is given another page, or none.
LEMMA SlotTypes ==
    ASSUME PageTypes, NEW D, DOMAIN cache \subseteq D, NEW i \in D \cup {EMPTY},
           page' = [page EXCEPT ![at] = i], sent' = [sent EXCEPT ![at] = 0]
    PROVE  page' \in [SlotIds -> D \cup {EMPTY}] /\ sent' \in [SlotIds -> Int]
<1>1. page \in [SlotIds -> D \cup {EMPTY}] /\ sent \in [SlotIds -> Int]
  BY DEF PageTypes
<1>2. page' \in [SlotIds -> D \cup {EMPTY}]
  BY <1>1
<1>3. sent' \in [SlotIds -> Int]
  <2>1. sent' = [s \in SlotIds |-> IF s = at THEN 0 ELSE sent[s]]
    BY <1>1
  <2>2. \A s \in SlotIds : (IF s = at THEN 0 ELSE sent[s]) \in Int
    BY <1>1
  <2> QED  BY <2>1, <2>2, Zenon
<1> QED  BY <1>2, <1>3

\* A new user gets a slot that sends nothing.
LEMMA AcceptPages ==
    ASSUME IInv, PageInv, struck = {}, AcceptNewClient
    PROVE  PageInv'
<1> DEFINE s == FindFreeClientIndex
           f == LowestFree
<1>1. f \in Fds /\ open[f] = "free"
  BY FreeDescriptor DEF AcceptNewClient, Accepted
<1>2. s \in SlotIds \ Occupied
  BY FreeSlot DEF AcceptNewClient, Accepted
<1>3. PICK u \in Users : /\ link[u] = "away"
                         /\ clients' = [clients EXCEPT ![s] = f]
                         /\ open' = [open EXCEPT ![f] = u]
                         /\ link' = [link EXCEPT ![u] = "up"]
  BY DEF AcceptNewClient, Accepted
<1>4. UNCHANGED <<page, sent, cache, struck, said, wire, got>>
  BY DEF AcceptNewClient, Accepted
<1> HIDE DEF s, f
<1>5. f # EMPTY
  BY <1>1 DEF Fds, EMPTY
<1>6. Occupied' = Occupied \cup {s}
  BY <1>2, <1>3, <1>5 DEF Occupied, IInv, TypeOK
<1>7. PageTypes' /\ WireInv'
  BY <1>3, <1>4 DEF PageInv, PageTypes, WireInv
<1>8. /\ \A g \in Fds : open'[g] = IF g = f THEN u ELSE open[g]
      /\ \A v \in Users : link'[v] = IF v = u THEN "up" ELSE link[v]
  BY <1>1, <1>3 DEF IInv, TypeOK, PageInv, PageTypes
<1>9. UserInv'
  <2>1. \A g \in Fds : open[g] # u
    BY <1>3 DEF PageInv, UserInv
  <2> QED  BY <1>8, <2>1 DEF PageInv, UserInv
<1>10. SlotInv'
  <2>1. \A r \in SlotIds \ Occupied' : page'[r] = EMPTY
    BY <1>4, <1>6 DEF PageInv, SlotInv
  <2>2. ASSUME NEW r \in Occupied', page'[r] # EMPTY, link'[Owner(r)'] = "up"
        PROVE  Sending(r)'
    <3>1. r \in Occupied /\ page[r] # EMPTY /\ r \in SlotIds
      BY <1>2, <1>4, <1>6, <2>2 DEF PageInv, SlotInv, Occupied
    <3>2. Owner(r) \in Users /\ clients[r] \in Fds
      BY <3>1 DEF IInv, SocketInv, TypeOK, Occupied, Owner
    <3>3. Owner(r)' = Owner(r) /\ Owner(r) # u
      <4>1. clients'[r] = clients[r]
        BY <1>2, <1>3, <3>1 DEF IInv, TypeOK
      <4>2. open'[clients[r]] = open[clients[r]] /\ open[clients[r]] # u
        BY <1>1, <1>3, <1>8, <3>2, UsersAssumption DEF PageInv, UserInv, Owner
      <4> QED  BY <4>1, <4>2 DEF Owner
    <3>4. link[Owner(r)] = "up"
      BY <1>8, <2>2, <3>2, <3>3
    <3>5. Sending(r)
      BY <3>1, <3>4 DEF PageInv, SlotInv
    <3> QED  BY <1>4, <3>1, <3>2, <3>3, <3>5, SendingStays DEF PageInv
  <2> QED  BY <2>1, <2>2 DEF SlotInv
<1>11. GotInv'
  BY <1>4, GotStays DEF PageInv
<1> QED
  BY <1>4, <1>7, <1>9, <1>10, <1>11 DEF PageInv

\* Exit takes its page from the slot; what it closes is nobody else's, if it strikes nobody.
LEMMA ExitPages ==
    ASSUME IInv, PageInv, struck' = {}, Exit
    PROVE  PageInv'
<1>1. at \in Occupied /\ at \in SlotIds /\ Peer \in Users
  BY DEF Exit, Request, AtSlot, Occupied
<1>2. /\ clients' = [clients EXCEPT ![at] = EMPTY]
      /\ page' = [page EXCEPT ![at] = EMPTY]
      /\ sent' = [sent EXCEPT ![at] = 0]
      /\ open' = [g \in Fds |-> IF g \in Closed THEN "free" ELSE open[g]]
      /\ struck' = struck \cup {g \in {http[at]} \cap Fds : open[g] \in Users}
      /\ link' = [u \in Users |->
           IF link[u] = "up" /\ \E g \in Closed : open[g] = u THEN "dropped" ELSE link[u]]
      /\ Consumed /\ UNCHANGED <<cache, said, got>>
  BY DEF Exit, HandleClientDisconnecting, HangUp
<1>3. PageTypes' /\ WireInv'
  <2>1. WireInv' /\ wire' \in [Users -> Seq(Words)]
    BY <1>1, <1>2, ConsumedStreams
  <2>2. /\ page' \in [SlotIds -> (DOMAIN cache') \cup {EMPTY}] /\ sent' \in [SlotIds -> Int]
    BY <1>2, SlotTypes DEF PageInv
  <2>3. link' \in [Users -> {"away", "up", "gone", "dropped"}]
    <3>1. \A u \in Users : link[u] \in {"away", "up", "gone", "dropped"}
      BY DEF PageInv, PageTypes
    <3> QED  BY <1>2, <3>1
  <2> QED  BY <1>2, <2>1, <2>2, <2>3 DEF PageInv, PageTypes
<1>4. Occupied' = Occupied \ {at}
  BY <1>1, <1>2 DEF Occupied, IInv, TypeOK
<1>5. UserInv' /\ SlotInv' /\ GotInv'
  <2>1. struck = {} /\ (http[at] \in Fds => open[http[at]] \notin Users)
    BY <1>2
  <2>2. UserInv'
    <3>1. \A g \in Fds : open'[g] \in Users => g \notin Closed /\ open'[g] = open[g]
      BY <1>2, UsersAssumption
    <3>2. \A g \in Fds : open'[g] \in Users => link'[open'[g]] # "away"
      BY <1>2, <2>1, <3>1 DEF PageInv, UserInv
    <3> QED  BY <2>1, <3>1, <3>2 DEF PageInv, UserInv
  <2>3. \A r \in SlotIds \ Occupied' : page'[r] = EMPTY
    BY <1>2, <1>4, <2>1 DEF PageInv, SlotInv, PageTypes
  <2>4. ASSUME NEW r \in Occupied', page'[r] # EMPTY, link'[Owner(r)'] = "up"
        PROVE  Sending(r)'
    <3>1. r \in Occupied /\ r # at /\ r \in SlotIds
      BY <1>4 DEF Occupied
    <3>2. clients'[r] = clients[r] /\ page'[r] = page[r] /\ sent'[r] = sent[r]
      BY <1>1, <1>2, <3>1 DEF IInv, TypeOK, PageInv, PageTypes
    <3>3. Owner(r) \in Users /\ clients[r] \in Fds /\ clients[r] # clients[at]
      BY <1>1, <2>1, <3>1 DEF IInv, SocketInv, TypeOK, Occupied, Owner
    <3>4. clients[r] \notin Closed
      BY <2>1, <3>3 DEF Closed, Owner
    <3>5. Owner(r)' = Owner(r)
      BY <1>2, <3>2, <3>3, <3>4 DEF Owner
    <3>6. link[Owner(r)] = "up"
      BY <1>2, <2>4, <3>3, <3>5
    <3>7. Sending(r)
      BY <2>1, <2>4, <3>1, <3>2, <3>6 DEF PageInv, SlotInv
    <3> QED  BY <1>2, <2>4, <3>1, <3>2, <3>3, <3>5, <3>7, SendingStays DEF PageInv
  <2>5. GotInv'
    BY <1>2, <2>1, GotStays DEF PageInv
  <2> QED  BY <2>2, <2>3, <2>4, <2>5 DEF SlotInv
<1> QED
  BY <1>3, <1>5 DEF PageInv

\* A slot begins to send a page its user asked for.
LEMMA ServedPages ==
    ASSUME IInv, PageInv, struck = {}, at \in Occupied, Peer \in Users,
           NEW i, ServeFrom(i), UNCHANGED <<clients, open, link, said, got>>,
           link[Peer] = "up" => PartOf(cache'[i].title, said[Peer]),
           \A k \in DOMAIN cache : k \in DOMAIN cache' /\ cache'[k] = cache[k]
    PROVE  SlotInv'
<1>1. /\ page' = [page EXCEPT ![at] = i] /\ sent' = [sent EXCEPT ![at] = 0]
      /\ Occupied' = Occupied /\ at \in SlotIds
  BY DEF ServeFrom, Occupied
<1>2. \A r \in SlotIds \ Occupied : page'[r] = EMPTY
  BY <1>1 DEF PageInv, SlotInv, PageTypes
<1>3. ASSUME NEW r \in Occupied, page'[r] # EMPTY, link[Owner(r)] = "up"
      PROVE  Sending(r)'
  <2>1. CASE r = at
    <3>1. page'[r] = i /\ sent'[r] = 0 /\ Owner(r)' = Peer /\ Owner(r) = Peer
      <4>1. page'[r] = i /\ sent'[r] = 0
        BY <1>1, <2>1 DEF PageInv, PageTypes
      <4>2. Owner(r) = Peer /\ Owner(r)' = Owner(r)
        BY <2>1 DEF Owner, Peer
      <4> QED  BY <4>1, <4>2
    <3> QED  BY <1>3, <3>1 DEF Sending, PartOf
  <2>2. CASE r # at
    <3>1. r \in SlotIds /\ Owner(r) \in Users /\ Owner(r)' = Owner(r)
      BY DEF IInv, SocketInv, Owner, Occupied
    <3>2. page'[r] = page[r] /\ sent'[r] = sent[r]
      BY <1>1, <2>2, <3>1 DEF PageInv, PageTypes
    <3>3. Sending(r)
      BY <1>3, <3>2 DEF PageInv, SlotInv
    <3> QED  BY <1>3, <3>1, <3>2, <3>3, SendingStays DEF PageInv
  <2> QED  BY <2>1, <2>2
<1> QED  BY <1>1, <1>2, <1>3 DEF SlotInv, Owner

\* Whatever its user does, a request is a sequence of words.
LEMMA RequestType ==
    ASSUME PageInv, NEW text \in Request
    PROVE  Peer \in Users /\ text \in Seq(Words)
<1>1. Peer \in Users
  BY DEF Request
<1> DEFINE w == wire[Peer]
<1>2. w \in Seq(Words) /\ Len(w) \in Nat
  BY <1>1, LenProperties DEF PageInv, PageTypes
<1>3. text = w \/ (HasLine(w) /\ text = FirstLine(w)) \/ text = Append(w, "cut")
  BY <1>1 DEF Request, RequestByLine
<1> HIDE DEF w
<1>4. CASE HasLine(w) /\ text = FirstLine(w)
  <2>1. PICK c \in 1..Len(w) : text = SubSeq(w, 1, c - 1)
    BY <1>2, <1>4, FirstLineEnds
  <2>2. \A n \in 1..(c - 1) : w[n] \in Words
    BY <1>2, <2>1
  <2>3. 1 \in Int /\ c - 1 \in Int
    BY <2>1
  <2>4. text \in Seq(Words)
    BY <2>1, <2>2, <2>3, SubSeqProperties
  <2> QED  BY <1>1, <2>4
<1>5. CASE text = Append(w, "cut")
  <2>1. "cut" \in Words
    BY DEF Words
  <2>2. text \in Seq(Words)
    BY <1>2, <1>5, <2>1, AppendProperties
  <2> QED  BY <1>1, <2>2
<1> QED
  BY <1>1, <1>2, <1>3, <1>4, <1>5

\* A page that is in the cache.
LEMMA FoundPages ==
    ASSUME IInv, PageInv, struck = {}, Found
    PROVE  PageInv'
<1>0. PICK text \in Request : \E i \in TryFindAtCache(text) : ServeFrom(i)
  BY DEF Found
<1>1. PICK i \in TryFindAtCache(text) : ServeFrom(i)
  BY <1>0
<1>2. /\ Consumed /\ Peer \in Users /\ at \in Occupied
      /\ UNCHANGED <<clients, open, struck, cache, link, said, got>>
  BY <1>1 DEF Found, Request, AtSlot, Occupied
<1>3. i \in DOMAIN cache /\ i \in Nat /\ cache[i].title = text
  BY <1>1 DEF TryFindAtCache, PageInv, PageTypes
<1>4. link[Peer] = "up" => PartOf(cache[i].title, said[Peer])
  BY <1>1, <1>3, RequestSaid
<1>5. PageTypes' /\ WireInv'
  <2>1. WireInv' /\ wire' \in [Users -> Seq(Words)]
    BY <1>2, ConsumedStreams
  <2>2. page' \in [SlotIds -> (DOMAIN cache') \cup {EMPTY}] /\ sent' \in [SlotIds -> Int]
    BY <1>1, <1>2, <1>3, SlotTypes DEF ServeFrom, PageInv
  <2> QED  BY <1>2, <2>1, <2>2 DEF PageInv, PageTypes
<1>6. UserInv'
  BY <1>2 DEF PageInv, UserInv
<1>7. SlotInv'
  BY <1>1, <1>2, <1>3, <1>4, ServedPages
<1>8. GotInv'
  BY <1>2, GotStays DEF PageInv
<1> QED
  BY <1>2, <1>5, <1>6, <1>7, <1>8 DEF PageInv

\* A page that is fetched.
LEMMA FetchPages ==
    ASSUME IInv, PageInv, struck = {}, Fetch
    PROVE  PageInv'
<1>1. PICK text \in Request, bytes \in 0..MaxAnswer, reset \in BOOLEAN :
        cache' = Append(cache, [title |-> text, size |-> PageSize(bytes, reset)])
  BY DEF Fetch
<1> DEFINE i == Len(cache) + 1
           new == [title |-> text, size |-> PageSize(bytes, reset)]
<1>2. /\ ServeFrom(i) /\ Consumed /\ Peer \in Users /\ at \in Occupied
      /\ UNCHANGED <<clients, open, struck, link, said, got>>
  BY <1>1 DEF Fetch, Request, AtSlot, Occupied
<1>3. new \in [title : Seq(Words), size : Int]
  BY <1>1, RequestType DEF PageSize
<1>4. /\ cache' \in Seq([title : Seq(Words), size : Int]) /\ Len(cache) \in Nat
      /\ i \in DOMAIN cache' /\ i \in Nat /\ cache'[i] = new
      /\ \A k \in DOMAIN cache : k \in DOMAIN cache' /\ cache'[k] = cache[k]
  <2>1. cache \in Seq([title : Seq(Words), size : Int])
    BY DEF PageInv, PageTypes
  <2> HIDE DEF new
  <2>2. cache' = Append(cache, new)
    BY <1>1 DEF new
  <2>3. /\ cache' \in Seq([title : Seq(Words), size : Int]) /\ Len(cache) \in Nat
        /\ Len(cache') = Len(cache) + 1 /\ cache'[Len(cache) + 1] = new
        /\ \A k \in 1..Len(cache) : cache'[k] = cache[k]
    BY <1>3, <2>1, <2>2, AppendProperties, LenProperties
  <2>4. DOMAIN cache = 1..Len(cache) /\ DOMAIN cache' = 1..Len(cache')
    BY <2>1, <2>3
  <2> QED  BY <2>3, <2>4
<1>5. link[Peer] = "up" => PartOf(cache'[i].title, said[Peer])
  <2>1. cache'[i].title = text
    BY <1>4
  <2> QED  BY <1>1, <2>1, RequestSaid
<1> HIDE DEF i, new
<1>6. PageTypes' /\ WireInv'
  <2>1. WireInv' /\ wire' \in [Users -> Seq(Words)]
    BY <1>2, ConsumedStreams
  <2>2. page' \in [SlotIds -> (DOMAIN cache') \cup {EMPTY}] /\ sent' \in [SlotIds -> Int]
    BY <1>2, <1>4, SlotTypes DEF ServeFrom, PageInv
  <2> QED  BY <1>2, <1>4, <2>1, <2>2 DEF PageInv, PageTypes
<1>7. UserInv'
  BY <1>2 DEF PageInv, UserInv
<1>8. SlotInv'
  BY <1>2, <1>4, <1>5, ServedPages
<1>9. GotInv'
  BY <1>2, <1>4, GotStays DEF PageInv
<1> QED
  BY <1>2, <1>6, <1>7, <1>8, <1>9 DEF PageInv

\* What a user has and what its slots send, when more bytes come to it.
LEMMA MoreBytes ==
    ASSUME PageInv, GotInv, NEW u \in Users, NEW more \in Seq(Nat \X Nat),
           got' = [got EXCEPT ![u] = @ \o more], UNCHANGED <<cache, said>>,
           \A k \in 1..Len(more) :
             LET n == Len(got[u]) + k
             IN more[k] # FailedConnect =>
                  /\ more[k][1] \in DOMAIN cache
                  /\ PartOf(cache[more[k][1]].title, said[u])
                  /\ more[k][2] # 1 =>
                       Follows(got[u] \o more, n, <<more[k][1], more[k][2] - 1>>)
    PROVE  GotInv'
<1>1. got[u] \in Seq(Nat \X Nat) /\ Len(got[u]) \in Nat /\ Len(more) \in Nat
  BY LenProperties DEF PageInv, PageTypes
<1> DEFINE all == got[u] \o more
<1>2. /\ all \in Seq(Nat \X Nat) /\ DOMAIN all = 1..(Len(got[u]) + Len(more))
      /\ \A n \in 1..Len(got[u]) : all[n] = got[u][n]
      /\ \A k \in 1..Len(more) : all[Len(got[u]) + k] = more[k]
  BY <1>1, ConcatProperties
<1>3. \A v \in Users : got'[v] = IF v = u THEN all ELSE got[v]
  BY DEF PageInv, PageTypes
<1>4. ASSUME NEW n \in DOMAIN all, all[n] # FailedConnect
      PROVE  /\ all[n][1] \in DOMAIN cache
             /\ PartOf(cache[all[n][1]].title, said[u])
             /\ all[n][2] # 1 => Follows(all, n, <<all[n][1], all[n][2] - 1>>)
  <2>1. CASE n <= Len(got[u])
    <3>1. n \in DOMAIN got[u] /\ all[n] = got[u][n] /\ n \in Nat /\ n <= Len(got[u]) + 1
      BY <1>1, <1>2, <2>1
    <3>2. Asked(u, n)
      BY <3>1 DEF GotInv
    <3>3. all[n][2] # 1 => Follows(all, n, <<all[n][1], all[n][2] - 1>>)
      BY <1>1, <1>4, <3>1, <3>2, FollowsLonger DEF Asked
    <3> QED  BY <1>4, <3>1, <3>2, <3>3 DEF Asked
  <2>2. CASE n > Len(got[u])
    <3> DEFINE k == n - Len(got[u])
    <3>1. k \in 1..Len(more) /\ n = Len(got[u]) + k
      <4>1. /\ Len(got[u]) \in Nat /\ Len(more) \in Nat
            /\ n \in 1..(Len(got[u]) + Len(more))
        BY <1>1, <1>2
      <4> DEFINE g == Len(got[u])
                 m == Len(more)
      <4> HIDE DEF g, m
      <4>2. g \in Nat /\ m \in Nat /\ n \in 1..(g + m) /\ n > g
        BY <2>2, <4>1 DEF g, m
      <4>3. n - g \in 1..m /\ n = g + (n - g)
        BY <4>2
      <4> QED
        BY <4>3 DEF g, m
    <3>2. all[n] = more[k]
      BY <1>2, <3>1
    <3> HIDE DEF k
    <3>3. more[k] # FailedConnect =>
            /\ more[k][1] \in DOMAIN cache
            /\ PartOf(cache[more[k][1]].title, said[u])
            /\ more[k][2] # 1 => Follows(all, n, <<more[k][1], more[k][2] - 1>>)
      BY <3>1
    <3> HIDE DEF all
    <3> QED  BY <1>4, <3>2, <3>3
  <2>3. n <= Len(got[u]) \/ n > Len(got[u])
    BY <1>1, <1>2
  <2> QED  BY <2>1, <2>2, <2>3, Zenon
<1> HIDE DEF all
<1>5. ASSUME NEW v \in Users, NEW n \in DOMAIN got'[v], got'[v][n] # FailedConnect
      PROVE  /\ got'[v][n][1] \in DOMAIN cache'
             /\ PartOf(cache'[got'[v][n][1]].title, said'[v])
             /\ got'[v][n][2] # 1
                  => Follows(got'[v], n, <<got'[v][n][1], got'[v][n][2] - 1>>)
  <2>1. CASE v = u
    BY <1>3, <1>4, <1>5, <2>1
  <2>2. CASE v # u
    <3>1. got'[v] = got[v]
      BY <1>3, <2>2
    <3>2. Asked(v, n)
      BY <1>5, <3>1 DEF GotInv
    <3> QED  BY <1>5, <3>1, <3>2 DEF Asked
  <2> QED  BY <2>1, <2>2
<1> QED  BY <1>5 DEF GotInv, Asked, FailedConnect

\* A failure is told to the user; the descriptor that is lost was nobody's.
LEMMA ConnectFailsPages ==
    ASSUME IInv, PageInv, struck = {}, ConnectFails
    PROVE  PageInv'
<1>1. /\ Consumed /\ Peer \in Users
      /\ UNCHANGED <<clients, page, sent, cache, struck, link, said>>
      /\ got' = IF link[Peer] = "up"
                THEN [got EXCEPT ![Peer] = Append(@, FailedConnect)] ELSE got
  BY DEF ConnectFails, Request
<1>2. \/ UNCHANGED open
      \/ FdLeft /\ open' = [open EXCEPT ![LowestFree] = "leaked"]
  BY DEF ConnectFails
<1>3. \A g \in Fds : /\ open[g] \in Users => open'[g] = open[g]
                     /\ open'[g] \in Users => open'[g] = open[g]
  BY <1>2, FreeDescriptor, UsersAssumption DEF IInv, TypeOK
<1>4. /\ Occupied' = Occupied
      /\ \A s \in Occupied : s \in SlotIds /\ Owner(s) \in Users /\ Owner(s)' = Owner(s)
  BY <1>1, <1>3 DEF Occupied, Owner, IInv, TypeOK, SocketInv
<1> DEFINE more == IF link[Peer] = "up" THEN <<FailedConnect>> ELSE <<>>
<1>5. more \in Seq(Nat \X Nat)
  BY DEF FailedConnect
<1>6. \A u \in Users : got[u] \in Seq(Nat \X Nat)
  BY DEF PageInv, PageTypes
<1>7. got' \in [Users -> Seq(Nat \X Nat)] /\ got' = [got EXCEPT ![Peer] = @ \o more]
  <2>1. CASE link[Peer] = "up"
    <3>1. FailedConnect \in Nat \X Nat
      BY DEF FailedConnect
    <3>2. Append(got[Peer], FailedConnect) = got[Peer] \o <<FailedConnect>>
      BY <1>1, <1>6, <3>1, AppendIsConcat
    <3>3. Append(got[Peer], FailedConnect) \in Seq(Nat \X Nat)
      BY <1>1, <1>6, <3>1, AppendProperties
    <3> QED  BY <1>1, <2>1, <3>2, <3>3 DEF PageInv, PageTypes
  <2>2. CASE link[Peer] # "up"
    <3>1. got[Peer] \o <<>> = got[Peer]
      BY <1>1, <1>6, ConcatEmptySeq
    <3>2. got \in [Users -> Seq(Nat \X Nat)]
      BY DEF PageInv, PageTypes
    <3> QED  BY <1>1, <2>2, <3>1, <3>2
  <2> QED  BY <2>1, <2>2
<1>8. PageTypes' /\ WireInv'
  BY <1>1, <1>7, ConsumedStreams DEF PageInv, PageTypes
<1>9. UserInv'
  BY <1>1, <1>3 DEF PageInv, UserInv
<1>10. ASSUME NEW s \in Occupied, page[s] # EMPTY, link[Owner(s)] = "up"
       PROVE  Sending(s)'
  <2>1. Sending(s)
    BY <1>10 DEF PageInv, SlotInv
  <2>2. CASE Owner(s) = Peer
    <3>1. got'[Peer] = Append(got[Peer], FailedConnect)
      BY <1>1, <1>10, <2>2 DEF PageInv, PageTypes
    <3>2. Owner(s)' = Peer
      BY <1>4, <2>2
    <3>3. sent[s] # 0 => Follows(got[Peer], Len(got[Peer]) + 1, <<page[s], sent[s]>>)
      BY <2>1, <2>2 DEF Sending
    <3>4. sent[s] # 0 => Follows(got'[Peer], Len(got'[Peer]) + 1, <<page[s], sent[s]>>)
      BY <1>1, <1>6, <3>1, <3>3, FollowsFailure
    <3>5. /\ sent'[s] = sent[s] /\ page'[s] = page[s] /\ sent[s] \in Nat
          /\ PartOf(cache[page[s]].title, said[Peer])
      BY <1>1, <2>1, <2>2 DEF Sending
    <3>6. /\ sent'[s] \in Nat
          /\ PartOf(cache'[page'[s]].title, said'[Owner(s)'])
      BY <1>1, <3>2, <3>5
    <3>7. sent'[s] # 0 => Follows(got'[Owner(s)'], Len(got'[Owner(s)']) + 1,
                                  <<page'[s], sent'[s]>>)
      BY <3>2, <3>4, <3>5
    <3>8. Sending(s)' <=> /\ sent'[s] \in Nat
                          /\ PartOf(cache'[page'[s]].title, said'[Owner(s)'])
                          /\ sent'[s] # 0 => Follows(got'[Owner(s)'], Len(got'[Owner(s)']) + 1,
                                                     <<page'[s], sent'[s]>>)
      BY DEF Sending, Follows, PartOf, FailedConnect
    <3> QED  BY ONLY <3>6, <3>7, <3>8
  <2>3. CASE Owner(s) # Peer
    <3>1. got'[Owner(s)] = got[Owner(s)]
      BY <1>1, <1>4, <2>3 DEF PageInv, PageTypes
    <3> QED  BY <1>1, <1>4, <1>10, <2>1, <3>1, SendingStays DEF PageInv
  <2> QED  BY <2>2, <2>3
<1>11. SlotInv'
  <2>1. \A s \in SlotIds \ Occupied : page'[s] = EMPTY
    BY <1>1 DEF PageInv, SlotInv
  <2> QED  BY <1>1, <1>4, <1>10, <2>1 DEF SlotInv
<1>12. GotInv'
  <2>1. \A k \in 1..Len(more) : more[k] = FailedConnect
    OBVIOUS
  <2> HIDE DEF more
  <2> QED  BY <1>1, <1>5, <1>7, <2>1, MoreBytes DEF PageInv
<1> QED
  BY <1>8, <1>9, <1>11, <1>12 DEF PageInv

\* Two slots have two users.
LEMMA OwnersDiffer ==
    ASSUME IInv, PageInv, struck = {}, NEW s \in Occupied, NEW r \in Occupied, s # r
    PROVE  Owner(s) # Owner(r) /\ Owner(s) \in Users
<1>1. /\ s \in SlotIds /\ r \in SlotIds /\ clients[s] \in Fds /\ clients[r] \in Fds
      /\ clients[s] # clients[r]
      /\ open[clients[s]] \in Users /\ open[clients[r]] \in Users
  BY DEF IInv, TypeOK, SocketInv, Occupied
<1> QED
  BY <1>1 DEF PageInv, UserInv, Owner

\* A portion is not empty, and only the first begins with the first byte.
LEMMA PortionType ==
    ASSUME IInv, PageInv, at \in SlotIds, HasRest(at)
    PROVE  /\ page[at] \in DOMAIN cache /\ page[at] \in Nat /\ page[at] # 0 /\ sent[at] \in Int
           /\ Portion \in Nat /\ Portion # 0
<1>1. page[at] \in DOMAIN cache /\ sent[at] \in Int /\ page[at] \in Nat /\ page[at] # 0
  BY DEF HasRest, PageInv, PageTypes
<1>2. cache[page[at]].size \in Int
  <2>1. cache \in Seq([title : Seq(Words), size : Int])
    BY DEF PageInv, PageTypes
  <2>2. page[at] \in 1..Len(cache)
    BY <1>1, <2>1, LenProperties
  <2>3. cache[page[at]] \in [title : Seq(Words), size : Int]
    BY <2>1, <2>2, ElementOfSeq
  <2> QED  BY <2>3
<1> QED
  BY <1>1, <1>2 DEF HasRest, Portion

\* The bytes of a portion come one after the other, and after what the user has.
LEMMA ResendPages ==
    ASSUME IInv, PageInv, struck = {}, Resend
    PROVE  PageInv'
<1> DEFINE u == Peer
           p == page[at]
           n == sent[at]
           more == [k \in 1..Portion |-> <<p, n + k>>]
           all == got[u] \o more
<1>1. /\ at \in SlotIds /\ HasRest(at) /\ page[at] # EMPTY /\ link[u] = "up"
      /\ got' = [got EXCEPT ![u] = @ \o more]
      /\ sent' = [sent EXCEPT ![at] = @ + Portion]
      /\ UNCHANGED <<clients, page, cache, open, struck, link, said, wire>>
  BY DEF Resend, AtSlot, HasRest
<1>2. at \in Occupied /\ Owner(at) = u /\ u \in Users
  <2>1. at \in Occupied
    BY <1>1 DEF PageInv, SlotInv
  <2>2. Owner(at) \in Users
    BY <2>1 DEF IInv, SocketInv, Owner
  <2>3. Owner(at) = u
    BY DEF Owner, Peer
  <2> QED  BY <2>1, <2>2, <2>3
<1>3. /\ n \in Nat /\ PartOf(cache[p].title, said[u])
      /\ n # 0 => Follows(got[u], Len(got[u]) + 1, <<p, n>>)
  BY <1>1, <1>2 DEF PageInv, SlotInv, Sending
<1>4. p \in DOMAIN cache /\ p \in Nat /\ p # 0 /\ Portion \in Nat /\ Portion # 0
  BY <1>1, PortionType
<1>5. /\ more \in Seq(Nat \X Nat) /\ Len(more) = Portion
      /\ \A k \in 1..Portion : more[k] = <<p, n + k>>
  <2> HIDE DEF p, n
  <2>1. \A k \in 1..Portion : <<p, n + k>> \in Nat \X Nat
    BY <1>3, <1>4
  <2> QED  BY <1>4, <2>1
<1>6. got[u] \in Seq(Nat \X Nat) /\ Len(got[u]) \in Nat
  BY <1>2, LenProperties DEF PageInv, PageTypes
<1> HIDE DEF u, p, n, more
<1>7. /\ all \in Seq(Nat \X Nat) /\ Len(all) = Len(got[u]) + Portion
      /\ \A k \in 1..Portion : all[Len(got[u]) + k] = <<p, n + k>>
  <2>1. /\ all \in Seq(Nat \X Nat) /\ Len(all) = Len(got[u]) + Len(more)
        /\ \A i \in 1..(Len(got[u]) + Len(more)) :
             all[i] = IF i <= Len(got[u]) THEN got[u][i] ELSE more[i - Len(got[u])]
    <3> DEFINE old == got[u]
    <3>1. old \in Seq(Nat \X Nat) /\ more \in Seq(Nat \X Nat)
      BY <1>5, <1>6
    <3> HIDE DEF old
    <3>2. /\ old \o more \in Seq(Nat \X Nat) /\ Len(old \o more) = Len(old) + Len(more)
          /\ \A i \in 1..(Len(old) + Len(more)) :
               (old \o more)[i] = IF i <= Len(old) THEN old[i] ELSE more[i - Len(old)]
      BY <3>1, ConcatProperties
    <3> QED  BY <3>2 DEF old
  <2> HIDE DEF all
  <2>2. ASSUME NEW k \in 1..Portion PROVE all[Len(got[u]) + k] = <<p, n + k>>
    <3>1. /\ Len(got[u]) + k \in 1..(Len(got[u]) + Len(more))
          /\ ~(Len(got[u]) + k <= Len(got[u])) /\ (Len(got[u]) + k) - Len(got[u]) = k
      BY <1>4, <1>5, <1>6
    <3> QED  BY <1>5, <2>1, <3>1
  <2> QED  BY <1>5, <2>1, <2>2
<1>8. ASSUME NEW k \in 1..Portion
      PROVE  Follows(all, Len(got[u]) + k + 1, <<p, n + k>>)
  <2> DEFINE i == Len(got[u]) + k
  <2>1. i \in 1..((i + 1) - 1) /\ \A m \in (i + 1)..((i + 1) - 1) : FALSE
    BY <1>6
  <2>2. all[i] = <<p, n + k>>
    BY <1>7
  <2> HIDE DEF i, all
  <2>3. Follows(all, i + 1, <<p, n + k>>)
    BY <2>1, <2>2 DEF Follows
  <2> QED  BY <2>3 DEF i
<1>9. ASSUME NEW k \in 1..Portion, n + k # 1
      PROVE  Follows(all, Len(got[u]) + k, <<p, n + k - 1>>)
  <2>1. CASE k = 1
    <3>1. n # 0 /\ n + k - 1 = n /\ Len(got[u]) + 1 \in Nat
      BY <1>3, <1>6, <1>9, <2>1
    <3>2. Follows(all, Len(got[u]) + 1, <<p, n>>)
      <4>1. Follows(got[u], Len(got[u]) + 1, <<p, n>>)
        BY <1>3, <3>1
      <4>2. Len(got[u]) + 1 <= Len(got[u]) + 1
        BY <3>1
      <4> QED  BY <1>5, <1>6, <3>1, <4>1, <4>2, FollowsLonger
    <3> QED  BY <2>1, <3>1, <3>2
  <2>2. CASE k # 1
    <3>1. /\ k - 1 \in 1..Portion /\ Len(got[u]) + (k - 1) + 1 = Len(got[u]) + k
          /\ n + (k - 1) = n + k - 1
      BY <1>3, <1>4, <1>6, <2>2
    <3>2. Follows(all, Len(got[u]) + (k - 1) + 1, <<p, n + (k - 1)>>)
      BY <1>8, <3>1
    <3> QED  BY <3>1, <3>2
  <2> QED  BY <2>1, <2>2
<1>10. PageTypes' /\ WireInv'
  <2>1. got' \in [Users -> Seq(Nat \X Nat)]
    BY <1>1, <1>2, <1>7 DEF PageInv, PageTypes
  <2>2. sent' \in [SlotIds -> Int]
    <3>1. sent \in [SlotIds -> Int] /\ sent[at] + Portion \in Int
      BY <1>1, <1>4 DEF PageInv, PageTypes
    <3> QED  BY <1>1, <3>1
  <2> QED  BY <1>1, <2>1, <2>2 DEF PageInv, PageTypes, WireInv
<1>11. UserInv'
  BY <1>1 DEF PageInv, UserInv
<1>12. Occupied' = Occupied /\ \A s \in SlotIds : Owner(s)' = Owner(s)
  BY <1>1 DEF Occupied, Owner
<1>13. ASSUME NEW s \in Occupied, s = at
       PROVE  Sending(s)'
  <2>1. sent'[s] = n + Portion /\ page'[s] = p /\ got'[u] = all /\ Owner(s)' = u
    <3>1. sent'[s] = n + Portion /\ page'[s] = p
      BY <1>1, <1>13 DEF PageInv, PageTypes, p, n
    <3>2. got'[u] = all
      BY <1>1, <1>2 DEF PageInv, PageTypes
    <3>3. Owner(s)' = u
      BY <1>1, <1>2, <1>12, <1>13
    <3> QED  BY <3>1, <3>2, <3>3
  <2>2. Portion \in 1..Portion /\ Len(all) + 1 = Len(got[u]) + Portion + 1 /\ n + Portion \in Nat
    BY <1>3, <1>4, <1>6, <1>7
  <2>3. Follows(all, Len(all) + 1, <<p, n + Portion>>)
    BY <1>8, <2>2
  <2> HIDE DEF all
  <2>4. PartOf(cache'[page'[s]].title, said'[u])
    BY <1>1, <1>3, <2>1
  <2> QED  BY <2>1, <2>2, <2>3, <2>4 DEF Sending, PartOf, Follows, FailedConnect
<1>14. ASSUME NEW s \in Occupied, s # at, page[s] # EMPTY, link[Owner(s)] = "up"
       PROVE  Sending(s)'
  <2>1. Owner(s) \in Users /\ Owner(s) # u /\ s \in SlotIds
    BY <1>2, <1>14, OwnersDiffer DEF Occupied
  <2>2. got'[Owner(s)] = got[Owner(s)] /\ sent'[s] = sent[s]
    BY <1>1, <1>14, <2>1 DEF PageInv, PageTypes
  <2>3. Sending(s)
    BY <1>14 DEF PageInv, SlotInv
  <2> QED  BY <1>1, <1>12, <1>14, <2>1, <2>2, <2>3, SendingStays DEF PageInv
<1>15. SlotInv'
  <2>1. \A s \in SlotIds \ Occupied : page'[s] = EMPTY
    BY <1>1 DEF PageInv, SlotInv
  <2>2. \A s \in Occupied : s \in SlotIds
    BY DEF Occupied
  <2>3. ASSUME NEW s \in Occupied, page[s] # EMPTY, link[Owner(s)] = "up"
        PROVE  Sending(s)'
    BY <1>13, <1>14, <2>3
  <2> QED  BY <1>1, <1>12, <2>1, <2>2, <2>3 DEF SlotInv
<1>16. GotInv'
  <2>1. ASSUME NEW k \in 1..Len(more)
        PROVE  /\ more[k][1] \in DOMAIN cache
               /\ PartOf(cache[more[k][1]].title, said[u])
               /\ more[k][2] # 1 =>
                    Follows(all, Len(got[u]) + k, <<more[k][1], more[k][2] - 1>>)
    <3>1. k \in 1..Portion /\ more[k] = <<p, n + k>>
      BY <1>5
    <3> QED  BY <1>3, <1>4, <1>9, <3>1
  <2> QED  BY <1>1, <1>2, <1>5, <2>1, MoreBytes DEF PageInv
<1> QED
  BY <1>10, <1>11, <1>15, <1>16 DEF PageInv

\* To a user that left, nothing is sent that counts.
LEMMA ResendToGonePages ==
    ASSUME IInv, PageInv, struck = {}, ResendToGone
    PROVE  PageInv'
<1>1. /\ at \in SlotIds /\ HasRest(at) /\ page[at] # EMPTY /\ link[Peer] = "gone"
      /\ \E i \in {sent[at], sent[at] + Portion, sent[at] - 1} : sent' = [sent EXCEPT ![at] = i]
      /\ UNCHANGED <<clients, page, cache, open, struck, link, said, wire, got>>
  <2>1. sent \in [SlotIds -> Int]
    BY DEF PageInv, PageTypes
  <2>2. sent = [sent EXCEPT ![at] = sent[at]]
    BY <2>1
  <2> QED  BY <2>2 DEF ResendToGone, AtSlot, HasRest, peers
<1>2. PageTypes' /\ WireInv'
  <2>1. \A i \in {sent[at], sent[at] + Portion, sent[at] - 1} : i \in Int
    BY <1>1, PortionType
  <2>2. sent' \in [SlotIds -> Int]
    <3>1. sent \in [SlotIds -> Int]
      BY DEF PageInv, PageTypes
    <3> QED  BY <1>1, <2>1, <3>1
  <2> QED  BY <1>1, <2>2 DEF PageInv, PageTypes, WireInv
<1>3. UserInv'
  BY <1>1 DEF PageInv, UserInv
<1>4. Occupied' = Occupied /\ \A s \in SlotIds : Owner(s)' = Owner(s)
  BY <1>1 DEF Occupied, Owner
<1>5. ASSUME NEW s \in Occupied, page[s] # EMPTY, link[Owner(s)] = "up"
      PROVE  Sending(s)'
  <2>1. s \in SlotIds /\ Owner(s) \in Users
    BY DEF Occupied, Owner, IInv, SocketInv
  <2>2. s # at
    BY <1>1, <1>5 DEF Owner, Peer
  <2>3. sent'[s] = sent[s]
    BY <1>1, <2>1, <2>2 DEF PageInv, PageTypes
  <2>4. Sending(s)
    BY <1>5 DEF PageInv, SlotInv
  <2> QED  BY <1>1, <1>4, <1>5, <2>1, <2>3, <2>4, SendingStays DEF PageInv
<1>6. SlotInv'
  <2>1. \A s \in SlotIds \ Occupied : page'[s] = EMPTY
    BY <1>1 DEF PageInv, SlotInv
  <2>2. \A s \in Occupied : s \in SlotIds
    BY DEF Occupied
  <2> QED  BY <1>1, <1>4, <1>5, <2>1, <2>2 DEF SlotInv
<1>7. GotInv'
  BY <1>1, GotStays DEF PageInv
<1> QED
  BY <1>2, <1>3, <1>6, <1>7 DEF PageInv

\* Nothing is asked for and nothing sent at the start.
LEMMA InitPages == Init => PageInv
<1> SUFFICES ASSUME Init PROVE PageInv
  OBVIOUS
<1>1. PageTypes
  BY DEF Init, EmptySlots, InitUsers, PageTypes, EMPTY
<1>2. WireInv
  <2>1. \A u \in Users : said[u] = <<>> /\ wire[u] = <<>>
    BY DEF Init, InitUsers
  <2>2. Len(<<>>) = 0 /\ SubSeq(<<>>, 0 + 1, 0) = <<>>
    BY SubSeqEmpty
  <2>3. \A u \in Users : 0 \in 0..Len(said[u]) /\ wire[u] = SubSeq(said[u], 0 + 1, Len(said[u]))
    <3> SUFFICES ASSUME NEW u \in Users
                 PROVE  0 \in 0..Len(said[u]) /\ wire[u] = SubSeq(said[u], 0 + 1, Len(said[u]))
      OBVIOUS
    <3>1. said[u] = <<>> /\ wire[u] = <<>> /\ Len(said[u]) = 0
      BY <2>1, <2>2
    <3>2. SubSeq(said[u], 0 + 1, Len(said[u])) = <<>>
      BY <2>2, <3>1, Zenon
    <3> QED  BY <3>1, <3>2
  <2> QED  BY <2>3 DEF WireInv
<1>3. UserInv
  BY UsersAssumption DEF Init, UserInv
<1>4. Occupied = {} /\ \A s \in SlotIds : page[s] = EMPTY
  BY DEF Init, EmptySlots, Occupied
<1>5. SlotInv
  BY <1>4 DEF SlotInv
<1>6. GotInv
  BY DEF Init, InitUsers, GotInv
<1> QED
  BY <1>1, <1>2, <1>3, <1>5, <1>6 DEF PageInv

\* Whatever is done, unless an exit struck a user's descriptor.
LEMMA StepPages ==
    ASSUME IInv, struck = {} => PageInv, [Next]_vars, struck' = {}
    PROVE  PageInv'
<1>1. struck = {}
  <2>1. \/ UNCHANGED struck
        \/ Exit
    BY DEF Next, Proxy, Read, Answer, Send, Peers, vars, Quit, Stopped, AcceptNewClient, Accepted,
       AcceptFails, NoAccept, SkipSlot, ReadStruck, ReadNothing, NothingThere, ReadEndByLine,
       ReadReset, BadUrl, NoHost, Found, ConnectFails, Fetch, CacheFull, BehindBlock, SendNothing,
       Resend, ResendToGone, ResendBeforePage, ClientSend, ClientGivesUp
  <2>2. Exit => struck \subseteq struck'
    BY DEF Exit, HandleClientDisconnecting, HangUp
  <2> QED  BY <2>1, <2>2
<1>2. PageInv
  BY <1>1
<1>3. CASE \/ UNCHANGED vars \/ Quit \/ Stopped \/ AcceptFails \/ NoAccept \/ SkipSlot
           \/ Read \/ SendNothing \/ ResendBeforePage
  <2>1. UNCHANGED <<clients, open, struck, page, sent, cache, link, said, wire, got>>
    BY <1>3 DEF vars, Quit, Stopped, AcceptFails, NoAccept, SkipSlot, Read, ReadStruck,
       ReadNothing, NothingThere, ReadEndByLine, ReadReset, SendNothing, ResendBeforePage,
       slots, peers
  <2> QED  BY <1>1, <1>2, <2>1, NothingMoves
<1>4. CASE BadUrl \/ NoHost \/ CacheFull \/ BehindBlock
  BY <1>1, <1>2, <1>4, UnansweredPages
<1>5. CASE Peers
  BY <1>1, <1>2, <1>5, PeerPages
<1>6. CASE AcceptNewClient
  BY <1>1, <1>2, <1>6, AcceptPages
<1>7. CASE Exit
  BY <1>2, <1>7, ExitPages
<1>8. CASE Found \/ Fetch \/ ConnectFails
  BY <1>1, <1>2, <1>8, FoundPages, FetchPages, ConnectFailsPages
<1>9. CASE Resend \/ ResendToGone
  BY <1>1, <1>2, <1>9, ResendPages, ResendToGonePages
<1> QED
  BY <1>3, <1>4, <1>5, <1>6, <1>7, <1>8, <1>9 DEF Next, Proxy, Answer, Send

\* The inductive invariant of the pages.
THEOREM PagesInvariance == Spec => [](struck = {} => PageInv)
<1> DEFINE J == struck = {} => PageInv
<1>1. Init => J
  BY InitPages
<1>2. IInv /\ J /\ [Next]_vars => J'
  BY StepPages
<1> HIDE DEF J
<1>3. Spec => []J
  BY <1>1, <1>2, Invariance, PTL DEF Spec
<1> QED
  BY <1>3 DEF J

\* proxy.c 186-236: until an exit closes somebody else's number, a user is sent what it
\* asked for, in order and without gaps.
THEOREM PagesOwned == Spec => []OwnPages
<1>1. (struck = {} => PageInv) => OwnPages
  BY DEF PageInv, GotInv, Asked, OwnPages
<1> QED
  BY <1>1, PagesInvariance, PTL
=============================================================================
