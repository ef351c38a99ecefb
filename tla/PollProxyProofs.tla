--------------------------- MODULE PollProxyProofs ---------------------------
(***************************************************************************)
(* Theorems about PollProxy for any number of users, connections and       *)
(* scripts: no client is left with a deleted buffer, the users that an     *)
(* element counts are the clients it is sent to, and the cache holds what  *)
(* the origins sent.  The flags of a buffer stand for clients on the list, *)
(* and until an answer came nobody has the element that is going to be     *)
(* made of it (IInv); what a user that only asks for a page and its origin *)
(* sent is in the buffer and in the element, in order (CInv).              *)
(***************************************************************************)
EXTENDS PollProxy, CommonLemmas

\* A record with the fields of a buffer, and of an element.
BufferFields ==
    {"statusClient", "statusServer", "heading", "buf", "clientConnect", "serverConnect", "ready",
     "endSend", "readyConnect", "lengthBody", "haveLength", "addData", "getCash", "readFromCash",
     "element", "error"}
IsBuffer(x) ==
    /\ x = [f \in BufferFields |-> x[f]]
    /\ x.clientConnect \in BOOLEAN /\ x.serverConnect \in BOOLEAN /\ x.getCash \in BOOLEAN

IsElement(e) ==
    /\ e = [f \in {"head", "content", "ended", "connected", "users"} |-> e[f]]
    /\ e.users \in Int

IsElements(ee) == ee = [u \in Users |-> ee[u]] /\ \A u \in Users : IsElement(ee[u])

TypeOK ==
    /\ pc \in {"socket", "configure", "poll", "handle", "accept"}
    /\ list \in Seq(Conns)
    /\ it \in Nat \ {0}
    /\ b = [u \in Users |-> b[u]] /\ \A u \in Users : IsBuffer(b[u])
    /\ live \in SUBSET Users
    /\ IsElements(elem)
    /\ cash \in Seq(Users)
    /\ knock \in BOOLEAN
    /\ request = [u \in Users |-> request[u]]
    /\ dials \in [Users -> 0..MaxDials]

\* The iterator.
PositionInv == IF pc = "handle" THEN it \in 1..Len(list) ELSE it = 1

\* No client is on the list twice.
ListInv ==
    /\ \A i, j \in 1..Len(list) : list[i] = list[j] => i = j
    /\ \A c \in ToSet(list) : c[2] <= dials[c[1]]

\* The users that came are the first ones.
Came(u) == request[u] # NoRequest
ComingInv ==
    /\ \A u, v \in Users : v < u /\ Came(u) => Came(v)
    /\ knock => Accepted < NumUsers
    /\ \A u \in Users : ~Came(u) => dials[u] = 0 /\ u \notin live

\* The two flags of a buffer stand for clients on the list.
ServersListed(l, u) == \E c \in ToSet(l) : c[1] = u /\ c[2] # 0
LinksInv ==
    \A u \in Users :
        /\ u \in live =>
             /\ b[u].clientConnect <=> <<u, 0>> \in ToSet(list)
             /\ b[u].serverConnect => ServersListed(list, u)
             /\ b[u].clientConnect \/ b[u].serverConnect
             /\ dials[u] < 2 /\ ServersListed(list, u) => b[u].serverConnect
        /\ u \notin live =>
             /\ b[u] = NewBuffer
             /\ <<u, 0>> \notin ToSet(list)
             /\ dials[u] < 2 => ~ServersListed(list, u)

\* Statuses.
StatusOk(x) ==
    /\ x.statusClient = "WRITE_REQUEST_HEADING" => x.clientConnect /\ ~x.getCash
    /\ x.statusClient = "WRITE_REQUEST_HEADING" \/ x.getCash
         => x.statusServer \in {"READ_REQUEST", "END_WORK"}
    /\ x.getCash => x.element \in Users
StatusInv == \A u \in Users : StatusOk(b[u])

\* Nothing was stored for u yet.
Before(x) == x.statusServer \in {"READ_REQUEST", "WRITE_RESPONSE_HEADING"}
NoElement(u, x) == ~Came(u) \/ (u \in live /\ Before(x))
ElementsOk(bb, cc) ==
    \A u \in Users : NoElement(u, bb[u]) =>
        u \notin ToSet(cc) /\ \A v \in Users : bb[v].getCash => bb[v].element # u
ElementInv == ElementsOk(b, cash)

ServedFrom(bb, l, e) ==
    {c \in ToSet(l) : IsUser(c) /\ bb[c[1]].getCash /\ bb[c[1]].element = e}
Counted(bb, l, ee) == \A e \in Users : ee[e].users = Cardinality(ServedFrom(bb, l, e))
CountInv == Counted(b, list, elem)

IInv ==
    /\ TypeOK /\ PositionInv /\ ListInv /\ ComingInv /\ LinksInv /\ StatusInv /\ ElementInv
    /\ CountInv

USE PollAssumption, ScriptsAssumption

-----------------------------------------------------------------------------
(* The cache.                                                              *)

IsCache(s) == s = [f \in {"elem", "cash", "bytes"} |-> s[f]]

\* No key is on the list twice.
KeysOk(ee, cc) == \A i, j \in 1..Len(cc) : ee[cc[i]].head = ee[cc[j]].head => i = j

\* Without one of its elements the list does not have the key of that any more.
LEMMA KeysRemove ==
    ASSUME NEW C, NEW cc \in Seq(C), NEW i \in 1..Len(cc), NEW ee, KeysOk(ee, cc)
    PROVE  /\ KeysOk(ee, RemoveAt(cc, i))
           /\ \A j \in 1..Len(RemoveAt(cc, i)) : ee[RemoveAt(cc, i)[j]].head # ee[cc[i]].head
<1> DEFINE L == Len(cc)
           rest == RemoveAt(cc, i)
           from(n) == IF n < i THEN n ELSE n + 1
<1>1. L \in Nat /\ i \in 1..L /\ Len(rest) = L - 1
  BY RemoveAtFacts
<1>2. \A n \in 1..(L - 1) : from(n) \in 1..L /\ from(n) # i /\ rest[n] = cc[from(n)]
  <2>1. \A n \in 1..(L - 1) : from(n) \in 1..L /\ from(n) # i
    BY <1>1
  <2> QED
    BY <2>1, RemoveAtFacts
<1>3. \A m, n \in 1..(L - 1) : from(m) = from(n) => m = n
  BY <1>1
<1> HIDE DEF rest, from, L
<1>4. \A m, n \in 1..L : ee[cc[m]].head = ee[cc[n]].head => m = n
  BY DEF KeysOk, L
<1>5. \A m, n \in 1..(L - 1) : ee[rest[m]].head = ee[rest[n]].head => m = n
  BY <1>2, <1>3, <1>4
<1>6. \A m \in 1..(L - 1) : ee[rest[m]].head # ee[cc[i]].head
  BY <1>1, <1>2, <1>4
<1> QED
  BY <1>1, <1>5, <1>6 DEF KeysOk, rest

\* A walk of the eviction that leaves the elements ee alone, those in C on the list
\* and, if k, each key at one place only.
WalkOk(w, ee, C, k) ==
    /\ w = [f \in {"s", "at"} |-> w[f]]
    /\ IsCache(w.s) /\ w.s.elem = ee
    /\ w.s.cash \in Seq(C)
    /\ w.at \in 0..Len(w.s.cash)
    /\ k => KeysOk(ee, w.s.cash)

\* A round takes an element from the list or moves on.
LEMMA RoundKeeps ==
    ASSUME NEW C, NEW ee, NEW k, NEW w, WalkOk(w, ee, C, k), NEW size
    PROVE  WalkOk(EvictStep(w, size), ee, C, k)
<1> DEFINE next(i, n) == IF i > n THEN 0 ELSE i
           rest == RemoveAt(w.s.cash, w.at)
           left == w.s.bytes - Len(w.s.elem[w.s.cash[w.at]].content)
                     - Len(w.s.elem[w.s.cash[w.at]].head)
           fewer == [w.s EXCEPT !.cash = rest, !.bytes = left]
           n == Len(w.s.cash)
<1>0. n \in Nat /\ w.at \in 0..n /\ w.s.cash \in Seq(C)
  BY DEF WalkOk
<1>1. CASE w.at = 0
  BY <1>1 DEF EvictStep
<1>2. CASE w.at # 0 /\ w.s.elem[w.s.cash[w.at]].users > 0
  <2>1. EvictStep(w, size) = [w EXCEPT !.at = next(w.at + 1, n)]
    BY <1>2 DEF EvictStep
  <2>2. next(w.at + 1, n) \in 0..n
    BY <1>0
  <2> HIDE DEF next
  <2> QED
    BY <2>1, <2>2 DEF WalkOk
<1>3. CASE w.at # 0 /\ ~(w.s.elem[w.s.cash[w.at]].users > 0)
  <2>1. rest \in Seq(C) /\ Len(rest) \in Nat
    <3>1. w.at \in 1..Len(w.s.cash)
      BY <1>0, <1>3
    <3> QED
      BY <1>0, <3>1, RemoveAtFacts
  <2>2. \E at \in 0..Len(rest) : EvictStep(w, size) = [s |-> fewer, at |-> at]
    <3>1. \A i \in Nat : next(i, Len(rest)) \in 0..Len(rest)
      BY <2>1
    <3>2. PICK at : /\ EvictStep(w, size) = [s |-> fewer, at |-> at]
                    /\ at \in {0, next(1, Len(rest)), next(w.at + 1, Len(rest))}
      BY <1>3 DEF EvictStep
    <3>3. w.at + 1 \in Nat /\ 1 \in Nat
      BY <1>0
    <3>4. at \in 0..Len(rest)
      <4> HIDE DEF next, rest
      <4> QED
        BY <2>1, <3>1, <3>2, <3>3
    <3> HIDE DEF next, rest, fewer
    <3> QED
      BY <3>2, <3>4
  <2>3. IsCache(fewer) /\ fewer.elem = ee /\ fewer.cash = rest
    <3> HIDE DEF rest, left
    <3> QED
      BY DEF WalkOk, IsCache
  <2> HIDE DEF fewer, rest
  <2>4. PICK at \in 0..Len(rest) : EvictStep(w, size) = [s |-> fewer, at |-> at]
    BY <2>2
  <2>5. k => KeysOk(ee, rest)
    <3>1. w.at \in 1..Len(w.s.cash)
      BY <1>0, <1>3
    <3> QED
      BY <1>0, <3>1, KeysRemove DEF WalkOk, rest
  <2> QED
    BY <2>1, <2>3, <2>4, <2>5 DEF WalkOk
<1> QED
  BY <1>1, <1>2, <1>3

\* The eviction leaves the elements alone and adds nothing to the list.
LEMMA EvictKeeps ==
    ASSUME NEW C, NEW s, IsCache(s), s.cash \in Seq(C), NEW size
    PROVE  /\ IsCache(Evict(s, size)) /\ Evict(s, size).elem = s.elem
           /\ Evict(s, size).cash \in Seq(C)
           /\ KeysOk(s.elem, s.cash) => KeysOk(s.elem, Evict(s, size).cash)
<1> DEFINE R == Rounds(s)
           k == KeysOk(s.elem, s.cash)
           start == [s |-> s, at |-> IF s.cash = <<>> THEN 0 ELSE 1]
           Walks(g, n) == /\ g = [i \in 0..n |-> g[i]]
                          /\ g[0] = start
                          /\ \A i \in 1..n : g[i] = EvictStep(g[i - 1], size)
           T == {n \in 0..R : \E g : Walks(g, n)}
           Is(g) == g = [i \in 0..R |-> IF i = 0 THEN start ELSE EvictStep(g[i - 1], size)]
<1>0. R \in Nat
  BY DEF Rounds
<1>1. 0 \in T
  <2>1. Walks([i \in 0..0 |-> start], 0)
    OBVIOUS
  <2>2. \E g : Walks(g, 0)
    BY <2>1
  <2> HIDE DEF Walks, R
  <2> QED
    BY <2>2, <1>0
<1>2. ASSUME NEW n \in 1..R, n - 1 \in T PROVE n \in T
  <2>1. PICK g : Walks(g, n - 1)
    BY <1>2
  <2> DEFINE h == [i \in 0..n |-> IF i = n THEN EvictStep(g[n - 1], size) ELSE g[i]]
  <2> HIDE DEF start, R
  <2>2. n \in Nat /\ n >= 1
    BY <1>0
  <2>3. h[0] = start /\ h = [i \in 0..n |-> h[i]]
    BY <2>1, <2>2
  <2>4. ASSUME NEW i \in 1..n PROVE h[i] = EvictStep(h[i - 1], size)
    <3>1. i - 1 \in 0..n /\ i - 1 # n /\ i \in 0..n /\ (i # n => i \in 1..(n - 1))
      BY <2>2
    <3>2. h[i - 1] = g[i - 1]
      BY <3>1
    <3> QED
      BY <2>1, <2>2, <3>1, <3>2
  <2>5. Walks(h, n)
    BY <2>3, <2>4
  <2>6. \E f : Walks(f, n)
    BY <2>5
  <2> HIDE DEF Walks
  <2> QED
    BY <2>6, <1>0
<1>3. R \in T
  <2>1. T \in SUBSET (0..R)
    OBVIOUS
  <2> HIDE DEF T, R
  <2>2. T = 0..R
    BY <1>0, <1>1, <1>2, <2>1, Carried
  <2> QED
    BY <2>2, <1>0
<1>4. PICK g : Walks(g, R)
  BY <1>3
<1>5. Is(g)
  <2> HIDE DEF start, R
  <2> QED
    BY <1>0, <1>4
<1>6. EvictWalk(s, size) = CHOOSE f : Is(f)
  BY DEF EvictWalk
<1>7. Is(EvictWalk(s, size))
  <2> HIDE DEF Is
  <2> QED
    BY <1>5, <1>6
<1> DEFINE f == EvictWalk(s, size)
<1> HIDE DEF f
<1>8. f[0] = start /\ \A i \in 1..R : f[i] = EvictStep(f[i - 1], size)
  <2>1. f = [i \in 0..R |-> IF i = 0 THEN start ELSE EvictStep(f[i - 1], size)]
    BY <1>7 DEF f
  <2> HIDE DEF start, R
  <2> QED
    BY <1>0, <2>1
<1> DEFINE S == {i \in 0..R : WalkOk(f[i], s.elem, C, k)}
<1>9. S = 0..R
  <2>1. WalkOk(start, s.elem, C, k)
    <3>1. s.cash # <<>> => 1 \in 0..Len(s.cash)
      OBVIOUS
    <3> QED
      BY <3>1 DEF WalkOk
  <2> HIDE DEF start, R
  <2>2. S \in SUBSET (0..R) /\ 0 \in S
    BY <1>0, <1>8, <2>1
  <2>3. \A i \in 1..R : i - 1 \in S => i \in S
    BY <1>0, <1>8, RoundKeeps
  <2> HIDE DEF S
  <2> QED
    BY <1>0, <2>2, <2>3, Carried
<1>10. WalkOk(f[R], s.elem, C, k)
  <2>1. R \in S
    <3> HIDE DEF R, S
    <3> QED
      BY <1>0, <1>9
  <2> QED
    BY <2>1
<1> QED
  BY <1>10 DEF WalkOk, Evict, f

-----------------------------------------------------------------------------
(* What a read leaves for the rest of the handling: a buffer x of user u   *)
(* and a cache s.                                                          *)

ReadOk(u, x, s) ==
    /\ IsBuffer(x) /\ StatusOk(x)
    /\ x.clientConnect = b[u].clientConnect /\ x.serverConnect = b[u].serverConnect
    /\ IsElements(s.elem)
    /\ s.cash \in Seq(Users)
    /\ ElementsOk([b EXCEPT ![u] = x], s.cash)
    /\ Counted([b EXCEPT ![u] = x], list, s.elem)

\* The elements may change but not the users they count.
SameUsers(ee, ff) == IsElements(ff) /\ \A e \in Users : ff[e].users = ee[e].users

LEMMA OwnCash == ASSUME IInv PROVE cash \in Seq(ToSet(cash)) /\ ToSet(cash) \subseteq Users
  BY OwnEntries DEF IInv, TypeOK

\* A read that looks nothing up and stores nothing; an eviction may shorten the cache.
LEMMA QuietRead ==
    ASSUME IInv, NEW u \in live, NEW x, NEW s,
           IsBuffer(x), StatusOk(x), Before(x) => Before(b[u]),
           x.clientConnect = b[u].clientConnect, x.serverConnect = b[u].serverConnect,
           x.getCash = b[u].getCash, x.getCash => x.element = b[u].element,
           SameUsers(elem, s.elem), s.cash \in Seq(ToSet(cash))
    PROVE  ReadOk(u, x, s)
<1> DEFINE bb == [b EXCEPT ![u] = x]
<1>1. u \in Users /\ b = [v \in Users |-> b[v]] /\ list \in Seq(Conns)
  BY DEF IInv, TypeOK
<1>2. bb[u] = x /\ \A v \in Users : v # u => bb[v] = b[v]
  BY <1>1
<1>3. \A v \in Users : /\ bb[v].getCash = b[v].getCash
                       /\ bb[v].getCash => bb[v].element = b[v].element
                       /\ NoElement(v, bb[v]) => NoElement(v, b[v])
  BY <1>2 DEF NoElement
<1> HIDE DEF bb
<1>4. s.cash \in Seq(Users) /\ ToSet(s.cash) \subseteq ToSet(cash)
  <2>1. ToSet(s.cash) \subseteq ToSet(cash)
    BY OwnEntries
  <2> QED
    BY <2>1, OwnCash
<1>5. ElementsOk(bb, s.cash)
  BY <1>3, <1>4 DEF ElementsOk, IInv, ElementInv
<1>6. \A e \in Users : ServedFrom(bb, list, e) = ServedFrom(b, list, e)
  <2>1. \A c \in ToSet(list) : c[1] \in Users
    <3>1. ToSet(list) \subseteq Conns
      BY <1>1, OwnEntries
    <3> QED
      BY <3>1 DEF Conns
  <2> QED
    BY <1>3, <2>1 DEF ServedFrom
<1>7. Counted(bb, list, s.elem)
  BY <1>6 DEF Counted, SameUsers, IInv, CountInv
<1> QED
  BY <1>4, <1>5, <1>7 DEF ReadOk, SameUsers, bb

\* The connections are users of finite sets.
LEMMA FiniteConns == IsFiniteSet(Conns)
<1>1. IsFiniteSet(Users) /\ IsFiniteSet(0..MaxDials)
  BY FS_Interval DEF Users
<1> QED
  BY <1>1, FS_Product DEF Conns

\* The clients on the list are connections, each of a user.
LEMMA ListedConns ==
    ASSUME IInv
    PROVE  ToSet(list) \subseteq Conns /\ \A c \in ToSet(list) : c[1] \in Users
<1>1. ToSet(list) \subseteq Conns
  BY OwnEntries DEF IInv, TypeOK
<1> QED
  BY <1>1 DEF Conns

LEMMA ServedFinite ==
    ASSUME IInv, NEW bb, NEW l, ToSet(l) \subseteq Conns, NEW e
    PROVE  IsFiniteSet(ServedFrom(bb, l, e)) /\ Cardinality(ServedFrom(bb, l, e)) \in Nat
<1>1. ServedFrom(bb, l, e) \subseteq Conns
  BY DEF ServedFrom
<1> QED
  BY <1>1, FiniteConns, FS_Subset, FS_CardinalityType

LEMMA NewCount ==
    ASSUME NEW x, IsElement(x), NEW n \in Int
    PROVE  IsElement([x EXCEPT !.users = n]) /\ [x EXCEPT !.users = n].users = n
  BY DEF IsElement

\* A read that finds its answer: the element counts one more user, who is on the list.
LEMMA HitRead ==
    ASSUME IInv, NEW u \in live, NEW x, NEW head,
           b[u].statusClient = "WRITE_REQUEST_HEADING", Stored(Here, head) # {},
           IsBuffer(x), x.statusClient = "READ_RESPONSE", x.statusServer = b[u].statusServer,
           x.clientConnect = b[u].clientConnect, x.serverConnect = b[u].serverConnect,
           x.getCash, x.element = cash[Place(Here, head)]
    PROVE  ReadOk(u, x, Hit(Here, head))
<1> DEFINE bb == [b EXCEPT ![u] = x]
           i == Place(Here, head)
           e == cash[i]
           s == Hit(Here, head)
           C == ToSet(cash)
<1>1. /\ u \in Users /\ b = [v \in Users |-> b[v]] /\ list \in Seq(Conns)
      /\ IsElements(elem) /\ cash \in Seq(Users)
  BY DEF IInv, TypeOK
<1>2. i \in 1..Len(cash)
  <2>1. \E j \in DOMAIN cash : elem[cash[j]].head = head
    BY DEF Stored, Here, ToSet
  <2>2. i \in DOMAIN cash
    BY <2>1 DEF Place, Here
  <2> QED
    BY <1>1, <2>2
<1> HIDE DEF i
<1>3. e \in C /\ e \in Users
  <2>1. e \in C
    BY <1>1, <1>2 DEF ToSet
  <2> QED
    BY <2>1, OwnCash
<1>4. /\ s.cash = Append(RemoveAt(cash, i), e) /\ s.elem = [elem EXCEPT ![e].users = @ + 1]
      /\ x.element = e
  BY DEF Hit, Here, i
<1> HIDE DEF s, e
<1>5. s.cash \in Seq(C)
  <2>1. cash \in Seq(C)
    BY OwnCash
  <2>2. RemoveAt(cash, i) \in Seq(C)
    BY <2>1, <1>2, RemoveAtFacts
  <2> QED
    BY <2>2, <1>3, <1>4
<1>6. ToSet(s.cash) \subseteq C /\ s.cash \in Seq(Users)
  <2>1. C \subseteq Users
    BY OwnCash
  <2>2. ToSet(s.cash) \subseteq C
    BY <1>5, OwnEntries
  <2> QED
    BY <1>5, <2>1, <2>2
<1>7. bb[u] = x /\ \A v \in Users : v # u => bb[v] = b[v]
  BY <1>1
<1> HIDE DEF bb, C
<1>8. StatusOk(b[u]) /\ StatusOk(x) /\ ~b[u].getCash
  BY <1>1, <1>3, <1>4 DEF IInv, StatusInv, StatusOk
<1>9. ElementsOk(bb, s.cash)
  <2> SUFFICES ASSUME NEW v \in Users, NoElement(v, bb[v])
               PROVE  v \notin ToSet(s.cash) /\ \A w \in Users : bb[w].getCash => bb[w].element # v
    BY DEF ElementsOk
  <2>1. NoElement(v, b[v])
    BY <1>7 DEF NoElement, Before
  <2>2. v \notin ToSet(cash) /\ \A w \in Users : b[w].getCash => b[w].element # v
    BY <2>1 DEF IInv, ElementInv, ElementsOk
  <2>3. e # v
    BY <2>2, <1>3 DEF C
  <2> QED
    BY <2>2, <2>3, <1>4, <1>6, <1>7 DEF C
<1>10. <<u, 0>> \in ToSet(list)
  <2>1. b[u].clientConnect
    BY <1>8 DEF StatusOk
  <2> QED
    BY <1>1, <2>1 DEF IInv, LinksInv
<1>11. IsElements(s.elem)
  <2>1. s.elem = [v \in Users |-> IF v = e THEN [elem[e] EXCEPT !.users = @ + 1] ELSE elem[v]]
    BY <1>1, <1>4 DEF IsElements
  <2>2. IsElement([elem[e] EXCEPT !.users = @ + 1])
    <3>1. IsElement(elem[e]) /\ elem[e].users + 1 \in Int
      BY <1>1, <1>3 DEF IsElements, IsElement
    <3> QED
      BY <3>1, NewCount
  <2> QED
    <3>1. \A v \in Users : IsElement(s.elem[v])
      BY <1>1, <2>1, <2>2 DEF IsElements
    <3>2. s.elem = [v \in Users |-> s.elem[v]]
      BY <2>1
    <3> QED
      BY <3>1, <3>2 DEF IsElements
<1>12. ASSUME NEW v \in Users PROVE s.elem[v].users = Cardinality(ServedFrom(bb, list, v))
  <2>1. elem[v].users = Cardinality(ServedFrom(b, list, v))
    BY DEF IInv, CountInv, Counted
  <2>2. \A c \in ToSet(list) : c[1] \in Users /\ (IsUser(c) /\ c[1] = u => c = <<u, 0>>)
    BY ListedConns DEF Conns, IsUser
  <2>3. CASE v = e
    <3>1. ServedFrom(bb, list, v) = ServedFrom(b, list, v) \cup {<<u, 0>>}
      <4>1. ASSUME NEW c \in ToSet(list), IsUser(c)
            PROVE  (bb[c[1]].getCash /\ bb[c[1]].element = v)
                     <=> (c = <<u, 0>> \/ (b[c[1]].getCash /\ b[c[1]].element = v))
        <5>1. CASE c[1] = u
          BY <1>4, <1>7, <2>2, <2>3, <4>1, <5>1
        <5>2. CASE c[1] # u
          BY <1>7, <2>2, <5>2
        <5> QED
          BY <5>1, <5>2
      <4>2. <<u, 0>> \in ToSet(list) /\ IsUser(<<u, 0>>)
        BY <1>10 DEF IsUser
      <4> QED
        BY <4>1, <4>2 DEF ServedFrom
    <3>2. <<u, 0>> \notin ServedFrom(b, list, v)
      BY <1>8 DEF ServedFrom
    <3>3. Cardinality(ServedFrom(bb, list, v)) = Cardinality(ServedFrom(b, list, v)) + 1
      BY <3>1, <3>2, ListedConns, ServedFinite, FS_AddElement
    <3>4. s.elem[v].users = elem[v].users + 1
      BY <1>1, <1>4, <2>3 DEF IsElements, IsElement
    <3> QED
      BY <2>1, <3>3, <3>4
  <2>4. CASE v # e
    <3>1. ServedFrom(bb, list, v) = ServedFrom(b, list, v)
      BY <1>4, <1>7, <1>8, <2>2, <2>4 DEF ServedFrom
    <3>2. s.elem[v] = elem[v]
      BY <1>1, <1>4, <2>4 DEF IsElements
    <3> QED
      BY <2>1, <3>1, <3>2
  <2> QED
    BY <2>3, <2>4
<1> QED
  BY <1>6, <1>8, <1>9, <1>11, <1>12 DEF ReadOk, Counted, bb, s

\* addStringToCash puts the user's element behind the others or leaves the elements alone.
LEMMA AddKeeps ==
    ASSUME NEW C, NEW s, IsCache(s), s.cash \in Seq(C), NEW u, NEW head, NEW length
    PROVE  LET try == AddStringToCash(s, u, head, length)
           IN  /\ IsCache(try.s) /\ try.added \in BOOLEAN
               /\ try.added => /\ try.s.elem = [s.elem EXCEPT ![u] = NewElement(head)]
                               /\ try.s.cash \in Seq(C \cup {u})
               /\ ~try.added => try.s.elem = s.elem /\ try.s.cash \in Seq(C)
<1> DEFINE size == length + Len(head)
           room == IF Full(s.bytes + size) THEN Evict(s, size) ELSE s
           more == [room EXCEPT !.bytes = @ + size, !.cash = Append(@, u),
                                !.elem[u] = NewElement(head)]
           try == AddStringToCash(s, u, head, length)
<1>1. try = IF Full(room.bytes + size) THEN [s |-> room, added |-> FALSE]
                                       ELSE [s |-> more, added |-> TRUE]
  BY DEF AddStringToCash
<1>2. IsCache(room) /\ room.elem = s.elem /\ room.cash \in Seq(C)
  BY EvictKeeps
<1> HIDE DEF room, try, size
<1>3. /\ IsCache(more) /\ more.elem = [s.elem EXCEPT ![u] = NewElement(head)]
      /\ more.cash = Append(room.cash, u)
  BY <1>2 DEF IsCache
<1>4. more.cash \in Seq(C \cup {u})
  <2>1. room.cash \in Seq(C \cup {u})
    BY <1>2
  <2> QED
    BY <2>1, <1>3
<1> HIDE DEF more
<1>5. CASE Full(room.bytes + size)
  <2>1. try = [s |-> room, added |-> FALSE]
    BY <1>1, <1>5
  <2>2. try.s = room /\ try.added = FALSE
    BY <2>1
  <2> HIDE DEF try
  <2>3. IsCache(try.s) /\ ~try.added /\ try.s.elem = s.elem /\ try.s.cash \in Seq(C)
    BY <1>2, <2>2
  <2> QED
    BY <2>2, <2>3 DEF try
<1>6. CASE ~Full(room.bytes + size)
  <2>1. try = [s |-> more, added |-> TRUE]
    BY <1>1, <1>6
  <2>2. try.s = more /\ try.added = TRUE
    BY <2>1
  <2> HIDE DEF try
  <2>3. /\ IsCache(try.s) /\ try.added /\ try.s.cash \in Seq(C \cup {u})
        /\ try.s.elem = [s.elem EXCEPT ![u] = NewElement(head)]
    BY <1>3, <1>4, <2>2
  <2> QED
    BY <2>2, <2>3 DEF try
<1> QED
  BY <1>5, <1>6

\* A read that stores the answer to u: nobody can have its element yet.
LEMMA StoringRead ==
    ASSUME IInv, NEW u \in live, NEW x, NEW s, NEW head, NEW length,
           LET try == AddStringToCash(Here, u, head, length)
           IN  try.added /\ s.cash = try.s.cash /\ SameUsers(try.s.elem, s.elem),
           b[u].statusServer = "WRITE_RESPONSE_HEADING",
           IsBuffer(x), StatusOk(x), x.statusServer = "WRITE_RESPONSE_BODY", ~x.getCash,
           x.clientConnect = b[u].clientConnect, x.serverConnect = b[u].serverConnect
    PROVE  ReadOk(u, x, s)
<1> DEFINE bb == [b EXCEPT ![u] = x]
           C == ToSet(cash)
<1>1. /\ u \in Users /\ b = [v \in Users |-> b[v]] /\ list \in Seq(Conns) /\ IsElements(elem)
  BY DEF IInv, TypeOK
<1>2. /\ s.cash \in Seq(C \cup {u})
      /\ SameUsers([elem EXCEPT ![u] = NewElement(head)], s.elem)
  <2>1. cash \in Seq(C)
    BY OwnCash
  <2>2. IsCache(Here) /\ Here.cash = cash /\ Here.elem = elem
    BY DEF IsCache, Here
  <2> HIDE DEF C
  <2> QED
    BY <2>1, <2>2, AddKeeps
<1>3. ToSet(s.cash) \subseteq C \cup {u} /\ s.cash \in Seq(Users)
  <2>1. ToSet(s.cash) \subseteq C \cup {u}
    BY <1>2, OwnEntries
  <2>2. C \subseteq Users
    BY OwnCash
  <2> QED
    BY <1>1, <1>2, <2>1, <2>2
<1>4. bb[u] = x /\ \A v \in Users : v # u => bb[v] = b[v]
  BY <1>1
<1> HIDE DEF bb, C
<1>5. ~b[u].getCash
  BY <1>1 DEF IInv, StatusInv, StatusOk
<1>6. \A v \in Users : b[v].getCash => b[v].element # u
  <2>1. NoElement(u, b[u])
    BY <1>1 DEF NoElement, Before
  <2> QED
    BY <1>1, <2>1 DEF IInv, ElementInv, ElementsOk
<1>7. ElementsOk(bb, s.cash)
  <2> SUFFICES ASSUME NEW v \in Users, NoElement(v, bb[v])
               PROVE  v \notin ToSet(s.cash) /\ \A w \in Users : bb[w].getCash => bb[w].element # v
    BY DEF ElementsOk
  <2>1. v # u
    <3>1. Came(u)
      BY <1>1 DEF IInv, ComingInv
    <3> QED
      BY <1>4, <3>1 DEF NoElement, Before
  <2>2. NoElement(v, b[v])
    BY <1>4, <2>1
  <2>3. v \notin ToSet(cash) /\ \A w \in Users : b[w].getCash => b[w].element # v
    BY <2>2 DEF IInv, ElementInv, ElementsOk
  <2> QED
    BY <1>3, <1>4, <2>1, <2>3 DEF C
<1>8. ASSUME NEW e \in Users PROVE s.elem[e].users = Cardinality(ServedFrom(bb, list, e))
  <2>1. ServedFrom(bb, list, e) = ServedFrom(b, list, e)
    BY <1>4, <1>5, ListedConns DEF ServedFrom
  <2>2. CASE e = u
    <3>1. ServedFrom(b, list, e) = {}
      BY <1>6, <2>2, ListedConns DEF ServedFrom
    <3>2. s.elem[e].users = 0
      BY <1>1, <1>2, <2>2 DEF SameUsers, NewElement, IsElements
    <3> QED
      BY <2>1, <3>1, <3>2, FS_EmptySet
  <2>3. CASE e # u
    <3>1. s.elem[e].users = elem[e].users
      BY <1>1, <1>2, <2>3 DEF SameUsers, IsElements
    <3> QED
      BY <2>1, <3>1 DEF IInv, CountInv, Counted
  <2> QED
    BY <2>2, <2>3
<1> QED
  BY <1>2, <1>3, <1>7, <1>8 DEF ReadOk, Counted, SameUsers, bb

-----------------------------------------------------------------------------
(* The reads, by the statuses of the buffer.                               *)

\* What was read is behind the rest of the buffer.
Filled(u, chunk) == [b[u] EXCEPT !.buf = @ \o chunk]

LEMMA FilledFields ==
    ASSUME IInv, NEW u \in live, NEW chunk
    PROVE  LET x == Filled(u, chunk)
           IN  /\ IsBuffer(x) /\ StatusOk(x)
               /\ x.statusClient = b[u].statusClient /\ x.statusServer = b[u].statusServer
               /\ x.clientConnect = b[u].clientConnect /\ x.serverConnect = b[u].serverConnect
               /\ x.getCash = b[u].getCash /\ x.element = b[u].element
<1> DEFINE x == Filled(u, chunk)
<1>1. u \in Users /\ IsBuffer(b[u]) /\ StatusOk(b[u])
  BY DEF IInv, TypeOK, StatusInv
<1>2. /\ IsBuffer(x) /\ x.statusClient = b[u].statusClient /\ x.statusServer = b[u].statusServer
      /\ x.clientConnect = b[u].clientConnect /\ x.serverConnect = b[u].serverConnect
      /\ x.getCash = b[u].getCash /\ x.element = b[u].element
  BY <1>1 DEF Filled, IsBuffer, BufferFields
<1> HIDE DEF x
<1>3. StatusOk(x)
  BY <1>1, <1>2 DEF StatusOk
<1> QED
  BY <1>2, <1>3 DEF x

LEMMA HereFacts ==
    ASSUME IInv
    PROVE  /\ IsCache(Here) /\ Here.elem = elem /\ Here.cash = cash
           /\ SameUsers(elem, Here.elem) /\ Here.cash \in Seq(ToSet(cash))
  BY OwnCash DEF IsCache, Here, SameUsers, IInv, TypeOK

LEMMA HeadingRead ==
    ASSUME IInv, NEW u \in live, NEW chunk, b[u].statusClient = "WRITE_REQUEST_HEADING"
    PROVE  LET r == WrightRequestHeading(Filled(u, chunk), Here, u) IN ReadOk(u, r.x, r.s)
<1> DEFINE x == Filled(u, chunk)
           pos == PosEndHeading(u, x.buf)
           heading == SubSeq(x.buf, 1, pos)
           y == [x EXCEPT !.heading = heading]
           left == (FindContentLength(u, "user").length - (Len(x.buf) - pos)) % LengthMod
           hit == [y EXCEPT !.getCash = TRUE, !.buf = <<>>, !.statusClient = "READ_RESPONSE",
                            !.element = Here.cash[Place(Here, heading)]]
           get == [y EXCEPT !.readyConnect = TRUE, !.ready = TRUE, !.endSend = TRUE]
           post == [y EXCEPT !.readyConnect = TRUE, !.ready = TRUE,
                             !.statusClient = "WRITE_REQUEST_BODY", !.lengthBody = left,
                             !.endSend = @ \/ left = 0]
           r == WrightRequestHeading(x, Here, u)
<1>1. \/ r = [x |-> x, s |-> Here]
      \/ r = [x |-> RejectHeading(y), s |-> Here]
      \/ Stored(Here, heading) # {} /\ r = [x |-> hit, s |-> Hit(Here, heading)]
      \/ r = [x |-> get, s |-> Here]
      \/ r = [x |-> post, s |-> Here]
  BY DEF WrightRequestHeading
<1> HIDE DEF r
<1>2. /\ IsBuffer(x) /\ StatusOk(x)
      /\ x.statusClient = b[u].statusClient /\ x.statusServer = b[u].statusServer
      /\ x.clientConnect = b[u].clientConnect /\ x.serverConnect = b[u].serverConnect
      /\ x.getCash = b[u].getCash /\ x.element = b[u].element
  BY FilledFields
<1>3. x.getCash = FALSE /\ x.statusServer \in {"READ_REQUEST", "END_WORK"} /\ x.clientConnect
  BY <1>2 DEF StatusOk, IsBuffer
<1> HIDE DEF x, pos, heading, left
<1>4. /\ IsBuffer(y) /\ y.getCash = FALSE
      /\ y.statusClient = x.statusClient /\ y.statusServer = x.statusServer
      /\ y.clientConnect = x.clientConnect /\ y.serverConnect = x.serverConnect
  BY <1>2, <1>3 DEF IsBuffer, BufferFields
<1> HIDE DEF y
<1>5. ASSUME NEW z, IsBuffer(z), z.getCash = FALSE, z.statusServer = x.statusServer,
             z.clientConnect = x.clientConnect, z.serverConnect = x.serverConnect
      PROVE  ReadOk(u, z, Here)
  <2>1. StatusOk(z)
    BY <1>3, <1>5 DEF StatusOk
  <2> QED
    BY <1>2, <1>3, <1>5, <2>1, QuietRead, HereFacts DEF Before
<1>6. ReadOk(u, x, Here)
  BY <1>2, <1>3, <1>5
<1>7. ReadOk(u, RejectHeading(y), Here)
  <2> DEFINE z == RejectHeading(y)
  <2>1. /\ IsBuffer(z) /\ z.getCash = FALSE /\ z.statusServer = y.statusServer
        /\ z.clientConnect = y.clientConnect /\ z.serverConnect = y.serverConnect
    BY <1>4 DEF RejectHeading, IsBuffer, BufferFields
  <2> HIDE DEF z
  <2>2. ReadOk(u, z, Here)
    BY <1>4, <1>5, <2>1
  <2> QED
    BY <2>2 DEF z
<1>8. ReadOk(u, get, Here)
  <2>1. /\ IsBuffer(get) /\ get.getCash = FALSE /\ get.statusServer = y.statusServer
        /\ get.clientConnect = y.clientConnect /\ get.serverConnect = y.serverConnect
    BY <1>4 DEF IsBuffer, BufferFields
  <2> HIDE DEF get
  <2> QED
    BY <1>4, <1>5, <2>1
<1>9. ReadOk(u, post, Here)
  <2>1. /\ IsBuffer(post) /\ post.getCash = FALSE /\ post.statusServer = y.statusServer
        /\ post.clientConnect = y.clientConnect /\ post.serverConnect = y.serverConnect
    BY <1>4 DEF IsBuffer, BufferFields
  <2> HIDE DEF post
  <2> QED
    BY <1>4, <1>5, <2>1
<1>10. Stored(Here, heading) # {} => ReadOk(u, hit, Hit(Here, heading))
  <2> DEFINE e == Here.cash[Place(Here, heading)]
  <2> HIDE DEF e
  <2>1. /\ IsBuffer(hit) /\ hit.getCash = TRUE /\ hit.statusServer = y.statusServer
        /\ hit.clientConnect = y.clientConnect /\ hit.serverConnect = y.serverConnect
        /\ hit.statusClient = "READ_RESPONSE" /\ hit.element = e
    BY <1>4 DEF IsBuffer, BufferFields, e
  <2>2. e = cash[Place(Here, heading)]
    BY HereFacts DEF e
  <2> HIDE DEF hit
  <2> QED
    BY <1>2, <1>4, <2>1, <2>2, HitRead
<1> HIDE DEF hit, get, post
<1>11. ReadOk(u, r.x, r.s)
  BY <1>1, <1>6, <1>7, <1>8, <1>9, <1>10
<1> QED
  BY <1>11 DEF r, x

LEMMA BodyRead ==
    ASSUME IInv, NEW u \in live, NEW chunk, NEW n, b[u].statusClient = "WRITE_REQUEST_BODY"
    PROVE  ReadOk(u, WrightRequestBody(Filled(u, chunk), n), Here)
<1> DEFINE x == Filled(u, chunk)
           left == (x.lengthBody - n) % LengthMod
           y == [x EXCEPT !.ready = TRUE, !.lengthBody = left, !.endSend = @ \/ left = 0]
<1>1. /\ IsBuffer(x) /\ StatusOk(x)
      /\ x.statusClient = b[u].statusClient /\ x.statusServer = b[u].statusServer
      /\ x.clientConnect = b[u].clientConnect /\ x.serverConnect = b[u].serverConnect
      /\ x.getCash = b[u].getCash /\ x.element = b[u].element
  BY FilledFields
<1>2. y = WrightRequestBody(x, n)
  BY DEF WrightRequestBody
<1> HIDE DEF x, left
<1>3. /\ IsBuffer(y) /\ y.statusClient = x.statusClient /\ y.statusServer = x.statusServer
      /\ y.clientConnect = x.clientConnect /\ y.serverConnect = x.serverConnect
      /\ y.getCash = x.getCash /\ y.element = x.element
  BY <1>1 DEF IsBuffer, BufferFields
<1> HIDE DEF y
<1>4. StatusOk(y)
  BY <1>1, <1>3 DEF StatusOk
<1>5. ReadOk(u, y, Here)
  BY <1>1, <1>3, <1>4, QuietRead, HereFacts DEF Before
<1> QED
  BY <1>2, <1>5 DEF x

\* What is written to an element besides its count.
LEMMA FilledElement ==
    ASSUME NEW s, IsCache(s), IsElements(s.elem), NEW e, NEW new,
           e \in Users => IsElement(new) /\ new.users = s.elem[e].users
    PROVE  LET t == [s EXCEPT !.elem[e] = new]
           IN  t.cash = s.cash /\ SameUsers(s.elem, t.elem)
<1> DEFINE ee == s.elem
           ff == [ee EXCEPT ![e] = new]
           t == [s EXCEPT !.elem[e] = new]
<1>1. t.cash = s.cash /\ t.elem = ff
  BY DEF IsCache
<1> HIDE DEF t
<1>2. /\ ff = [v \in Users |-> IF v = e THEN new ELSE ee[v]]
      /\ \A v \in Users : ff[v] = IF v = e THEN new ELSE ee[v]
  BY DEF IsElements
<1> HIDE DEF ff
<1>3. IsElements(ff)
  BY <1>2 DEF IsElements
<1>4. \A v \in Users : ff[v].users = ee[v].users
  BY <1>2
<1> QED
  BY <1>1, <1>3, <1>4 DEF SameUsers, t

LEMMA ResponseHeadingRead ==
    ASSUME IInv, NEW u \in live, NEW chunk,
           b[u].statusClient # "WRITE_REQUEST_HEADING",
           b[u].statusServer = "WRITE_RESPONSE_HEADING"
    PROVE  LET r == WrightResponseHeading(Filled(u, chunk), Here, u) IN ReadOk(u, r.x, r.s)
<1> DEFINE x == Filled(u, chunk)
           pos == PosEndHeading(u, x.buf)
           announced == FindContentLength(u, x.buf[pos][1])
           known == announced.known
           left == (announced.length - (Len(x.buf) - pos)) % LengthMod
           length == announced.length + pos
           try == AddStringToCash(Here, u, x.heading, length)
           add == ToBeCashed(x, Here, u, pos) /\ try.added
           finished == IF known THEN left = 0 ELSE HasBodyEnd(u, x.buf)
           y == [x EXCEPT !.addData = add, !.element = IF add THEN u ELSE @,
                          !.ready = TRUE, !.statusServer = "WRITE_RESPONSE_BODY",
                          !.haveLength = known, !.lengthBody = IF known THEN left ELSE @,
                          !.endSend = @ \/ finished]
           new == [try.s.elem[u] EXCEPT !.content = x.buf, !.connected = TRUE, !.ended = finished]
           filled == [try.s EXCEPT !.elem[u] = new]
           r == WrightResponseHeading(x, Here, u)
<1>1. \/ r = [x |-> x, s |-> Here]
      \/ add /\ r = [x |-> y, s |-> filled]
      \/ ~add /\ ToBeCashed(x, Here, u, pos) /\ r = [x |-> y, s |-> try.s]
      \/ r = [x |-> y, s |-> Here]
  BY DEF WrightResponseHeading
<1> HIDE DEF r
<1>2. /\ IsBuffer(x) /\ StatusOk(x)
      /\ x.statusClient = b[u].statusClient /\ x.statusServer = b[u].statusServer
      /\ x.clientConnect = b[u].clientConnect /\ x.serverConnect = b[u].serverConnect
      /\ x.getCash = b[u].getCash /\ x.element = b[u].element
  BY FilledFields
<1>3. x.getCash = FALSE
  BY <1>2 DEF StatusOk, IsBuffer
<1>4. /\ IsCache(try.s) /\ try.added \in BOOLEAN
      /\ try.added => /\ try.s.elem = [elem EXCEPT ![u] = NewElement(x.heading)]
      /\ ~try.added => try.s.elem = elem /\ try.s.cash \in Seq(ToSet(cash))
  <2> DEFINE head == x.heading
             C == ToSet(cash)
  <2> HIDE DEF x, head, length, C
  <2>1. IsCache(Here) /\ Here.cash \in Seq(C) /\ Here.elem = elem
    BY HereFacts DEF C
  <2>2. LET t == AddStringToCash(Here, u, head, length)
        IN  /\ IsCache(t.s) /\ t.added \in BOOLEAN
            /\ t.added => /\ t.s.elem = [elem EXCEPT ![u] = NewElement(head)]
            /\ ~t.added => t.s.elem = elem /\ t.s.cash \in Seq(C)
    <3> DEFINE s == Here
               t == AddStringToCash(s, u, head, length)
    <3> HIDE DEF s
    <3>1. /\ IsCache(t.s) /\ t.added \in BOOLEAN
          /\ t.added => t.s.elem = [s.elem EXCEPT ![u] = NewElement(head)]
          /\ ~t.added => t.s.elem = s.elem /\ t.s.cash \in Seq(C)
      BY <2>1, AddKeeps DEF s
    <3> QED
      BY <2>1, <3>1 DEF s
  <2> QED
    BY <2>2 DEF head, C
<1> HIDE DEF x, length, left, known, finished, pos
<1>5. try.added => filled.cash = try.s.cash /\ SameUsers(try.s.elem, filled.elem)
  <2> SUFFICES ASSUME try.added PROVE filled.cash = try.s.cash /\ SameUsers(try.s.elem, filled.elem)
    OBVIOUS
  <2> DEFINE head == x.heading
             ee == [elem EXCEPT ![u] = NewElement(head)]
  <2>1. IsElement(NewElement(head))
    BY DEF NewElement, IsElement
  <2>2. IsElements(ee)
    <3>1. IsElements(elem)
      BY DEF IInv, TypeOK
    <3> HIDE DEF head
    <3> QED
      BY <2>1, <3>1 DEF IsElements
  <2>3. IsCache(try.s) /\ IsElements(try.s.elem)
    BY <1>4, <2>2
  <2>4. u \in Users => IsElement(new) /\ new.users = try.s.elem[u].users
    <3> DEFINE el == try.s.elem[u]
    <3>1. u \in Users => IsElement(el)
      BY <2>3 DEF IsElements
    <3> HIDE DEF el
    <3> QED
      BY <3>1 DEF IsElement, el
  <2> DEFINE s == try.s
  <2> HIDE DEF new, s
  <2> QED
    BY <2>3, <2>4, FilledElement DEF s
<1>6. /\ IsBuffer(y) /\ y.statusClient = x.statusClient /\ y.statusServer = "WRITE_RESPONSE_BODY"
      /\ y.clientConnect = x.clientConnect /\ y.serverConnect = x.serverConnect
      /\ y.getCash = x.getCash
  <2> HIDE DEF add
  <2> QED
    BY <1>2 DEF IsBuffer, BufferFields
<1> HIDE DEF y, filled
<1>7. StatusOk(y)
  BY <1>2, <1>3, <1>6 DEF StatusOk
<1>8. ReadOk(u, x, Here)
  BY <1>2, QuietRead, HereFacts DEF Before
<1>9. ASSUME NEW s, SameUsers(elem, s.elem), s.cash \in Seq(ToSet(cash))
      PROVE  ReadOk(u, y, s)
  BY <1>2, <1>3, <1>6, <1>7, <1>9, QuietRead DEF Before
<1>10. ReadOk(u, y, Here)
  BY <1>9, HereFacts
<1>11. ~try.added => ReadOk(u, y, try.s)
  <2>1. SameUsers(elem, elem)
    BY DEF SameUsers, IInv, TypeOK
  <2> HIDE DEF try
  <2> QED
    BY <1>4, <1>9, <2>1
<1>12. try.added => ReadOk(u, y, filled)
  <2> DEFINE head == x.heading
  <2> HIDE DEF head
  <2>1. try = AddStringToCash(Here, u, head, length)
    BY DEF head
  <2> HIDE DEF try
  <2> QED
    BY <1>2, <1>3, <1>5, <1>6, <1>7, <2>1, StoringRead
<1> HIDE DEF try
<1>13. ReadOk(u, r.x, r.s)
  BY <1>1, <1>8, <1>10, <1>11, <1>12
<1> QED
  BY <1>13 DEF r, x

LEMMA ResponseBodyRead ==
    ASSUME IInv, NEW u \in live, NEW chunk
    PROVE  LET r == WrightResponseBody(Filled(u, chunk), Here, u, chunk) IN ReadOk(u, r.x, r.s)
<1> DEFINE x == Filled(u, chunk)
           e == x.element
           left == (x.lengthBody - Len(chunk)) % LengthMod
           finished == IF x.haveLength THEN left = 0 ELSE HasBodyEnd(u, x.buf)
           y == [x EXCEPT !.ready = TRUE, !.lengthBody = IF x.haveLength THEN left ELSE @,
                          !.endSend = @ \/ finished]
           new == [Here.elem[e] EXCEPT !.content = @ \o chunk, !.ended = @ \/ finished]
           filled == [Here EXCEPT !.elem[e] = new]
           r == WrightResponseBody(x, Here, u, chunk)
<1>1. r = [x |-> y, s |-> IF x.addData THEN filled ELSE Here]
  BY DEF WrightResponseBody
<1> HIDE DEF r
<1>2. /\ IsBuffer(x) /\ StatusOk(x)
      /\ x.statusClient = b[u].statusClient /\ x.statusServer = b[u].statusServer
      /\ x.clientConnect = b[u].clientConnect /\ x.serverConnect = b[u].serverConnect
      /\ x.getCash = b[u].getCash /\ x.element = b[u].element
  BY FilledFields
<1> HIDE DEF x, left, finished
<1>3. /\ IsBuffer(y) /\ y.statusClient = x.statusClient /\ y.statusServer = x.statusServer
      /\ y.clientConnect = x.clientConnect /\ y.serverConnect = x.serverConnect
      /\ y.getCash = x.getCash /\ y.element = x.element
  BY <1>2 DEF IsBuffer, BufferFields
<1> HIDE DEF y
<1>4. StatusOk(y)
  BY <1>2, <1>3 DEF StatusOk
<1>5. ReadOk(u, y, Here)
  BY <1>2, <1>3, <1>4, QuietRead, HereFacts DEF Before
<1>6. filled.cash = cash /\ SameUsers(elem, filled.elem)
  <2>1. e \in Users => IsElement(new) /\ new.users = Here.elem[e].users
    <3> DEFINE el == Here.elem[e]
    <3>1. e \in Users => IsElement(el)
      BY HereFacts DEF IInv, TypeOK, IsElements
    <3> HIDE DEF el
    <3> QED
      BY <3>1 DEF IsElement, el
  <2> HIDE DEF new, e
  <2>2. /\ IsCache(Here) /\ IsElements(Here.elem) /\ Here.cash = cash /\ Here.elem = elem
        /\ (e \in Users => IsElement(new) /\ new.users = Here.elem[e].users)
    BY <2>1, HereFacts DEF SameUsers
  <2> QED
    BY <2>2, FilledElement
<1> HIDE DEF filled
<1>7. ReadOk(u, y, filled)
  <2>1. filled.cash \in Seq(ToSet(cash))
    BY <1>6, OwnCash
  <2> QED
    BY <1>2, <1>3, <1>4, <1>6, <2>1, QuietRead DEF Before
<1>8. ReadOk(u, r.x, r.s)
  BY <1>1, <1>5, <1>7
<1> QED
  BY <1>8 DEF r, x

\* Whatever the statuses say whose data it is.
LEMMA ReadKeeps ==
    ASSUME IInv, NEW u \in live, NEW chunk
    PROVE  LET r == ReadFromSocket(u, chunk) IN ReadOk(u, r.x, r.s)
<1> DEFINE x == Filled(u, chunk)
           r == ReadFromSocket(u, chunk)
<1>1. r = IF x.statusClient = "WRITE_REQUEST_HEADING" THEN WrightRequestHeading(x, Here, u)
          ELSE IF x.statusClient = "WRITE_REQUEST_BODY"
            THEN [x |-> WrightRequestBody(x, Len(chunk)), s |-> Here]
          ELSE IF x.statusServer = "WRITE_RESPONSE_HEADING" THEN WrightResponseHeading(x, Here, u)
          ELSE IF x.statusServer = "WRITE_RESPONSE_BODY"
            THEN WrightResponseBody(x, Here, u, chunk)
          ELSE [x |-> x, s |-> Here]
  BY DEF ReadFromSocket, Filled
<1>2. /\ IsBuffer(x) /\ StatusOk(x)
      /\ x.statusClient = b[u].statusClient /\ x.statusServer = b[u].statusServer
      /\ x.clientConnect = b[u].clientConnect /\ x.serverConnect = b[u].serverConnect
      /\ x.getCash = b[u].getCash /\ x.element = b[u].element
  BY FilledFields
<1>3. ReadOk(u, x, Here)
  <2> HIDE DEF x
  <2> QED
    BY <1>2, QuietRead, HereFacts DEF Before
<1> HIDE DEF r
<1>4. CASE x.statusClient = "WRITE_REQUEST_HEADING"
  BY <1>1, <1>2, <1>4, HeadingRead DEF r
<1>5. CASE x.statusClient = "WRITE_REQUEST_BODY"
  <2>1. r = [x |-> WrightRequestBody(x, Len(chunk)), s |-> Here]
    BY <1>1, <1>5
  <2>2. ReadOk(u, WrightRequestBody(x, Len(chunk)), Here)
    BY <1>2, <1>5, BodyRead
  <2> QED
    BY <2>1, <2>2 DEF r
<1>6. CASE /\ x.statusClient \notin {"WRITE_REQUEST_HEADING", "WRITE_REQUEST_BODY"}
           /\ x.statusServer = "WRITE_RESPONSE_HEADING"
  BY <1>1, <1>2, <1>6, ResponseHeadingRead DEF r
<1>7. CASE /\ x.statusClient \notin {"WRITE_REQUEST_HEADING", "WRITE_REQUEST_BODY"}
           /\ x.statusServer = "WRITE_RESPONSE_BODY"
  BY <1>1, <1>7, ResponseBodyRead DEF r
<1>8. CASE /\ x.statusClient \notin {"WRITE_REQUEST_HEADING", "WRITE_REQUEST_BODY"}
           /\ x.statusServer \notin {"WRITE_RESPONSE_HEADING", "WRITE_RESPONSE_BODY"}
  <2>1. r = [x |-> x, s |-> Here]
    BY <1>1, <1>8
  <2> QED
    BY <2>1, <1>3 DEF r
<1> QED
  BY <1>4, <1>5, <1>6, <1>7, <1>8 DEF r

-----------------------------------------------------------------------------
(* The handling of a client.                                               *)

LEMMA CurrentFacts ==
    ASSUME IInv, pc = "handle"
    PROVE  /\ it \in 1..Len(list) /\ Len(list) \in Nat
           /\ Current \in ToSet(list) /\ Current \in Conns
           /\ Buf \in Users /\ Current[2] \in 0..MaxDials /\ Current = <<Buf, Current[2]>>
           /\ IsUser(Current) <=> Current = <<Buf, 0>>
<1>1. it \in 1..Len(list) /\ list \in Seq(Conns) /\ Len(list) \in Nat
  BY DEF IInv, TypeOK, PositionInv
<1>2. Current \in ToSet(list) /\ Current \in Conns
  BY <1>1 DEF Current, ToSet
<1>3. \A c \in Conns : c[1] \in Users /\ c[2] \in 0..MaxDials /\ c = <<c[1], c[2]>>
  BY DEF Conns
<1> QED
  BY <1>1, <1>2, <1>3 DEF Buf, IsUser

\* Wherever the iterator goes, the position fits.
LEMMA Moves ==
    ASSUME NEW i \in Nat \ {0}, NEW n \in Nat, ItAt(i, n), Len(list') = n
    PROVE  /\ PositionInv' /\ it' \in Nat \ {0}
           /\ pc' \in {"socket", "configure", "poll", "handle", "accept"}
  BY DEF ItAt, PositionInv

\* Accepted counts the requests only.
LEMMA SameComing ==
    ASSUME IInv, UNCHANGED request, knock' => Accepted < NumUsers,
           \A u \in Users : dials'[u] = dials[u] \/ Came(u),
           \A u \in live' : u \in live \/ Came(u)
    PROVE  ComingInv'
<1>1. Accepted' = Accepted
  BY DEF Accepted
<1> QED
  BY <1>1 DEF IInv, ComingInv, Came

\* The user that was served is counted no more; an origin's end leaves the counts alone.
LEMMA ReleasedFacts ==
    ASSUME NEW x, x.getCash => x.element \in Users, NEW ee, IsElements(ee)
    PROVE  /\ IsElements(Released(x, ee))
           /\ \A v \in Users : Released(x, ee)[v].users =
                ee[v].users - (IF IsUser(Current) /\ x.getCash /\ v = x.element THEN 1 ELSE 0)
<1> DEFINE e == x.element
           fewer == [ee[e] EXCEPT !.users = @ - 1]
           ended == [ee[e] EXCEPT !.connected = FALSE]
           ff == Released(x, ee)
<1>1. ff = IF IsUser(Current) /\ x.getCash THEN [ee EXCEPT ![e] = fewer]
           ELSE IF ~IsUser(Current) /\ x.addData THEN [ee EXCEPT ![e] = ended]
           ELSE ee
  BY DEF Released
<1>2. e \in Users => /\ IsElement(fewer) /\ fewer.users = ee[e].users - 1
                     /\ IsElement(ended) /\ ended.users = ee[e].users
  <2> DEFINE el == ee[e]
             n == el.users - 1
  <2>1. e \in Users => IsElement(el) /\ el.users \in Int
    BY DEF IsElements, IsElement
  <2>2. e \in Users => IsElement(ended) /\ ended.users = el.users
    <3> HIDE DEF el
    <3> QED
      BY <2>1 DEF IsElement, el
  <2>3. e \in Users => IsElement([el EXCEPT !.users = n]) /\ [el EXCEPT !.users = n].users = n
    <3>1. e \in Users => n \in Int
      BY <2>1
    <3> HIDE DEF el, n
    <3> QED
      BY <2>1, <3>1, NewCount
  <2> QED
    BY <2>2, <2>3
<1> HIDE DEF fewer, ended, ff, e
<1>3. ASSUME NEW new, e \in Users => IsElement(new), ff = [ee EXCEPT ![e] = new]
      PROVE  /\ IsElements(ff)
             /\ \A v \in Users : ff[v].users = IF v = e THEN new.users ELSE ee[v].users
  <2>1. /\ ff = [v \in Users |-> IF v = e THEN new ELSE ee[v]]
        /\ \A v \in Users : ff[v] = IF v = e THEN new ELSE ee[v]
    BY <1>3 DEF IsElements
  <2> QED
    BY <1>3, <2>1 DEF IsElements
<1>4. \A v \in Users : ee[v].users \in Int
  BY DEF IsElements, IsElement
<1>5. CASE IsUser(Current) /\ x.getCash
  <2>1. IsElements(ff) /\ \A v \in Users : ff[v].users = IF v = e THEN ee[e].users - 1 ELSE ee[v].users
    <3>1. ff = [ee EXCEPT ![e] = fewer] /\ e \in Users
      BY <1>1, <1>5 DEF e
    <3>2. \A v \in Users : ff[v].users = IF v = e THEN fewer.users ELSE ee[v].users
      BY <1>2, <1>3, <3>1
    <3> QED
      BY <1>2, <1>3, <3>1, <3>2
  <2> QED
    BY <1>4, <1>5, <2>1 DEF ff, e
<1>6. CASE ~(IsUser(Current) /\ x.getCash)
  <2>1. IsElements(ff) /\ \A v \in Users : ff[v].users = ee[v].users
    <3>1. CASE ff = ee
      BY <3>1
    <3>2. CASE ff = [ee EXCEPT ![e] = ended]
      <4>1. IsElements(ff) /\ \A v \in Users : ff[v].users = IF v = e THEN ended.users ELSE ee[v].users
        BY <1>2, <1>3, <3>2
      <4> QED
        BY <1>2, <4>1
    <3> QED
      BY <1>1, <1>6, <3>1, <3>2
  <2> QED
    BY <1>4, <1>6, <2>1 DEF ff, e
<1> QED
  BY <1>5, <1>6

LEMMA DeleteKeeps ==
    ASSUME IInv, Handling, Buf \in live, NEW x, NEW s, NEW read, ReadOk(Buf, x, s),
           DeleteClient(x, s, read), UNCHANGED <<knock, script, dials>>
    PROVE  IInv'
<1> DEFINE u == Buf
           c == Current
           rest == RemoveAt(list, it)
           y == IF IsUser(c) THEN [x EXCEPT !.statusClient = "END_WORK", !.clientConnect = FALSE]
                ELSE [x EXCEPT !.statusServer = "END_WORK", !.serverConnect = FALSE]
           last == ~y.serverConnect /\ ~y.clientConnect
           z == IF last THEN NewBuffer ELSE y
<1>1. /\ it \in 1..Len(list) /\ Len(list) \in Nat
      /\ c \in ToSet(list) /\ c \in Conns
      /\ u \in Users /\ c[2] \in 0..MaxDials /\ c = <<u, c[2]>>
      /\ IsUser(c) <=> c = <<u, 0>>
  BY CurrentFacts DEF Handling
<1>2. /\ list' = rest /\ NextAfterErase(Len(rest))
      /\ b' = [b EXCEPT ![u] = z] /\ live' = IF last THEN live \ {u} ELSE live
      /\ elem' = Released(x, s.elem) /\ cash' = s.cash
  BY DEF DeleteClient
<1>3. /\ IsBuffer(x) /\ StatusOk(x) /\ x.clientConnect = b[u].clientConnect
      /\ x.serverConnect = b[u].serverConnect /\ IsElements(s.elem) /\ s.cash \in Seq(Users)
      /\ ElementsOk([b EXCEPT ![u] = x], s.cash)
      /\ Counted([b EXCEPT ![u] = x], list, s.elem)
  BY DEF ReadOk
<1>4. /\ IsBuffer(y) /\ y.getCash = x.getCash /\ y.element = x.element
      /\ y.clientConnect = IF IsUser(c) THEN FALSE ELSE x.clientConnect
      /\ y.serverConnect = IF IsUser(c) THEN x.serverConnect ELSE FALSE
      /\ y.statusClient = IF IsUser(c) THEN "END_WORK" ELSE x.statusClient
      /\ y.statusServer = IF IsUser(c) THEN x.statusServer ELSE "END_WORK"
  <2> HIDE DEF c
  <2> QED
    BY <1>3 DEF IsBuffer, BufferFields
<1> HIDE DEF y
<1>5. StatusOk(y)
  BY <1>3, <1>4 DEF StatusOk
<1>6. /\ list \in Seq(Conns) /\ b = [v \in Users |-> b[v]] /\ (\A v \in Users : IsBuffer(b[v]))
      /\ live \subseteq Users /\ dials \in [Users -> 0..MaxDials]
      /\ \A i, j \in 1..Len(list) : list[i] = list[j] => i = j
  BY DEF IInv, TypeOK, ListInv
<1>7. /\ rest \in Seq(Conns) /\ Len(rest) \in Nat /\ ToSet(rest) = ToSet(list) \ {c}
      /\ \A i, j \in 1..Len(rest) : rest[i] = rest[j] => i = j
  <2>1. rest \in Seq(Conns)
    BY <1>1, <1>6, RemoveAtFacts
  <2>2. /\ ToSet(rest) = ToSet(list) \ {list[it]}
        /\ \A i, j \in 1..Len(rest) : rest[i] = rest[j] => i = j
    <3>0. DOMAIN list = 1..Len(list)
      BY <1>6
    <3>1. IsInjective(list) /\ it \in 1..Len(list)
      BY <1>1, <1>6, <3>0 DEF IsInjective
    <3>2. ToSet(rest) = ToSet(list) \ {list[it]} /\ IsInjective(rest)
      <4> HIDE DEF rest
      <4> QED
        BY <1>6, <3>1, RemoveAtSet DEF rest
    <3>3. DOMAIN rest = 1..Len(rest)
      BY <2>1
    <3> QED
      BY <3>2, <3>3 DEF IsInjective
  <2> QED
    BY <2>1, <2>2 DEF Current
<1> HIDE DEF c, u, rest
<1>8. /\ IsBuffer(NewBuffer) /\ StatusOk(NewBuffer) /\ ~NewBuffer.getCash
  BY DEF IsBuffer, BufferFields, StatusOk, NewBuffer
<1>9. IsBuffer(z) /\ StatusOk(z)
  BY <1>4, <1>5, <1>8
<1>10. b' = [v \in Users |-> b'[v]] /\ b'[u] = z /\ \A v \in Users : v # u => b'[v] = b[v]
  <2> HIDE DEF z
  <2> QED
    BY <1>1, <1>2, <1>6
<1> HIDE DEF z
<1>11. PositionInv' /\ it' \in Nat \ {0} /\ pc' \in {"socket", "configure", "poll", "handle", "accept"}
  <2> DEFINE n == Len(rest)
             i == IF it > n THEN 1 ELSE it + 1
  <2>1. n \in Nat /\ i \in Nat \ {0} /\ Len(list') = n /\ ItAt(i, n)
    BY <1>1, <1>2, <1>7 DEF NextAfterErase
  <2> HIDE DEF n, i
  <2> QED
    BY <2>1, Moves
<1>12. /\ IsElements(elem')
       /\ \A v \in Users : elem'[v].users =
            s.elem[v].users - (IF IsUser(c) /\ x.getCash /\ v = x.element THEN 1 ELSE 0)
  BY <1>2, <1>3, ReleasedFacts DEF StatusOk, c
<1>13. TypeOK'
  <2>1. live' \subseteq Users
    BY <1>1, <1>2, <1>6
  <2>2. knock' \in BOOLEAN /\ request' = [v \in Users |-> request'[v]] /\ dials' \in [Users -> 0..MaxDials]
    BY DEF IInv, TypeOK, script
  <2>3. \A v \in Users : IsBuffer(b'[v])
    BY <1>6, <1>9, <1>10
  <2>4. list' \in Seq(Conns) /\ cash' \in Seq(Users)
    BY <1>2, <1>3, <1>7
  <2> QED
    BY <1>10, <1>11, <1>12, <2>1, <2>2, <2>3, <2>4 DEF TypeOK
<1>14. ListInv'
  BY <1>2, <1>7 DEF IInv, ListInv
<1>15. ComingInv'
  <2>1. knock' => Accepted < NumUsers
    BY DEF IInv, ComingInv
  <2> QED
    BY <1>2, <2>1, SameComing DEF script
<1>16. LinksInv'
  <2> DEFINE L == ToSet(list)
  <2> HIDE DEF L
  <2>1. ToSet(list') = L \ {c} /\ dials' = dials
    BY <1>2, <1>7 DEF L
  <2>2. \A v \in Users :
          /\ v \in live =>
               /\ b[v].clientConnect <=> <<v, 0>> \in L
               /\ b[v].serverConnect => \E d \in L : d[1] = v /\ d[2] # 0
               /\ b[v].clientConnect \/ b[v].serverConnect
               /\ dials[v] < 2 /\ (\E d \in L : d[1] = v /\ d[2] # 0) => b[v].serverConnect
          /\ v \notin live =>
               /\ b[v] = NewBuffer /\ <<v, 0>> \notin L
               /\ dials[v] < 2 => ~\E d \in L : d[1] = v /\ d[2] # 0
    BY DEF IInv, LinksInv, ServersListed, L
  <2>3. ASSUME NEW v \in Users, v # u
        PROVE  /\ v \in live' =>
                    /\ b'[v].clientConnect <=> <<v, 0>> \in L \ {c}
                    /\ b'[v].serverConnect => \E d \in L \ {c} : d[1] = v /\ d[2] # 0
                    /\ b'[v].clientConnect \/ b'[v].serverConnect
                    /\ dials[v] < 2 /\ (\E d \in L \ {c} : d[1] = v /\ d[2] # 0)
                         => b'[v].serverConnect
               /\ v \notin live' =>
                    /\ b'[v] = NewBuffer /\ <<v, 0>> \notin L \ {c}
                    /\ dials[v] < 2 => ~\E d \in L \ {c} : d[1] = v /\ d[2] # 0
    <3>1. b'[v] = b[v] /\ (v \in live' <=> v \in live)
      BY <1>2, <1>10, <2>3
    <3>2. \A d \in L : d[1] = v => d # c
      BY <1>1, <2>3
    <3>3. <<v, 0>> # c
      BY <1>1, <2>3
    <3> QED
      BY <2>2, <3>1, <3>2, <3>3
  <2>4. \A d \in L : d \in Conns /\ d[2] <= dials[d[1]] /\ d[2] \in Nat /\ d = <<d[1], d[2]>>
    <3>1. \A d \in Conns : d[2] \in Nat /\ d = <<d[1], d[2]>>
      BY DEF Conns
    <3>2. L \subseteq Conns
      BY ListedConns DEF L
    <3> QED
      BY <3>1, <3>2 DEF IInv, ListInv, L
  <2>5. /\ y.clientConnect <=> <<u, 0>> \in L \ {c}
        /\ y.serverConnect => \E d \in L \ {c} : d[1] = u /\ d[2] # 0
        /\ dials[u] < 2 /\ (\E d \in L \ {c} : d[1] = u /\ d[2] # 0) => y.serverConnect
    <3>1. /\ b[u].clientConnect <=> <<u, 0>> \in L
          /\ b[u].serverConnect => \E d \in L : d[1] = u /\ d[2] # 0
          /\ dials[u] < 2 /\ (\E d \in L : d[1] = u /\ d[2] # 0) => b[u].serverConnect
      BY <1>1, <2>2 DEF u
    <3>2. CASE IsUser(c)
      <4>1. /\ ~y.clientConnect /\ (y.serverConnect <=> b[u].serverConnect) /\ c = <<u, 0>>
        BY <1>1, <1>3, <1>4, <3>2
      <4>2. \A d \in L : d[2] # 0 => d # c
        BY <4>1
      <4> QED
        BY <3>1, <4>1, <4>2
    <3>3. CASE ~IsUser(c)
      <4>1. /\ (y.clientConnect <=> b[u].clientConnect) /\ ~y.serverConnect
            /\ c = <<u, c[2]>> /\ c[2] # 0 /\ c \in L
        BY <1>1, <1>3, <1>4, <3>3 DEF IsUser, L
      <4>2. <<u, 0>> # c
        BY <4>1
      <4>3. dials[u] < 2 => \A d \in L : d[1] = u /\ d[2] # 0 => d = c
        <5> SUFFICES ASSUME dials[u] < 2, NEW d \in L, d[1] = u, d[2] # 0 PROVE d = c
          OBVIOUS
        <5>1. dials[u] \in Nat
          BY <1>1, <1>6
        <5>2. d[2] = 1 /\ d = <<u, d[2]>>
          BY <2>4, <5>1
        <5>3. c[2] = 1
          BY <2>4, <4>1, <5>1
        <5> QED
          BY <4>1, <5>2, <5>3
      <4> QED
        BY <3>1, <4>1, <4>2, <4>3
    <3> QED
      BY <3>2, <3>3
  <2>6. CASE last
    <3>1. b'[u] = NewBuffer /\ u \notin live'
      BY <1>2, <1>10, <2>6 DEF z
    <3>2. <<u, 0>> \notin L \ {c} /\ (dials[u] < 2 => ~\E d \in L \ {c} : d[1] = u /\ d[2] # 0)
      BY <2>5, <2>6
    <3> HIDE DEF last
    <3>3. /\ b'[u] = NewBuffer /\ <<u, 0>> \notin ToSet(list')
          /\ dials'[u] < 2 => ~ServersListed(list', u)
      BY <2>1, <3>1, <3>2 DEF ServersListed
    <3>4. ASSUME NEW v \in Users
          PROVE  /\ v \in live' =>
                      /\ b'[v].clientConnect <=> <<v, 0>> \in ToSet(list')
                      /\ b'[v].serverConnect => ServersListed(list', v)
                      /\ b'[v].clientConnect \/ b'[v].serverConnect
                      /\ dials'[v] < 2 /\ ServersListed(list', v) => b'[v].serverConnect
                 /\ v \notin live' =>
                      /\ b'[v] = NewBuffer
                      /\ <<v, 0>> \notin ToSet(list')
                      /\ dials'[v] < 2 => ~ServersListed(list', v)
      <4>1. CASE v = u
        BY ONLY <3>1, <3>3, <4>1
      <4>2. CASE v # u
        BY ONLY <2>1, <2>3, <3>4, <4>2 DEF ServersListed
      <4> QED
        BY ONLY <4>1, <4>2
    <3> QED
      BY ONLY <3>4 DEF LinksInv
  <2>7. CASE ~last
    <3>1. b'[u] = y /\ u \in live'
      BY <1>2, <1>10, <2>7 DEF z, u
    <3>2. y.clientConnect \/ y.serverConnect
      BY <2>7
    <3> HIDE DEF last
    <3> QED
      BY <2>1, <2>3, <2>5, <3>1, <3>2 DEF LinksInv, ServersListed
  <2> QED
    BY <2>6, <2>7
<1>17. StatusInv'
  BY <1>9, <1>10 DEF IInv, StatusInv
<1>18. ElementInv'
  <2> DEFINE bb == [b EXCEPT ![u] = x]
  <2>1. bb[u] = x /\ \A v \in Users : v # u => bb[v] = b[v]
    BY <1>1, <1>6
  <2> HIDE DEF bb
  <2>2. Came(u)
    BY <1>1 DEF IInv, ComingInv, u
  <2>3. request' = request /\ cash' = s.cash
    BY <1>2 DEF script
  <2>4. ASSUME NEW v \in Users, NoElement(v, b[v])'
        PROVE  NoElement(v, bb[v])
    <3>1. CASE v # u
      <4>1. b'[v] = bb[v] /\ (v \in live' <=> v \in live)
        BY <1>2, <1>10, <2>1, <3>1
      <4> QED
        BY <2>3, <2>4, <4>1 DEF NoElement, Came, Before
    <3>2. CASE v = u
      <4>1. u \in live' /\ Before(b'[u])
        BY <2>2, <2>3, <2>4, <3>2 DEF NoElement, Came, Before
      <4>2. b'[u] = y /\ u \in live
        BY <1>2, <1>10, <4>1 DEF z, u
      <4>3. Before(x)
        BY <1>4, <4>1, <4>2 DEF Before
      <4> QED
        BY <2>1, <3>2, <4>2, <4>3 DEF NoElement
    <3> QED
      BY <3>1, <3>2
  <2>5. \A w \in Users : b'[w].getCash => bb[w].getCash /\ b'[w].element = bb[w].element
    BY <1>4, <1>8, <1>10, <2>1 DEF z
  <2>6. ElementsOk(bb, s.cash)
    BY <1>3 DEF bb
  <2> QED
    BY <2>3, <2>4, <2>5, <2>6 DEF ElementInv, ElementsOk
<1>19. CountInv'
  <2> DEFINE bb == [b EXCEPT ![u] = x]
  <2>1. bb[u] = x /\ \A v \in Users : v # u => bb[v] = b[v]
    BY <1>1, <1>6
  <2> HIDE DEF bb
  <2>2. Counted(bb, list, s.elem)
    BY <1>3 DEF bb
  <2>3. list' = rest /\ \A d \in ToSet(list) : d[1] \in Users
    BY <1>2, ListedConns
  <2>4. ASSUME NEW e \in Users PROVE elem'[e].users = Cardinality(ServedFrom(b', rest, e))
    <3> DEFINE old == ServedFrom(bb, list, e)
    <3>1. ServedFrom(b', rest, e) = old \ {c}
      <4>1. ASSUME NEW d \in ToSet(list) \ {c}, IsUser(d)
            PROVE  b'[d[1]].getCash = bb[d[1]].getCash /\ b'[d[1]].element = bb[d[1]].element
        <5>1. d \in Conns /\ d = <<d[1], 0>> /\ d[1] \in Users
          BY <4>1, ListedConns DEF Conns, IsUser
        <5>2. CASE d[1] # u
          BY <1>10, <2>1, <5>1, <5>2
        <5>3. CASE d[1] = u
          <6>1. ~IsUser(c) /\ <<u, 0>> \in ToSet(list)
            BY <1>1, <4>1, <5>1, <5>3
          <6>2. b[u].clientConnect
            BY <1>1, <6>1 DEF IInv, LinksInv, u
          <6>3. b'[u] = y
            BY <1>3, <1>4, <1>10, <6>1, <6>2 DEF z
          <6> QED
            BY <1>4, <2>1, <5>3, <6>3
        <5> QED
          BY <5>2, <5>3
      <4> QED
        BY <1>7, <4>1 DEF ServedFrom
    <3>2. c \in old <=> IsUser(c) /\ x.getCash /\ e = x.element
      BY <1>1, <2>1 DEF ServedFrom
    <3>3. IsFiniteSet(old) /\ Cardinality(old) \in Nat
      BY ListedConns, ServedFinite
    <3>4. s.elem[e].users = Cardinality(old)
      BY <2>2 DEF Counted
    <3>5. elem'[e].users = s.elem[e].users - (IF c \in old THEN 1 ELSE 0)
      BY <1>12, <3>2
    <3> HIDE DEF old
    <3>6. CASE c \in old
      BY <3>1, <3>3, <3>4, <3>5, <3>6, FS_RemoveElement
    <3>7. CASE c \notin old
      <4>1. ServedFrom(b', rest, e) = old
        BY <3>1, <3>7
      <4>2. elem'[e].users = Cardinality(old) - 0
        BY <3>4, <3>5, <3>7
      <4> QED
        BY <3>3, <4>1, <4>2
    <3> QED
      BY <3>6, <3>7
  <2> QED
    BY <2>3, <2>4 DEF CountInv, Counted
<1> QED
  BY <1>11, <1>13, <1>14, <1>15, <1>16, <1>17, <1>18, <1>19 DEF IInv

\* The next client, with a list that did not shrink.
LEMMA NextKeeps ==
    ASSUME IInv, pc = "handle", NEW n \in Nat, n >= Len(list), Len(list') = n, NextClient(n)
    PROVE  /\ PositionInv' /\ it' \in Nat \ {0}
           /\ pc' \in {"socket", "configure", "poll", "handle", "accept"}
<1>1. it + 1 \in Nat \ {0}
  BY CurrentFacts
<1> QED
  BY <1>1, Moves DEF NextClient

\* A read or a send that leaves the list as it is.
LEMMA BufferKeeps ==
    ASSUME IInv, Handling, Buf \in live, NEW x, NEW s, ReadOk(Buf, x, s),
           b' = [b EXCEPT ![Buf] = x], elem' = s.elem, cash' = s.cash,
           UNCHANGED <<list, live, knock, script, dials>>, NextClient(Len(list))
    PROVE  IInv'
<1> DEFINE u == Buf
<1>1. u \in Users /\ Len(list) \in Nat
  BY CurrentFacts DEF Handling
<1>2. /\ IsBuffer(x) /\ StatusOk(x) /\ x.clientConnect = b[u].clientConnect
      /\ x.serverConnect = b[u].serverConnect /\ IsElements(s.elem) /\ s.cash \in Seq(Users)
      /\ ElementsOk(b', s.cash) /\ Counted(b', list, s.elem)
  BY DEF ReadOk
<1>3. UNCHANGED <<list, live, knock, request, dials>>
  BY DEF script
<1>4. b = [v \in Users |-> b[v]] /\ \A v \in Users : IsBuffer(b[v])
  BY DEF IInv, TypeOK
<1>5. b' = [v \in Users |-> b'[v]] /\ b'[u] = x /\ \A v \in Users : v # u => b'[v] = b[v]
  BY <1>1, <1>4
<1> HIDE DEF u
<1>6. PositionInv' /\ it' \in Nat \ {0} /\ pc' \in {"socket", "configure", "poll", "handle", "accept"}
  BY <1>1, <1>3, NextKeeps DEF Handling
<1>7. TypeOK'
  <2>1. \A v \in Users : IsBuffer(b'[v])
    BY <1>2, <1>4, <1>5
  <2>2. IsElements(elem') /\ cash' \in Seq(Users)
    BY <1>2
  <2> QED
    BY <1>3, <1>5, <1>6, <2>1, <2>2 DEF IInv, TypeOK
<1>8. ListInv'
  BY <1>3 DEF IInv, ListInv
<1>9. ComingInv'
  BY <1>3, SameComing DEF IInv, ComingInv
<1>10. LinksInv'
  <2> SUFFICES ASSUME NEW v \in Users
               PROVE  /\ v \in live =>
                           /\ b'[v].clientConnect <=> <<v, 0>> \in ToSet(list)
                           /\ b'[v].serverConnect => ServersListed(list, v)
                           /\ b'[v].clientConnect \/ b'[v].serverConnect
                           /\ dials[v] < 2 /\ ServersListed(list, v) => b'[v].serverConnect
                      /\ v \notin live =>
                           /\ b'[v] = NewBuffer
                           /\ <<v, 0>> \notin ToSet(list)
                           /\ dials[v] < 2 => ~ServersListed(list, v)
    BY <1>3 DEF LinksInv
  <2>1. CASE v # u
    BY <1>5, <2>1 DEF IInv, LinksInv
  <2>2. CASE v = u
    <3>1. u \in live
      BY DEF u
    <3> QED
      BY <1>2, <1>5, <2>2, <3>1 DEF IInv, LinksInv
  <2> QED
    BY <2>1, <2>2
<1>11. StatusInv'
  BY <1>2, <1>5 DEF IInv, StatusInv
<1>12. ElementInv'
  BY <1>2, <1>3 DEF ElementInv, ElementsOk, NoElement, Came
<1>13. CountInv'
  BY <1>2, <1>3 DEF CountInv, Counted, ServedFrom
<1> QED
  BY <1>6, <1>7, <1>8, <1>9, <1>10, <1>11, <1>12, <1>13 DEF IInv

LEMMA ReadStep == IInv /\ Read => IInv'
<1> SUFFICES ASSUME IInv, Read PROVE IInv'
  OBVIOUS
<1>1. PICK n \in 1..BufMax :
        /\ Reads(n)
        /\ b' = [b EXCEPT ![Buf] = Result(n).x]
        /\ elem' = Result(n).s.elem /\ cash' = Result(n).s.cash
  BY DEF Read
<1>2. Handling /\ Buf \in live
  BY <1>1 DEF Reads, Alive
<1>3. ReadOk(Buf, Result(n).x, Result(n).s)
  BY <1>2, ReadKeeps DEF Result
<1>4. UNCHANGED <<list, live, knock, script, dials>> /\ NextClient(Len(list))
  BY DEF Read
<1> QED
  BY <1>1, <1>2, <1>3, <1>4, BufferKeeps

\* A buffer that differs in nothing the invariant speaks of, except that a server was
\* dialled: elements and counts are as before.
LEMMA DialledRead ==
    ASSUME IInv, NEW u \in live, NEW x, NEW s, ReadOk(u, x, s), NEW y, IsBuffer(y),
           y.statusClient = x.statusClient, y.statusServer = x.statusServer,
           y.clientConnect = x.clientConnect,
           y.getCash = x.getCash, y.element = x.element
    PROVE  /\ StatusOk(y)
           /\ ElementsOk([b EXCEPT ![u] = y], s.cash)
           /\ Counted([b EXCEPT ![u] = y], list, s.elem)
<1> DEFINE bb == [b EXCEPT ![u] = x]
           cc == [b EXCEPT ![u] = y]
<1>1. StatusOk(y)
  BY DEF ReadOk, StatusOk
<1>2. ElementsOk(bb, s.cash) /\ Counted(bb, list, s.elem)
  BY DEF ReadOk
<1>3. u \in Users /\ b = [v \in Users |-> b[v]]
  BY DEF IInv, TypeOK
<1>4. bb[u] = x /\ cc[u] = y /\ \A v \in Users : v # u => bb[v] = b[v] /\ cc[v] = b[v]
  BY <1>3
<1> HIDE DEF bb, cc
<1>5. \A v \in Users : /\ cc[v].getCash = bb[v].getCash /\ cc[v].element = bb[v].element
                       /\ NoElement(v, cc[v]) <=> NoElement(v, bb[v])
  BY <1>4 DEF NoElement, Before
<1>6. ElementsOk(cc, s.cash)
  BY <1>2, <1>5 DEF ElementsOk
<1>7. \A e \in Users : ServedFrom(cc, list, e) = ServedFrom(bb, list, e)
  BY <1>5, ListedConns DEF ServedFrom
<1>8. Counted(cc, list, s.elem)
  BY <1>2, <1>7 DEF Counted
<1> QED
  BY <1>1, <1>6, <1>8 DEF cc

LEMMA ConnectStep == IInv /\ Connect => IInv'
<1> SUFFICES ASSUME IInv, Connect PROVE IInv'
  OBVIOUS
<1>1. PICK n \in 1..BufMax :
        /\ Reads(n)
        /\ b' = [b EXCEPT ![Buf] = Dialled(Result(n).x)]
        /\ elem' = Result(n).s.elem /\ cash' = Result(n).s.cash
  BY DEF Connect
<1>2. Handling /\ Buf \in live
  BY <1>1 DEF Reads, Alive
<1> DEFINE u == Buf
           x == Result(n).x
           s == Result(n).s
           y == Dialled(x)
           k == dials[u] + 1
           c == <<u, k>>
<1>3. ReadOk(u, x, s)
  BY <1>2, ReadKeeps DEF Result
<1>4. u \in Users /\ Len(list) \in Nat
  BY <1>2, CurrentFacts DEF Handling
<1>5. /\ list' = Append(list, c) /\ dials' = [dials EXCEPT ![u] = @ + 1]
      /\ dials[u] < MaxDials /\ NextClient(Len(list) + 1)
      /\ UNCHANGED <<knock, live, script>>
  BY DEF Connect, ConnectToClient
<1>6. b' = [b EXCEPT ![u] = y] /\ elem' = s.elem /\ cash' = s.cash
  BY <1>1
<1> HIDE DEF x, s
<1>7. IsBuffer(x) /\ x.clientConnect = b[u].clientConnect /\ IsElements(s.elem) /\ s.cash \in Seq(Users)
  BY <1>3 DEF ReadOk
<1>8. /\ IsBuffer(y) /\ y.statusClient = x.statusClient /\ y.statusServer = x.statusServer
      /\ y.clientConnect = x.clientConnect /\ y.serverConnect = TRUE
      /\ y.getCash = x.getCash /\ y.element = x.element
  BY <1>7 DEF Dialled, IsBuffer, BufferFields
<1>9. StatusOk(y) /\ ElementsOk(b', s.cash) /\ Counted(b', list, s.elem)
  <2> HIDE DEF y, u
  <2> QED
    BY <1>2, <1>3, <1>6, <1>8, DialledRead DEF u
<1> HIDE DEF y
<1>10. /\ list \in Seq(Conns) /\ b = [v \in Users |-> b[v]] /\ (\A v \in Users : IsBuffer(b[v]))
       /\ dials \in [Users -> 0..MaxDials]
       /\ (\A i, j \in 1..Len(list) : list[i] = list[j] => i = j)
       /\ \A d \in ToSet(list) : d[2] <= dials[d[1]]
  BY DEF IInv, TypeOK, ListInv
<1>11. k \in 1..MaxDials /\ c \in Conns /\ dials[u] \in Nat
  <2>1. dials[u] \in 0..MaxDials /\ MaxDials \in Nat
    BY <1>4, <1>10
  <2>2. k \in 1..MaxDials
    BY <1>5, <2>1
  <2> QED
    BY <1>4, <2>1, <2>2 DEF Conns
<1>12. c \notin ToSet(list)
  BY <1>10, <1>11
<1>13. /\ b' = [v \in Users |-> b'[v]] /\ b'[u] = y /\ \A v \in Users : v # u => b'[v] = b[v]
       /\ dials'[u] = k /\ \A v \in Users : v # u => dials'[v] = dials[v]
  BY <1>4, <1>5, <1>6, <1>10
<1>14. /\ Len(list') = Len(list) + 1 /\ (\A i \in 1..Len(list) : list'[i] = list[i])
       /\ list'[Len(list) + 1] = c /\ list' \in Seq(Conns)
       /\ ToSet(list') = ToSet(list) \cup {c}
  <2> HIDE DEF c
  <2> QED
    BY <1>5, <1>10, <1>11, AppendSet
<1>c. c = <<u, k>> /\ c[1] = u /\ c[2] = k /\ k # 0
  BY <1>11
<1> HIDE DEF c, u, k
<1>15. PositionInv' /\ it' \in Nat \ {0} /\ pc' \in {"socket", "configure", "poll", "handle", "accept"}
  BY <1>2, <1>4, <1>5, <1>14, NextKeeps DEF Handling
<1>16. TypeOK'
  <2>1. \A v \in Users : IsBuffer(b'[v])
    BY <1>8, <1>10, <1>13
  <2>2. IsElements(elem') /\ cash' \in Seq(Users)
    BY <1>6, <1>7
  <2>3. dials' \in [Users -> 0..MaxDials]
    BY <1>4, <1>5, <1>10, <1>11 DEF k
  <2> QED
    BY <1>5, <1>13, <1>14, <1>15, <2>1, <2>2, <2>3 DEF IInv, TypeOK, script
<1>17. ListInv'
  <2>1. ASSUME NEW i \in 1..Len(list'), NEW j \in 1..Len(list'), list'[i] = list'[j] PROVE i = j
    <3>1. \A m \in 1..Len(list) : list'[m] = list[m] /\ list[m] # c
      BY <1>10, <1>12, <1>14 DEF ToSet
    <3>2. \A m \in 1..Len(list') : m \in 1..Len(list) \/ m = Len(list) + 1
      BY <1>4, <1>14
    <3> QED
      BY <1>10, <1>14, <2>1, <3>1, <3>2
  <2>2. ASSUME NEW d \in ToSet(list') PROVE d[2] <= dials'[d[1]]
    <3>1. CASE d = c
      BY <1>11, <1>13, <1>c, <3>1
    <3>2. CASE d \in ToSet(list)
      <4>1. d[1] \in Users /\ d[2] \in Nat /\ d[2] <= dials[d[1]]
        BY <1>10, <3>2, ListedConns DEF Conns
      <4> QED
        BY <1>11, <1>13, <4>1 DEF k
    <3> QED
      BY <1>14, <3>1, <3>2
  <2> QED
    BY <2>1, <2>2 DEF ListInv
<1>18. ComingInv'
  <2>1. Came(u)
    BY <1>2, <1>4 DEF IInv, ComingInv, u
  <2>2. \A v \in Users : dials'[v] = dials[v] \/ Came(v)
    BY <1>13, <2>1
  <2>3. (knock' => Accepted < NumUsers) /\ UNCHANGED request /\ live' = live
    BY <1>5 DEF IInv, ComingInv, script
  <2> QED
    BY <2>2, <2>3, SameComing
<1>19. LinksInv'
  <2>1. \A v \in Users : v # u =>
          /\ <<v, 0>> \in ToSet(list') <=> <<v, 0>> \in ToSet(list)
          /\ ServersListed(list', v) <=> ServersListed(list, v)
    BY <1>14, <1>c DEF ServersListed
  <2>2. ServersListed(list', u) /\ (<<u, 0>> \in ToSet(list') <=> <<u, 0>> \in ToSet(list))
    BY <1>14, <1>c DEF ServersListed
  <2>3. u \in live /\ live' = live
    BY <1>2, <1>5 DEF u
  <2> SUFFICES ASSUME NEW v \in Users
               PROVE  /\ v \in live =>
                           /\ b'[v].clientConnect <=> <<v, 0>> \in ToSet(list')
                           /\ b'[v].serverConnect => ServersListed(list', v)
                           /\ b'[v].clientConnect \/ b'[v].serverConnect
                           /\ dials'[v] < 2 /\ ServersListed(list', v) => b'[v].serverConnect
                      /\ v \notin live =>
                           /\ b'[v] = NewBuffer
                           /\ <<v, 0>> \notin ToSet(list')
                           /\ dials'[v] < 2 => ~ServersListed(list', v)
    BY <2>3 DEF LinksInv
  <2>4. CASE v # u
    <3>1. /\ v \in live =>
               /\ b[v].clientConnect <=> <<v, 0>> \in ToSet(list)
               /\ b[v].serverConnect => ServersListed(list, v)
               /\ b[v].clientConnect \/ b[v].serverConnect
               /\ dials[v] < 2 /\ ServersListed(list, v) => b[v].serverConnect
          /\ v \notin live =>
               /\ b[v] = NewBuffer
               /\ <<v, 0>> \notin ToSet(list)
               /\ dials[v] < 2 => ~ServersListed(list, v)
      BY DEF IInv, LinksInv
    <3>2. b'[v] = b[v] /\ dials'[v] = dials[v]
      BY <1>13, <2>4
    <3>3. /\ <<v, 0>> \in ToSet(list') <=> <<v, 0>> \in ToSet(list)
          /\ ServersListed(list', v) <=> ServersListed(list, v)
      BY <2>1, <2>4
    <3> QED
      BY <3>1, <3>2, <3>3, Zenon
  <2>5. CASE v = u
    BY <1>7, <1>8, <1>13, <2>2, <2>3, <2>5 DEF IInv, LinksInv
  <2> QED
    BY <2>4, <2>5
<1>20. StatusInv'
  BY <1>9, <1>13 DEF IInv, StatusInv
<1>21. ElementInv'
  BY <1>5, <1>6, <1>9 DEF ElementInv, ElementsOk, NoElement, Came, script
<1>22. CountInv'
  <2>1. \A e \in Users : ServedFrom(b', list', e) = ServedFrom(b', list, e)
    BY <1>14, <1>c DEF ServedFrom, IsUser
  <2> QED
    BY <1>6, <1>9, <2>1 DEF CountInv, Counted
<1> QED
  BY <1>15, <1>16, <1>17, <1>18, <1>19, <1>20, <1>21, <1>22 DEF IInv

LEMMA ConnectFailsStep == IInv /\ ConnectFails => IInv'
<1> SUFFICES ASSUME IInv, ConnectFails PROVE IInv'
  OBVIOUS
<1>1. PICK n \in 1..BufMax :
        /\ Reads(n)
        /\ DeleteClient([Result(n).x EXCEPT !.readyConnect = FALSE], Result(n).s, Taken(n))
  BY DEF ConnectFails
<1>2. Handling /\ Buf \in live
  BY <1>1 DEF Reads, Alive
<1> DEFINE x == Result(n).x
           s == Result(n).s
           y == [x EXCEPT !.readyConnect = FALSE]
<1>3. ReadOk(Buf, x, s)
  BY <1>2, ReadKeeps DEF Result
<1> HIDE DEF x, s
<1>4. ReadOk(Buf, y, s)
  <2>1. /\ IsBuffer(y) /\ y.statusClient = x.statusClient /\ y.statusServer = x.statusServer
        /\ y.clientConnect = x.clientConnect /\ y.serverConnect = x.serverConnect
        /\ y.getCash = x.getCash /\ y.element = x.element
    BY <1>3 DEF ReadOk, IsBuffer, BufferFields
  <2> HIDE DEF y
  <2>2. /\ StatusOk(y) /\ ElementsOk([b EXCEPT ![Buf] = y], s.cash)
        /\ Counted([b EXCEPT ![Buf] = y], list, s.elem)
    BY <1>2, <1>3, <2>1, DialledRead
  <2> QED
    BY <1>3, <2>1, <2>2 DEF ReadOk
<1>5. UNCHANGED <<knock, script, dials>>
  BY DEF ConnectFails
<1>6. DeleteClient(y, s, Taken(n))
  BY <1>1 DEF x, s
<1> HIDE DEF y
<1> QED
  BY <1>2, <1>4, <1>5, <1>6, DeleteKeeps

LEMMA HangUpStep == IInv /\ HangUp => IInv'
<1> SUFFICES ASSUME IInv, HangUp PROVE IInv'
  OBVIOUS
<1>1. /\ Handling /\ Buf \in live /\ DeleteClient(b[Buf], Here, got)
      /\ UNCHANGED <<knock, script, dials>>
  BY DEF HangUp, Alive
<1>2. ReadOk(Buf, b[Buf], Here)
  <2>1. IsBuffer(b[Buf]) /\ StatusOk(b[Buf])
    BY <1>1 DEF IInv, TypeOK, StatusInv
  <2> QED
    BY <1>1, <2>1, QuietRead, HereFacts
<1> QED
  BY <1>1, <1>2, DeleteKeeps

LEMMA CollectStep == IInv /\ Collect => IInv'
<1> SUFFICES ASSUME IInv, Collect PROVE IInv'
  OBVIOUS
<1>1. /\ Handling /\ Buf \in live /\ DeleteClient(b[Buf], Here, got)
      /\ UNCHANGED <<knock, script, dials>>
  BY DEF Collect, Alive
<1>2. ReadOk(Buf, b[Buf], Here)
  <2>1. IsBuffer(b[Buf]) /\ StatusOk(b[Buf])
    BY <1>1 DEF IInv, TypeOK, StatusInv
  <2> QED
    BY <1>1, <2>1, QuietRead, HereFacts
<1> QED
  BY <1>1, <1>2, DeleteKeeps

\* What was sent is gone from the buffer; the user's side may be at its end, the two
\* sides may change over.
LEMMA SentBuffer ==
    ASSUME NEW x, IsBuffer(x), StatusOk(x), NEW n
    PROVE  LET y == ProofSend(x, n)
           IN  /\ IsBuffer(y) /\ StatusOk(y) /\ (Before(y) => Before(x))
               /\ y.clientConnect = x.clientConnect /\ y.serverConnect = x.serverConnect
               /\ y.getCash = x.getCash /\ y.element = x.element
<1> DEFINE buf == SubSeq(x.buf, n + 1, Len(x.buf))
           rest == [x EXCEPT !.buf = buf]
           done == [rest EXCEPT !.ready = FALSE, !.endSend = FALSE]
           y == ProofSend(x, n)
           e == x.element
           Kept(z) == /\ IsBuffer(z) /\ z.clientConnect = x.clientConnect
                      /\ z.serverConnect = x.serverConnect
                      /\ z.getCash = x.getCash /\ z.element = x.element
           Same(z) == Kept(z) /\ z.statusClient = x.statusClient /\ z.statusServer = x.statusServer
           Fine(z) == Kept(z) /\ StatusOk(z) /\ (Before(z) => Before(x))
<1>1. \/ x.getCash /\ y = ProofSendCash(x, n)
      \/ ~x.getCash /\ \/ y = rest
                       \/ y = [rest EXCEPT !.ready = FALSE]
                       \/ y = [rest EXCEPT !.statusClient = "END_WORK"]
                       \/ /\ x.statusServer = "READ_REQUEST"
                          /\ y = [done EXCEPT !.statusClient = "READ_RESPONSE",
                                              !.statusServer = "WRITE_RESPONSE_HEADING"]
                       \/ y = [done EXCEPT !.statusClient = "END_WORK", !.statusServer = "END_WORK"]
                       \/ y = done
  BY DEF ProofSend
<1> HIDE DEF y, buf
<1>2. Same(rest)
  BY DEF IsBuffer, BufferFields
<1> HIDE DEF rest
<1>3. Same(done) /\ Same([rest EXCEPT !.ready = FALSE])
  BY <1>2 DEF IsBuffer, BufferFields
<1> HIDE DEF done
<1>4. \A z : Same(z) => Fine(z)
  BY DEF StatusOk, Before
<1>5. Fine([rest EXCEPT !.statusClient = "END_WORK"])
  <2> DEFINE z == [rest EXCEPT !.statusClient = "END_WORK"]
  <2>1. Kept(z) /\ z.statusClient = "END_WORK" /\ z.statusServer = x.statusServer
    BY <1>2 DEF IsBuffer, BufferFields
  <2> HIDE DEF z
  <2>2. Fine(z)
    BY <2>1 DEF StatusOk, Before
  <2> QED
    BY <2>2 DEF z
<1>6. ~x.getCash => Fine([done EXCEPT !.statusClient = "END_WORK", !.statusServer = "END_WORK"])
  <2> DEFINE z == [done EXCEPT !.statusClient = "END_WORK", !.statusServer = "END_WORK"]
  <2>1. Kept(z) /\ z.statusClient = "END_WORK" /\ z.statusServer = "END_WORK"
    BY <1>3 DEF IsBuffer, BufferFields
  <2> HIDE DEF z
  <2>2. ~x.getCash => Fine(z)
    BY <2>1 DEF StatusOk, Before
  <2> QED
    BY <2>2 DEF z
<1>7. ~x.getCash /\ x.statusServer = "READ_REQUEST"
        => Fine([done EXCEPT !.statusClient = "READ_RESPONSE",
                             !.statusServer = "WRITE_RESPONSE_HEADING"])
  <2> DEFINE z == [done EXCEPT !.statusClient = "READ_RESPONSE",
                               !.statusServer = "WRITE_RESPONSE_HEADING"]
  <2>1. Kept(z) /\ z.statusClient = "READ_RESPONSE" /\ z.statusServer = "WRITE_RESPONSE_HEADING"
    BY <1>3 DEF IsBuffer, BufferFields
  <2> HIDE DEF z
  <2>2. ~x.getCash /\ x.statusServer = "READ_REQUEST" => Fine(z)
    BY <2>1 DEF StatusOk, Before
  <2> QED
    BY <2>2 DEF z
<1>8. x.getCash => Fine(ProofSendCash(x, n))
  <2> DEFINE z == ProofSendCash(x, n)
  <2>1. /\ Kept(z) /\ z.statusClient \in {"END_WORK", x.statusClient}
        /\ z.statusServer = x.statusServer
    BY DEF ProofSendCash, IsBuffer, BufferFields
  <2> HIDE DEF z
  <2>2. x.getCash => Fine(z)
    BY <2>1 DEF StatusOk, Before
  <2> QED
    BY <2>2 DEF z
<1> HIDE DEF Same, Fine
<1>9. Fine(y)
  BY <1>1, <1>2, <1>3, <1>4, <1>5, <1>6, <1>7, <1>8
<1> QED
  BY <1>9 DEF y, Fine

LEMMA SendStep == IInv /\ Send => IInv'
<1> SUFFICES ASSUME IInv, Send PROVE IInv'
  OBVIOUS
<1>1. Handling /\ Buf \in live
  BY DEF Send, Sends, Alive
<1> DEFINE n == Len(SendBuf(b[Buf]))
           y == ProofSend(b[Buf], n)
<1>2. /\ b' = [b EXCEPT ![Buf] = y] /\ NextClient(Len(list))
      /\ UNCHANGED <<list, live, cache, knock, script, dials>>
  BY DEF Send
<1> HIDE DEF n
<1>3. IsBuffer(b[Buf]) /\ StatusOk(b[Buf])
  BY <1>1 DEF IInv, TypeOK, StatusInv
<1>4. /\ IsBuffer(y) /\ StatusOk(y) /\ (Before(y) => Before(b[Buf]))
      /\ y.clientConnect = b[Buf].clientConnect /\ y.serverConnect = b[Buf].serverConnect
      /\ y.getCash = b[Buf].getCash /\ y.element = b[Buf].element
  BY <1>3, SentBuffer
<1> HIDE DEF y
<1>5. ReadOk(Buf, y, Here)
  BY <1>1, <1>4, QuietRead, HereFacts
<1>6. elem' = Here.elem /\ cash' = Here.cash
  BY <1>2, HereFacts DEF cache
<1> QED
  BY <1>1, <1>2, <1>5, <1>6, BufferKeeps

-----------------------------------------------------------------------------
(* The rest of the loop.                                                   *)

\* Steps that only move on.
LEMMA MovesOn ==
    ASSUME IInv, UNCHANGED <<list, b, live, elem, cash, request, dials>>,
           knock' \in BOOLEAN, knock' => Accepted < NumUsers,
           PositionInv', it' \in Nat \ {0},
           pc' \in {"socket", "configure", "poll", "handle", "accept"}
    PROVE  IInv'
<1>1. TypeOK' /\ ListInv'
  BY DEF IInv, TypeOK, ListInv
<1>2. ComingInv'
  BY SameComing
<1>3. LinksInv' /\ StatusInv'
  BY DEF IInv, LinksInv, StatusInv
<1>4. ElementInv' /\ CountInv'
  BY DEF IInv, ElementInv, ElementsOk, NoElement, Came, CountInv, Counted, ServedFrom
<1> QED
  BY <1>1, <1>2, <1>3, <1>4 DEF IInv

LEMMA QuietStep ==
    ASSUME IInv, UNCHANGED <<pc, list, it, b, live, elem, cash, knock, request, dials>>
    PROVE  IInv'
<1>1. /\ knock' \in BOOLEAN /\ (knock' => Accepted < NumUsers) /\ PositionInv'
      /\ it' \in Nat \ {0} /\ pc' \in {"socket", "configure", "poll", "handle", "accept"}
  BY DEF IInv, TypeOK, ComingInv, PositionInv
<1> QED
  BY <1>1, MovesOn

LEMMA IdleStep == IInv /\ Idle => IInv'
<1> SUFFICES ASSUME IInv, Idle PROVE IInv'
  OBVIOUS
<1>1. /\ pc = "handle" /\ NextClient(Len(list))
      /\ UNCHANGED <<list, b, live, elem, cash, knock, request, dials>>
  BY DEF Idle, Alive, Handling, cache, script, peers
<1>2. knock' \in BOOLEAN /\ (knock' => Accepted < NumUsers)
  BY <1>1 DEF IInv, TypeOK, ComingInv
<1>3. Len(list) \in Nat
  BY <1>1, CurrentFacts
<1>4. PositionInv' /\ it' \in Nat \ {0} /\ pc' \in {"socket", "configure", "poll", "handle", "accept"}
  BY <1>1, <1>3, NextKeeps
<1> QED
  BY <1>1, <1>2, <1>4, MovesOn

LEMMA PollStep == IInv /\ Poll => IInv'
<1> SUFFICES ASSUME IInv, Poll PROVE IInv'
  OBVIOUS
<1>1. /\ pc = "poll" /\ pc' = IF list = <<>> THEN "accept" ELSE "handle"
      /\ UNCHANGED <<list, it, b, live, elem, cash, request, dials>>
  BY DEF Poll, cache, script
<1>2. knock' \in BOOLEAN /\ (knock' => Accepted < NumUsers)
  BY DEF Poll
<1>3. it = 1 /\ list \in Seq(Conns)
  BY <1>1 DEF IInv, PositionInv, TypeOK
<1>4. list # <<>> => 1 \in 1..Len(list)
  BY <1>3
<1>5. PositionInv' /\ it' \in Nat \ {0} /\ pc' \in {"socket", "configure", "poll", "handle", "accept"}
  BY <1>1, <1>3, <1>4 DEF PositionInv
<1> QED
  BY <1>1, <1>2, <1>5, MovesOn

\* The users that came are numbered from 1.
LEMMA CameFirst ==
    ASSUME IInv
    PROVE  Accepted \in 0..NumUsers /\ \A u \in Users : Came(u) <=> u <= Accepted
<1> DEFINE X == {u \in Users : Came(u)}
           M == {n \in 0..NumUsers : n + 1 \notin X}
<1>1. NumUsers \in Nat /\ X \subseteq 1..NumUsers /\ (\A u, v \in Users : v < u /\ u \in X => v \in X)
  BY DEF Users, IInv, ComingInv
<1>2. Accepted = Cardinality(X)
  BY DEF Accepted, Came
<1> HIDE DEF X
<1>3. PICK m \in M : \A n \in M : m <= n
  <2>1. NumUsers \in M /\ M \in SUBSET (0..NumUsers)
    BY <1>1
  <2> HIDE DEF M
  <2> QED
    BY <1>1, <2>1, LeastMember
<1>4. m \in 0..NumUsers /\ m + 1 \notin X /\ \A n \in 0..NumUsers : n < m => n + 1 \in X
  BY <1>3
<1>5. X = 1..m
  <2>1. ASSUME NEW u \in 1..m PROVE u \in X
    <3>1. u - 1 \in 0..NumUsers /\ u - 1 < m /\ (u - 1) + 1 = u
      BY <1>1, <1>4
    <3> QED
      BY <1>4, <3>1
  <2>2. ASSUME NEW u \in X, u > m PROVE FALSE
    <3>1. u \in Users /\ u \in Nat /\ m + 1 <= u /\ m + 1 \in Users
      BY <1>1, <1>4, <2>2 DEF Users
    <3> QED
      BY <1>1, <1>4, <3>1
  <2>3. \A u \in X : u \in Nat /\ u >= 1
    BY <1>1
  <2>4. \A u \in X : u \in 1..m
    BY <1>4, <2>2, <2>3
  <2> QED
    BY <2>1, <2>4
<1>6. Accepted = m
  BY <1>2, <1>4, <1>5, FS_Interval
<1> QED
  BY <1>4, <1>5, <1>6 DEF X, Users

LEMMA AcceptStep == IInv /\ Accept => IInv'
<1> SUFFICES ASSUME IInv, Accept PROVE IInv'
  OBVIOUS
<1>0. /\ Accepted \in 0..NumUsers /\ Accepted < NumUsers
      /\ \A v \in Users : Came(v) <=> v <= Accepted
  BY CameFirst DEF IInv, ComingInv, Accept
<1> PICK u \in Users : u = Accepted + 1
  BY <1>0 DEF Users
<1> DEFINE c == <<u, 0>>
<1>1. PICK w \in Scripts : request' = [request EXCEPT ![u] = w[1]]
  BY DEF Accept
<1>2. /\ pc = "accept" /\ pc' = "poll" /\ knock /\ knock' = FALSE
      /\ list' = Append(list, c) /\ live' = live \cup {u}
      /\ UNCHANGED <<it, b, elem, cash, dials>>
  BY DEF Accept, cache, peers
<1>3. /\ list \in Seq(Conns) /\ b = [v \in Users |-> b[v]]
      /\ dials \in [Users -> 0..MaxDials] /\ request = [v \in Users |-> request[v]]
      /\ (\A i, j \in 1..Len(list) : list[i] = list[j] => i = j)
      /\ (\A d \in ToSet(list) : d[2] <= dials[d[1]])
      /\ it = 1 /\ live \subseteq Users
  BY <1>2 DEF IInv, TypeOK, ListInv, PositionInv
<1>5. u \in Users /\ ~Came(u) /\ \A v \in Users : v < u => Came(v)
  BY <1>0 DEF Users
<1>6. u \notin live /\ dials[u] = 0
  BY <1>5 DEF IInv, ComingInv
<1>7. /\ b[u] = NewBuffer /\ c \notin ToSet(list)
      /\ \A d \in ToSet(list) : d[1] # u
  <2>1. b[u] = NewBuffer /\ c \notin ToSet(list)
    BY <1>5, <1>6 DEF IInv, LinksInv
  <2>2. \A d \in ToSet(list) : d[2] \in Nat /\ d = <<d[1], d[2]>>
    BY ListedConns DEF Conns
  <2>3. \A d \in ToSet(list) : d[1] = u => d = c
    BY <1>3, <1>6, <2>2
  <2> QED
    BY <2>1, <2>3
<1>8. c \in Conns /\ c[1] = u /\ c[2] = 0
  BY <1>5 DEF Conns
<1> HIDE DEF c
<1>9. /\ Len(list') = Len(list) + 1 /\ (\A i \in 1..Len(list) : list'[i] = list[i])
      /\ list'[Len(list) + 1] = c /\ list' \in Seq(Conns) /\ Len(list) \in Nat
      /\ ToSet(list') = ToSet(list) \cup {c}
  BY <1>2, <1>3, <1>8, AppendSet
<1>10. request'[u] # NoRequest /\ \A v \in Users : v # u => request'[v] = request[v]
  BY <1>1, <1>3, <1>5
<1>11. Came(u)' /\ \A v \in Users : v # u => (Came(v)' <=> Came(v))
  BY <1>10 DEF Came
<1>12. TypeOK'
  <2>1. request' = [v \in Users |-> request'[v]]
    BY <1>1, <1>3
  <2>2. live' \in SUBSET Users /\ knock' \in BOOLEAN
    BY <1>2, <1>3, <1>5
  <2> QED
    BY <1>2, <1>9, <2>1, <2>2 DEF IInv, TypeOK
<1>13. PositionInv'
  BY <1>2, <1>3 DEF PositionInv
<1>14. ListInv'
  <2>1. ASSUME NEW i \in 1..Len(list'), NEW j \in 1..Len(list'), list'[i] = list'[j] PROVE i = j
    <3>1. \A m \in 1..Len(list) : list'[m] = list[m] /\ list[m] # c
      BY <1>3, <1>7, <1>9 DEF ToSet
    <3>2. \A m \in 1..Len(list') : m \in 1..Len(list) \/ m = Len(list) + 1
      BY <1>9
    <3> QED
      BY <1>3, <1>9, <2>1, <3>1, <3>2
  <2>2. \A d \in ToSet(list') : d[2] <= dials[d[1]]
    BY <1>3, <1>6, <1>8, <1>9
  <2> QED
    BY <1>2, <2>1, <2>2 DEF ListInv
<1>15. ComingInv'
  <2>1. ASSUME NEW v \in Users, NEW w2 \in Users, v < w2, Came(w2)' PROVE Came(v)'
    <3>1. w2 = u \/ Came(w2)
      BY <1>11, <2>1
    <3>2. Came(v)
      BY <1>5, <2>1, <3>1 DEF IInv, ComingInv
    <3> QED
      BY <1>11, <3>2
  <2>2. \A v \in Users : ~Came(v)' => dials'[v] = 0 /\ v \notin live'
    BY <1>2, <1>11 DEF IInv, ComingInv
  <2> QED
    BY <1>2, <2>1, <2>2 DEF ComingInv, Came
<1>16. LinksInv'
  <2>1. \A v \in Users : v # u =>
          /\ <<v, 0>> \in ToSet(list') <=> <<v, 0>> \in ToSet(list)
          /\ ServersListed(list', v) <=> ServersListed(list, v)
          /\ v \in live' <=> v \in live
    BY <1>2, <1>8, <1>9 DEF ServersListed, c
  <2>2. ~ServersListed(list', u) /\ <<u, 0>> \in ToSet(list') /\ u \in live'
    BY <1>2, <1>7, <1>8, <1>9 DEF ServersListed, c
  <2>3. NewBuffer.clientConnect /\ ~NewBuffer.serverConnect
    BY DEF NewBuffer
  <2> SUFFICES ASSUME NEW v \in Users
               PROVE  /\ v \in live' =>
                           /\ b[v].clientConnect <=> <<v, 0>> \in ToSet(list')
                           /\ b[v].serverConnect => ServersListed(list', v)
                           /\ b[v].clientConnect \/ b[v].serverConnect
                           /\ dials[v] < 2 /\ ServersListed(list', v) => b[v].serverConnect
                      /\ v \notin live' =>
                           /\ b[v] = NewBuffer
                           /\ <<v, 0>> \notin ToSet(list')
                           /\ dials[v] < 2 => ~ServersListed(list', v)
    BY <1>2 DEF LinksInv
  <2>4. CASE v # u
    BY <2>1, <2>4 DEF IInv, LinksInv
  <2>5. CASE v = u
    BY <1>7, <2>2, <2>3, <2>5
  <2> QED
    BY <2>4, <2>5
<1>17. StatusInv'
  BY <1>2 DEF IInv, StatusInv
<1>18. ElementInv'
  <2>1. \A v \in Users : NoElement(v, b[v])' => NoElement(v, b[v])
    BY <1>2, <1>5, <1>11 DEF NoElement, Before
  <2> QED
    BY <1>2, <2>1 DEF IInv, ElementInv, ElementsOk
<1>19. CountInv'
  <2>1. ~b[u].getCash
    BY <1>7 DEF NewBuffer
  <2>2. \A e \in Users : ServedFrom(b, list', e) = ServedFrom(b, list, e)
    BY <1>8, <1>9, <2>1 DEF ServedFrom
  <2> QED
    BY <1>2, <2>2 DEF IInv, CountInv, Counted
<1> QED
  BY <1>12, <1>13, <1>14, <1>15, <1>16, <1>17, <1>18, <1>19 DEF IInv

LEMMA StartStep == IInv /\ Start => IInv'
<1> SUFFICES ASSUME IInv, Start PROVE IInv'
  OBVIOUS
<1>1. /\ pc \in {"socket", "configure"} /\ pc' \in {"socket", "configure", "poll"}
      /\ UNCHANGED <<list, it, b, live, elem, cash, knock, request, dials>>
  BY DEF Start, ConnectSocket, ConfigureFirst, cache, script, peers
<1>2. knock' \in BOOLEAN /\ (knock' => Accepted < NumUsers)
  BY <1>1 DEF IInv, TypeOK, ComingInv
<1>3. PositionInv' /\ it' \in Nat \ {0} /\ pc' \in {"socket", "configure", "poll", "handle", "accept"}
  BY <1>1 DEF IInv, TypeOK, PositionInv
<1> QED
  BY <1>1, <1>2, <1>3, MovesOn

LEMMA PassEndsStep == IInv /\ PassEnds => IInv'
<1> SUFFICES ASSUME IInv, PassEnds PROVE IInv'
  OBVIOUS
<1>1. /\ pc = "accept" /\ pc' = "poll" /\ knock' = FALSE
      /\ UNCHANGED <<list, it, b, live, elem, cash, request, dials>>
  BY DEF PassEnds, cache, script, peers
<1>2. knock' \in BOOLEAN /\ (knock' => Accepted < NumUsers)
  BY <1>1
<1>3. PositionInv' /\ it' \in Nat \ {0} /\ pc' \in {"socket", "configure", "poll", "handle", "accept"}
  BY <1>1 DEF IInv, TypeOK, PositionInv
<1> QED
  BY <1>1, <1>2, <1>3, MovesOn

LEMMA InitInv == Init => IInv
<1> SUFFICES ASSUME Init PROVE IInv
  OBVIOUS
<1>1. /\ IsBuffer(NewBuffer) /\ StatusOk(NewBuffer) /\ ~NewBuffer.getCash
      /\ IsElement(NewElement(<<>>)) /\ NewElement(<<>>).users = 0
  BY DEF IsBuffer, BufferFields, StatusOk, NewBuffer, IsElement, NewElement
<1>2. list = <<>> /\ cash = <<>> /\ ToSet(list) = {} /\ ToSet(cash) = {}
  BY DEF Init, ToSet
<1>3. \A u \in Users : b[u] = NewBuffer /\ elem[u] = NewElement(<<>>) /\ ~Came(u) /\ dials[u] = 0
  BY DEF Init, Came
<1>4. TypeOK
  <2>1. /\ b = [u \in Users |-> b[u]] /\ elem = [u \in Users |-> elem[u]]
        /\ request = [u \in Users |-> request[u]] /\ dials \in [Users -> 0..MaxDials]
    BY DEF Init
  <2>2. /\ pc \in {"socket", "configure", "poll", "handle", "accept"} /\ it \in Nat \ {0}
        /\ live = {} /\ knock = FALSE
    BY DEF Init
  <2>3. list \in Seq(Conns) /\ cash \in Seq(Users)
    BY <1>2
  <2>4. live \in SUBSET Users /\ knock \in BOOLEAN
    BY <2>2
  <2> QED
    BY <1>1, <1>3, <2>1, <2>2, <2>3, <2>4 DEF TypeOK, IsElements
<1>5. PositionInv /\ ListInv
  BY <1>2 DEF Init, PositionInv, ListInv
<1>6. ComingInv
  BY <1>3 DEF Init, ComingInv
<1>7. LinksInv
  BY <1>2, <1>3 DEF Init, LinksInv, ServersListed
<1>8. StatusInv
  BY <1>1, <1>3 DEF StatusInv
<1>9. ElementInv
  BY <1>1, <1>2, <1>3 DEF ElementInv, ElementsOk
<1>10. CountInv
  <2>1. \A e \in Users : ServedFrom(b, list, e) = {}
    BY <1>2 DEF ServedFrom
  <2> QED
    BY <1>1, <1>3, <2>1, FS_EmptySet DEF CountInv, Counted
<1> QED
  BY <1>4, <1>5, <1>6, <1>7, <1>8, <1>9, <1>10 DEF IInv

\* The flags of the buffers, the list and the cache agree in every reachable state.
THEOREM Invariance == Spec => []IInv
<1>1. IInv /\ [Next]_vars => IInv'
  <2> SUFFICES ASSUME IInv, [Next]_vars PROVE IInv'
    OBVIOUS
  <2>1. CASE Dangling \/ SendKilled \/ AcceptFails \/ UNCHANGED vars
    <3>1. UNCHANGED <<pc, list, it, b, live, elem, cash, knock, request, dials>>
      BY <2>1 DEF Dangling, SendKilled, AcceptFails, vars, cache, script, peers
    <3> QED
      BY <3>1, QuietStep
  <2> QED
    BY <2>1, StartStep, PollStep, HangUpStep, ReadStep, ConnectStep, ConnectFailsStep,
       CollectStep, SendStep, IdleStep, PassEndsStep, AcceptStep
    DEF Next, Handle, EndOfPass
<1> QED
  BY InitInv, <1>1, PTL DEF Spec

\* The variables keep their types, and the iterator is on the list whenever a client is handled.
THEOREM TypeCorrect == Spec => [](TypeOK /\ PositionInv)
<1>1. IInv => TypeOK /\ PositionInv
  BY DEF IInv
<1> QED
  BY <1>1, Invariance, PTL

\* While there has been one origin, a buffer lives exactly as long as one of its two
\* clients is on the list; and whatever a second one brings, an allocated buffer has one.
THEOREM BuffersLive == Spec => []BufferLifetime
<1>1. IInv => BufferLifetime
  <2> SUFFICES ASSUME IInv, NEW u \in Users
               PROVE  /\ dials[u] < 2 => (u \in live <=> Listed(u) # {})
                      /\ u \in live => Listed(u) # {}
    BY DEF BufferLifetime
  <2>1. u \in live => Listed(u) # {}
    <3>1. u \in live => <<u, 0>> \in ToSet(list) \/ ServersListed(list, u)
      BY DEF IInv, LinksInv
    <3> QED
      BY <3>1 DEF Listed, ServersListed
  <2>2. dials[u] < 2 /\ u \notin live => Listed(u) = {}
    <3> SUFFICES ASSUME dials[u] < 2, u \notin live, NEW c \in ToSet(list), c[1] = u
                 PROVE  FALSE
      BY DEF Listed
    <3>1. <<u, 0>> \notin ToSet(list) /\ ~ServersListed(list, u)
      BY DEF IInv, LinksInv
    <3>2. c = <<u, c[2]>> /\ c[2] \in Nat
      BY ListedConns DEF Conns
    <3>3. c[2] = 0
      BY <3>1, <3>2 DEF ServersListed
    <3> QED
      BY <3>1, <3>2, <3>3
  <2> QED
    BY <2>1, <2>2
<1> QED
  BY <1>1, Invariance, PTL

\* Whoever comes and goes, by whatever way, an element counts the clients it is sent to.
THEOREM UsersAreCounted == Spec => []UsersCounted
<1>1. IInv => UsersCounted
  BY DEF IInv, CountInv, Counted, ServedFrom, UsersCounted
<1> QED
  BY <1>1, Invariance, PTL

-----------------------------------------------------------------------------
(* What the cache holds.  A user that asks for a page and sends nothing    *)
(* else is followed from its heading to the end of the answer: what of it  *)
(* was read is in the buffer, and from the heading of the answer on in the *)
(* element.                                                                *)

\* A user that sends a GET and nothing behind it, and what it says.
Plain(u) == Orderly(u) /\ request[u].kind = "get"
FromUser(u, n) == [i \in 1..n |-> <<"user", request[u].key, i>>]
Seen(u, n) == {<<"origin", u, i>> : i \in 1..n}

\* What peers say was chosen when the user came; nothing is known of those to come.
ScriptInv ==
    \A u \in Users :
        /\ Came(u) => \E w \in Scripts : request[u] = w[1] /\ response[u] = w[2]
        /\ ~Came(u) => /\ elem[u].content = <<>> /\ ~elem[u].ended
                       /\ got[<<u, 0>>] = 0
        /\ \A k \in 1..MaxDials : k > dials[u] => got[<<u, k>>] = 0 /\ out[<<u, k>>] = <<>>

\* The keys of the cache; all answers are to GETs.
KeysInv == KeysOk(elem, cash) /\ \A e \in ToSet(cash) : request[e].kind = "get"

\* Only the user whose origin answers fills the element.
Owned(u, x) ==
    x.addData => /\ x.element = u /\ request[u].kind = "get"
                 /\ x.statusClient # "WRITE_REQUEST_HEADING"
OwnedInv == \A u \in Users : Owned(u, b[u]) /\ ~b[u].readyConnect

ContentOk(u, e) ==
    /\ e.content = FromOrigin(u, Len(e.content))
    /\ e.ended => IsWhole(u, Len(e.content))
ContentInv == \A u \in Users : Plain(u) => ContentOk(u, elem[u])

\* The heading of u is still coming.
Asking(u, x, n) ==
    /\ x.statusClient = "WRITE_REQUEST_HEADING" /\ x.statusServer = "READ_REQUEST"
    /\ ~x.addData
    /\ n < ReqHead /\ x.buf = FromUser(u, n)

\* The heading goes to the origin, that has nothing of it yet.
Forwarding(u, x, sent) ==
    /\ x.statusServer = "READ_REQUEST"
    /\ x.statusClient \in {"WRITE_REQUEST_HEADING", "END_WORK"}
    /\ ~x.addData /\ ~x.getCash /\ x.endSend
    /\ sent = <<>> /\ x.buf = FromUser(u, ReqHead)

\* The heading of the answer is still coming.
AwaitingHeading(u, x, n) ==
    /\ x.statusServer = "WRITE_RESPONSE_HEADING"
    /\ x.statusClient \in {"READ_RESPONSE", "END_WORK"}
    /\ ~x.addData /\ ~x.ready
    /\ n < RespHead /\ x.buf = FromOrigin(u, n)

\* The body is coming: n units were read.
Answering(u, x, e, n) ==
    /\ x.statusServer = "WRITE_RESPONSE_BODY"
    /\ x.statusClient \in {"READ_RESPONSE", "END_WORK"}
    /\ n \in RespHead..ResponseLength(u)
    /\ x.buf \in Seq(Seen(u, n))
    /\ x.haveLength = response[u].known
    /\ x.haveLength => \E q \in Int :
         x.lengthBody = response[u].length - (n - RespHead) + q * LengthMod
    /\ x.addData => Len(e.content) = n

\* Nothing that comes matters any more.
Finished(x) ==
    x.statusServer = "END_WORK" /\ x.statusClient \in {"READ_RESPONSE", "END_WORK"}

\* One origin at most, and nothing but its answer is left to be read once the heading came.
Track(u, x, e, l, g, o) ==
    /\ <<u, 0>> \in l => g[<<u, 0>>] = ReqHead \/ (dials[u] = 0 /\ Asking(u, x, g[<<u, 0>>]))
    /\ <<u, 1>> \in l =>
         LET n == g[<<u, 1>>]
         IN  \/ Forwarding(u, x, o[<<u, 1>>]) /\ n = 0
             \/ AwaitingHeading(u, x, n)
             \/ Answering(u, x, e, n)
             \/ Finished(x)
Tracked(u) == Track(u, b[u], elem[u], ToSet(list), got, out)
TrackInv == \A u \in live : Plain(u) => dials[u] <= 1 /\ Tracked(u)

PeersInv ==
    /\ got \in [Conns -> Nat] /\ out = [c \in Conns |-> out[c]]
    /\ response = [u \in Users |-> response[u]]

CInv == ScriptInv /\ KeysInv /\ OwnedInv /\ ContentInv /\ PeersInv /\ TrackInv

\* What a step of user u leaves of the cache, but for what its own stream put there.
SameContent(e, f) == e.head = f.head /\ e.content = f.content /\ e.ended = f.ended
ElementsAfter(u, x, s) ==
    /\ KeysOk(s.elem, s.cash) /\ \A e \in ToSet(s.cash) : request[e].kind = "get"
    /\ \A v \in Users : v # u => SameContent(s.elem[v], elem[v])
    /\ Owned(u, x)
StreamAfter(u, x, s, g) ==
    Plain(u) => ContentOk(u, s.elem[u]) /\ Track(u, x, s.elem[u], ToSet(list), g, out)

USE LengthsAssumption

LEMMA KeysHit ==
    ASSUME NEW cc \in Seq(Users), NEW i \in 1..Len(cc), NEW ee, KeysOk(ee, cc)
    PROVE  KeysOk(ee, Append(RemoveAt(cc, i), cc[i]))
<1> DEFINE rest == RemoveAt(cc, i)
           m == Len(rest)
           all == Append(rest, cc[i])
<1>1. rest \in Seq(Users) /\ m \in Nat
  BY RemoveAtFacts
<1>2. KeysOk(ee, rest) /\ \A j \in 1..m : ee[rest[j]].head # ee[cc[i]].head
  BY KeysRemove
<1> HIDE DEF rest
<1>3. Len(all) = m + 1 /\ all[m + 1] = cc[i] /\ \A j \in 1..m : all[j] = rest[j]
  BY <1>1
<1> HIDE DEF all, m
<1>4. \A j, k \in 1..m : ee[rest[j]].head = ee[rest[k]].head => j = k
  BY <1>2 DEF KeysOk, m
<1>5. \A j \in 1..(m + 1) : j = m + 1 \/ j \in 1..m
  BY <1>1
<1>6. ASSUME NEW j \in 1..(m + 1), NEW k \in 1..(m + 1), ee[all[j]].head = ee[all[k]].head
      PROVE  j = k
  BY <1>2, <1>3, <1>4, <1>5, <1>6
<1>7. KeysOk(ee, all)
  BY <1>3, <1>6 DEF KeysOk
<1> QED
  BY <1>7 DEF all, rest

\* The list in a cache whose elements have the same heads.
LEMMA KeysSame ==
    ASSUME NEW cc \in Seq(Users), NEW ee, NEW ff, KeysOk(ee, cc),
           \A e \in ToSet(cc) : ff[e].head = ee[e].head
    PROVE  KeysOk(ff, cc)
<1>1. \A i \in 1..Len(cc) : cc[i] \in ToSet(cc)
  BY DEF ToSet
<1> QED
  BY <1>1 DEF KeysOk

\* A hit changes the order of the list and a count.
LEMMA HitContent ==
    ASSUME IInv, CInv, NEW head, Stored(Here, head) # {}
    PROVE  LET s == Hit(Here, head)
           IN  /\ KeysOk(s.elem, s.cash) /\ ToSet(s.cash) \subseteq ToSet(cash)
               /\ \A v \in Users : SameContent(s.elem[v], elem[v])
<1> DEFINE i == Place(Here, head)
           e == cash[i]
           s == Hit(Here, head)
           C == ToSet(cash)
           more == [elem[e] EXCEPT !.users = @ + 1]
<1>1. IsElements(elem) /\ cash \in Seq(Users) /\ cash \in Seq(C) /\ C \subseteq Users
  BY OwnCash DEF IInv, TypeOK
<1>2. i \in 1..Len(cash)
  <2>1. \E j \in DOMAIN cash : elem[cash[j]].head = head
    BY DEF Stored, Here, ToSet
  <2>2. i \in DOMAIN cash
    BY <2>1 DEF Place, Here
  <2> QED
    BY <1>1, <2>2
<1> HIDE DEF i
<1>3. e \in C
  BY <1>1, <1>2 DEF ToSet
<1>4. s.cash = Append(RemoveAt(cash, i), e) /\ s.elem = [elem EXCEPT ![e] = more]
  BY DEF Hit, Here, i
<1>5. SameContent(more, elem[e])
  <2> DEFINE el == elem[e]
  <2>1. IsElement(el)
    BY <1>1, <1>3 DEF IsElements
  <2> HIDE DEF el
  <2> QED
    BY <2>1 DEF SameContent, IsElement, el
<1> HIDE DEF s, more
<1>6. \A v \in Users : SameContent(s.elem[v], elem[v])
  <2>1. \A v \in Users : s.elem[v] = IF v = e THEN more ELSE elem[v]
    BY <1>1, <1>4 DEF IsElements
  <2> QED
    BY <1>5, <2>1 DEF SameContent
<1>7. ToSet(s.cash) \subseteq C
  <2>1. RemoveAt(cash, i) \in Seq(C)
    BY <1>1, <1>2, RemoveAtFacts
  <2>2. s.cash \in Seq(C)
    BY <1>3, <1>4, <2>1
  <2> QED
    BY <2>2, OwnEntries
<1>8. KeysOk(s.elem, s.cash)
  <2>1. KeysOk(elem, s.cash)
    BY <1>1, <1>2, <1>4, KeysHit DEF CInv, KeysInv
  <2>2. s.cash \in Seq(Users)
    <3>1. RemoveAt(cash, i) \in Seq(Users)
      BY <1>1, <1>2, RemoveAtFacts
    <3> QED
      BY <1>1, <1>3, <1>4, <3>1
  <2>3. \A v \in ToSet(s.cash) : s.elem[v].head = elem[v].head
    BY <1>1, <1>6, <1>7 DEF SameContent
  <2> QED
    BY <2>1, <2>2, <2>3, KeysSame
<1> QED
  BY <1>6, <1>7, <1>8 DEF s, C

\* What is added has a key of its own.
LEMMA AddKeys ==
    ASSUME NEW s, IsCache(s), IsElements(s.elem), s.cash \in Seq(Users), KeysOk(s.elem, s.cash),
           NEW u \in Users, u \notin ToSet(s.cash), NEW head, Stored(s, head) = {}, NEW length
    PROVE  LET try == AddStringToCash(s, u, head, length) IN KeysOk(try.s.elem, try.s.cash)
<1> DEFINE size == length + Len(head)
           room == IF Full(s.bytes + size) THEN Evict(s, size) ELSE s
           more == [room EXCEPT !.bytes = @ + size, !.cash = Append(@, u),
                                !.elem[u] = NewElement(head)]
           try == AddStringToCash(s, u, head, length)
           C == ToSet(s.cash)
           m == Len(room.cash)
<1>1. try = IF Full(room.bytes + size) THEN [s |-> room, added |-> FALSE]
                                       ELSE [s |-> more, added |-> TRUE]
  BY DEF AddStringToCash
<1>2. s.cash \in Seq(C) /\ C \subseteq Users
  BY OwnEntries
<1> HIDE DEF C
<1>3. IsCache(room) /\ room.elem = s.elem /\ room.cash \in Seq(C) /\ KeysOk(s.elem, room.cash)
  BY <1>2, EvictKeeps
<1> HIDE DEF room, try, size
<1>4. /\ more.elem = [s.elem EXCEPT ![u] = NewElement(head)]
      /\ more.cash = Append(room.cash, u)
  BY <1>3 DEF IsCache
<1> HIDE DEF more
<1>5. m \in Nat /\ \A i \in 1..m : room.cash[i] \in C
  BY <1>3
<1>6. \A i \in 1..m : s.elem[room.cash[i]].head # head
  BY <1>5 DEF Stored, C
<1>7. /\ more.elem[u].head = head
      /\ \A v \in C : more.elem[v] = s.elem[v]
  BY <1>2, <1>4 DEF IsElements, NewElement, C
<1>8. /\ Len(more.cash) = m + 1 /\ more.cash[m + 1] = u
      /\ \A i \in 1..m : more.cash[i] = room.cash[i]
  BY <1>3, <1>4
<1>9. KeysOk(more.elem, more.cash)
  <2> HIDE DEF m
  <2>1. \A i \in 1..(m + 1) : i = m + 1 \/ i \in 1..m
    BY <1>5
  <2>2. \A i \in 1..m : more.elem[more.cash[i]].head = s.elem[room.cash[i]].head
    BY <1>5, <1>7, <1>8
  <2>3. \A i, j \in 1..m : s.elem[room.cash[i]].head = s.elem[room.cash[j]].head => i = j
    BY <1>3 DEF KeysOk, m
  <2>4. ASSUME NEW i \in 1..(m + 1), NEW j \in 1..(m + 1),
               more.elem[more.cash[i]].head = more.elem[more.cash[j]].head
        PROVE  i = j
    <3>1. CASE i \in 1..m /\ j \in 1..m
      BY <2>2, <2>3, <2>4, <3>1
    <3>2. CASE i = m + 1 /\ j \in 1..m
      BY <1>6, <1>7, <1>8, <2>2, <2>4, <3>2
    <3>3. CASE i \in 1..m /\ j = m + 1
      BY <1>6, <1>7, <1>8, <2>2, <2>4, <3>3
    <3> QED
      BY <2>1, <3>1, <3>2, <3>3
  <2> QED
    BY <1>8, <2>4 DEF KeysOk
<1>10. try.s = room \/ try.s = more
  BY <1>1
<1>11. KeysOk(try.s.elem, try.s.cash)
  BY <1>3, <1>9, <1>10
<1> QED
  BY <1>11 DEF try

-----------------------------------------------------------------------------
(* What the reads make of a buffer, field by field.                        *)

LEMMA FilledRest ==
    ASSUME IInv, NEW u \in live, NEW chunk
    PROVE  LET x == Filled(u, chunk)
           IN  /\ x.buf = b[u].buf \o chunk
               /\ x.addData = b[u].addData /\ x.ready = b[u].ready /\ x.endSend = b[u].endSend
               /\ x.readyConnect = b[u].readyConnect /\ x.lengthBody = b[u].lengthBody
               /\ x.haveLength = b[u].haveLength
<1>1. IsBuffer(b[u])
  BY DEF IInv, TypeOK
<1> QED
  BY <1>1 DEF Filled, IsBuffer, BufferFields

LEMMA HeadingResult ==
    ASSUME NEW x, IsBuffer(x), NEW s, NEW u, IsCache(s)
    PROVE  LET r == WrightRequestHeading(x, s, u)
           IN  /\ r.x.addData = x.addData
               /\ \/ ~HasHeading(u, x.buf) /\ r = [x |-> x, s |-> s]
                  \/ /\ HasHeading(u, x.buf)
                     /\ r.x.statusClient = "READ_RESPONSE" /\ r.x.readyConnect = x.readyConnect
                     /\ r.s = s \/ \E head : Stored(s, head) # {} /\ r.s = Hit(s, head)
                  \/ /\ HasHeading(u, x.buf) /\ r.s = s
                     /\ request[u].kind = "get" =>
                          /\ r.x.readyConnect /\ r.x.endSend /\ r.x.buf = x.buf
                          /\ r.x.statusClient = x.statusClient
                          /\ r.x.statusServer = x.statusServer
<1> DEFINE pos == PosEndHeading(u, x.buf)
           heading == SubSeq(x.buf, 1, pos)
           y == [x EXCEPT !.heading = heading]
           left == (FindContentLength(u, "user").length - (Len(x.buf) - pos)) % LengthMod
           hit == [y EXCEPT !.getCash = TRUE, !.buf = <<>>, !.statusClient = "READ_RESPONSE",
                            !.element = s.cash[Place(s, heading)]]
           get == [y EXCEPT !.readyConnect = TRUE, !.ready = TRUE, !.endSend = TRUE]
           post == [y EXCEPT !.readyConnect = TRUE, !.ready = TRUE,
                             !.statusClient = "WRITE_REQUEST_BODY", !.lengthBody = left,
                             !.endSend = @ \/ left = 0]
           r == WrightRequestHeading(x, s, u)
<1>1. \/ ~HasHeading(u, x.buf) /\ r = [x |-> x, s |-> s]
      \/ HasHeading(u, x.buf) /\ r = [x |-> RejectHeading(y), s |-> s]
      \/ HasHeading(u, x.buf) /\ Stored(s, heading) # {} /\ r = [x |-> hit, s |-> Hit(s, heading)]
      \/ HasHeading(u, x.buf) /\ r = [x |-> get, s |-> s]
      \/ HasHeading(u, x.buf) /\ request[u].kind # "get" /\ r = [x |-> post, s |-> s]
  <2>1. ParsingHeading(u, heading) # "bad" => ParsingHeading(u, heading) = request[u].kind
    BY DEF ParsingHeading
  <2> HIDE DEF y, heading, left
  <2>2. heading = SubSeq(x.buf, 1, PosEndHeading(u, x.buf)) /\ y = [x EXCEPT !.heading = heading]
        /\ left = (FindContentLength(u, "user").length
                     - (Len(x.buf) - PosEndHeading(u, x.buf))) % LengthMod
    BY DEF heading, y, left
  <2> QED
    BY <2>1, <2>2 DEF WrightRequestHeading
<1> HIDE DEF r, left, heading
<1>2. /\ IsBuffer(y) /\ y.addData = x.addData /\ y.readyConnect = x.readyConnect /\ y.buf = x.buf
      /\ y.statusClient = x.statusClient /\ y.statusServer = x.statusServer
  BY DEF IsBuffer, BufferFields
<1> HIDE DEF y
<1>3. /\ RejectHeading(y).addData = x.addData /\ RejectHeading(y).readyConnect = x.readyConnect
      /\ RejectHeading(y).statusClient = "READ_RESPONSE"
  BY <1>2 DEF RejectHeading, IsBuffer, BufferFields
<1>4. /\ hit.addData = x.addData /\ hit.readyConnect = x.readyConnect
      /\ hit.statusClient = "READ_RESPONSE"
  BY <1>2 DEF IsBuffer, BufferFields
<1>5. /\ get.addData = x.addData /\ get.readyConnect /\ get.endSend /\ get.buf = x.buf
      /\ get.statusClient = x.statusClient /\ get.statusServer = x.statusServer
  BY <1>2 DEF IsBuffer, BufferFields
<1>6. post.addData = x.addData
  BY <1>2 DEF IsBuffer, BufferFields
<1> HIDE DEF hit, get, post
<1>7. CASE ~HasHeading(u, x.buf) /\ r = [x |-> x, s |-> s]
  BY <1>7 DEF r
<1>8. CASE HasHeading(u, x.buf) /\ r = [x |-> RejectHeading(y), s |-> s]
  BY <1>3, <1>8 DEF r
<1>9. CASE HasHeading(u, x.buf) /\ Stored(s, heading) # {} /\ r = [x |-> hit, s |-> Hit(s, heading)]
  BY <1>4, <1>9 DEF r
<1>10. CASE HasHeading(u, x.buf) /\ r = [x |-> get, s |-> s]
  BY <1>5, <1>10 DEF r
<1>11. CASE HasHeading(u, x.buf) /\ request[u].kind # "get" /\ r = [x |-> post, s |-> s]
  BY <1>6, <1>11 DEF r
<1> QED
  BY <1>1, <1>7, <1>8, <1>9, <1>10, <1>11

\* What a heading at the start of buf announces, what is left of that, and whether
\* the answer ends there.
Announced(u, buf) == FindContentLength(u, buf[PosEndHeading(u, buf)][1])
LeftAt(u, buf) == (Announced(u, buf).length - (Len(buf) - PosEndHeading(u, buf))) % LengthMod
EndsAt(u, buf) == IF Announced(u, buf).known THEN LeftAt(u, buf) = 0 ELSE HasBodyEnd(u, buf)

\* What the heading of an answer leaves of its user's buffer x and of the cache.
HeadingTaken(u, x, r) ==
    /\ r.x.statusClient = x.statusClient /\ r.x.buf = x.buf
    /\ r.x.statusServer = "WRITE_RESPONSE_BODY" /\ r.x.readyConnect = x.readyConnect
    /\ r.x.haveLength = Announced(u, x.buf).known
    /\ Announced(u, x.buf).known => r.x.lengthBody = LeftAt(u, x.buf)
    /\ Owned(u, r.x)
    /\ r.x.addData => /\ r.s.elem[u].content = x.buf
                      /\ r.s.elem[u].ended => EndsAt(u, x.buf)
    /\ ~r.x.addData => r.s.elem[u] = elem[u]
    /\ \A v \in Users : v # u => r.s.elem[v] = elem[v]
    /\ KeysOk(r.s.elem, r.s.cash)
    /\ ToSet(r.s.cash) \subseteq ToSet(cash) \cup {u}
    /\ u \in ToSet(r.s.cash) => request[u].kind = "get"

LEMMA ResponseHeadingResult ==
    ASSUME IInv, CInv, NEW u \in live, NEW x, IsBuffer(x),
           x.statusClient # "WRITE_REQUEST_HEADING", b[u].statusServer = "WRITE_RESPONSE_HEADING"
    PROVE  LET r == WrightResponseHeading(x, Here, u)
           IN  \/ ~HasHeading(u, x.buf) /\ r = [x |-> x, s |-> Here]
               \/ HasHeading(u, x.buf) /\ HeadingTaken(u, x, r)
<1> DEFINE pos == PosEndHeading(u, x.buf)
           announced == FindContentLength(u, x.buf[pos][1])
           known == announced.known
           left == (announced.length - (Len(x.buf) - pos)) % LengthMod
           length == announced.length + pos
           try == AddStringToCash(Here, u, x.heading, length)
           tbc == ToBeCashed(x, Here, u, pos)
           add == tbc /\ try.added
           finished == IF known THEN left = 0 ELSE HasBodyEnd(u, x.buf)
           y == [x EXCEPT !.addData = add, !.element = IF add THEN u ELSE @,
                          !.ready = TRUE, !.statusServer = "WRITE_RESPONSE_BODY",
                          !.haveLength = known, !.lengthBody = IF known THEN left ELSE @,
                          !.endSend = @ \/ finished]
           new == [try.s.elem[u] EXCEPT !.content = x.buf, !.connected = TRUE, !.ended = finished]
           filled == [try.s EXCEPT !.elem[u] = new]
           r == WrightResponseHeading(x, Here, u)
           C == ToSet(cash)
<1>1. \/ ~HasHeading(u, x.buf) /\ r = [x |-> x, s |-> Here]
      \/ HasHeading(u, x.buf) /\ add /\ r = [x |-> y, s |-> filled]
      \/ HasHeading(u, x.buf) /\ ~add /\ tbc /\ r = [x |-> y, s |-> try.s]
      \/ HasHeading(u, x.buf) /\ ~add /\ r = [x |-> y, s |-> Here]
  BY DEF WrightResponseHeading
<1> HIDE DEF r
<1>0. /\ known = Announced(u, x.buf).known /\ left = LeftAt(u, x.buf)
      /\ finished <=> EndsAt(u, x.buf)
  BY DEF Announced, LeftAt, EndsAt
<1>2. tbc => request[u].kind = "get" /\ Stored(Here, x.heading) = {}
  BY DEF ToBeCashed
<1>3. /\ IsCache(Here) /\ Here.cash = cash /\ Here.elem = elem /\ IsElements(elem)
      /\ cash \in Seq(C) /\ C \subseteq Users /\ u \in Users /\ cash \in Seq(Users)
      /\ KeysOk(elem, cash)
  BY HereFacts, OwnCash DEF IInv, TypeOK, CInv, KeysInv
<1>4. u \notin C
  <2>1. NoElement(u, b[u])
    BY DEF NoElement, Before
  <2> QED
    BY <1>3, <2>1 DEF IInv, ElementInv, ElementsOk
<1> HIDE DEF length, C, pos, left, known, finished
<1>5. /\ IsCache(try.s) /\ try.added \in BOOLEAN
      /\ try.added => /\ try.s.elem = [elem EXCEPT ![u] = NewElement(x.heading)]
                      /\ try.s.cash \in Seq(C \cup {u})
      /\ ~try.added => try.s.elem = elem /\ try.s.cash \in Seq(C)
  <2> DEFINE head == x.heading
             s == Here
  <2> HIDE DEF head, s
  <2>1. IsCache(s) /\ s.cash \in Seq(C) /\ s.elem = elem
    BY <1>3 DEF s
  <2>2. LET t == AddStringToCash(s, u, head, length)
        IN  /\ IsCache(t.s) /\ t.added \in BOOLEAN
            /\ t.added => t.s.elem = [s.elem EXCEPT ![u] = NewElement(head)]
                          /\ t.s.cash \in Seq(C \cup {u})
            /\ ~t.added => t.s.elem = s.elem /\ t.s.cash \in Seq(C)
    BY <2>1, AddKeeps
  <2> QED
    BY <2>1, <2>2 DEF head, s
<1>6. tbc => KeysOk(try.s.elem, try.s.cash)
  <2> DEFINE head == x.heading
             s == Here
             t == AddStringToCash(s, u, head, length)
  <2> HIDE DEF head, s
  <2>1. IsCache(s) /\ IsElements(s.elem) /\ s.cash \in Seq(Users) /\ KeysOk(s.elem, s.cash)
        /\ u \notin ToSet(s.cash)
    BY <1>3, <1>4 DEF s, C
  <2>2. Stored(s, head) = {} => KeysOk(t.s.elem, t.s.cash)
    BY <1>3, <2>1, AddKeys
  <2> QED
    BY <1>2, <2>2 DEF head, s
<1> HIDE DEF tbc
<1>7. /\ y.statusClient = x.statusClient /\ y.buf = x.buf
      /\ y.statusServer = "WRITE_RESPONSE_BODY" /\ y.readyConnect = x.readyConnect
      /\ y.haveLength = known /\ (known => y.lengthBody = left)
      /\ y.addData = add /\ (add => y.element = u)
  <2> HIDE DEF add
  <2> QED
    BY DEF IsBuffer, BufferFields
<1>8. Owned(u, y)
  BY <1>2, <1>7 DEF Owned
<1>9. add => /\ filled.cash = try.s.cash /\ filled.elem[u] = new
             /\ new.content = x.buf /\ new.ended = finished /\ new.head = try.s.elem[u].head
             /\ \A v \in Users : v # u => filled.elem[v] = elem[v]
  <2> SUFFICES ASSUME add
               PROVE  /\ filled.cash = try.s.cash /\ filled.elem[u] = new
                      /\ new.content = x.buf /\ new.ended = finished
                      /\ new.head = try.s.elem[u].head
                      /\ \A v \in Users : v # u => filled.elem[v] = elem[v]
    OBVIOUS
  <2> DEFINE head == x.heading
             el == NewElement(head)
             ee == try.s.elem
  <2>1. ee = [elem EXCEPT ![u] = el] /\ IsCache(try.s)
    BY <1>5
  <2> HIDE DEF head, ee, try
  <2>2. elem = [v \in Users |-> elem[v]]
    BY <1>3 DEF IsElements
  <2>3. ee[u] = el /\ \A v \in Users : v # u => ee[v] = elem[v]
    BY <1>3, <2>1, <2>2
  <2>4. new.content = x.buf /\ new.ended = finished /\ new.head = ee[u].head
    <3>1. try.s.elem[u] = el
      BY <2>3 DEF ee
    <3> QED
      BY <2>3, <3>1 DEF NewElement
  <2> HIDE DEF el, new
  <2>5. filled.cash = try.s.cash /\ filled.elem = [ee EXCEPT ![u] = new]
    BY <2>1 DEF IsCache, ee
  <2>6. ee = [v \in Users |-> ee[v]]
    BY <2>1, <2>2
  <2>7. filled.elem[u] = new /\ \A v \in Users : v # u => filled.elem[v] = ee[v]
    BY <1>3, <2>5, <2>6
  <2> QED
    BY <2>3, <2>4, <2>5, <2>7 DEF ee
<1>10. add => /\ KeysOk(filled.elem, filled.cash) /\ ToSet(filled.cash) \subseteq C \cup {u}
  <2> SUFFICES ASSUME add
               PROVE  KeysOk(filled.elem, filled.cash) /\ ToSet(filled.cash) \subseteq C \cup {u}
    OBVIOUS
  <2> DEFINE cc == try.s.cash
             ee == try.s.elem
             ff == filled.elem
  <2>1. cc \in Seq(C \cup {u}) /\ ToSet(cc) \subseteq C \cup {u}
    <3>1. cc \in Seq(C \cup {u})
      BY <1>5
    <3> QED
      BY <3>1, OwnEntries
  <2>2. cc \in Seq(Users) /\ ToSet(cc) \subseteq Users
    BY <1>3, <2>1
  <2>3. KeysOk(ee, cc)
    BY <1>6
  <2>4. \A v \in Users : ff[v].head = ee[v].head
    <3>1. ff[u].head = ee[u].head
      BY <1>9
    <3>2. \A v \in Users : v # u => ff[v] = elem[v] /\ ee[v] = elem[v]
      BY <1>3, <1>5, <1>9 DEF IsElements
    <3> QED
      BY <3>1, <3>2
  <2> HIDE DEF cc, ee, ff
  <2>5. KeysOk(ff, cc)
    BY <2>2, <2>3, <2>4, KeysSame
  <2> QED
    BY <1>9, <2>1, <2>5 DEF cc, ff
<1>11. ~add /\ tbc => /\ try.s.elem = elem /\ KeysOk(elem, try.s.cash)
                      /\ ToSet(try.s.cash) \subseteq C
  <2> SUFFICES ASSUME ~add, tbc
               PROVE  /\ try.s.elem = elem /\ KeysOk(elem, try.s.cash)
                      /\ ToSet(try.s.cash) \subseteq C
    OBVIOUS
  <2>1. try.s.elem = elem /\ try.s.cash \in Seq(C)
    BY <1>5
  <2> QED
    BY <1>6, <2>1, OwnEntries
<1>12. add => request[u].kind = "get"
  BY <1>2
<1> HIDE DEF y, filled, new, try, add
<1>13. CASE ~HasHeading(u, x.buf) /\ r = [x |-> x, s |-> Here]
  BY <1>13 DEF r
<1> DEFINE Goal(s) ==
             /\ r.x.addData => /\ s.elem[u].content = x.buf
                               /\ s.elem[u].ended = finished
             /\ ~r.x.addData => s.elem[u] = elem[u]
             /\ \A v \in Users : v # u => s.elem[v] = elem[v]
             /\ KeysOk(s.elem, s.cash)
             /\ ToSet(s.cash) \subseteq C \cup {u}
             /\ u \in ToSet(s.cash) => request[u].kind = "get"
<1>14. CASE HasHeading(u, x.buf) /\ r.x = y
  <2>1. ASSUME r.s = filled, add PROVE Goal(r.s)
    <3>1. r.x.addData
      BY <1>7, <1>14, <2>1
    <3>2. /\ KeysOk(r.s.elem, r.s.cash) /\ ToSet(r.s.cash) \subseteq C \cup {u}
          /\ request[u].kind = "get"
      BY <1>10, <1>12, <2>1
    <3>3. /\ r.s.elem[u].content = x.buf /\ r.s.elem[u].ended = finished
          /\ \A v \in Users : v # u => r.s.elem[v] = elem[v]
      BY <1>9, <2>1
    <3> QED
      BY <3>1, <3>2, <3>3
  <2>2. r.s = try.s /\ ~add /\ tbc => Goal(r.s)
    BY <1>4, <1>7, <1>11, <1>14
  <2>3. r.s = Here /\ ~add => Goal(r.s)
    BY <1>3, <1>4, <1>7, <1>14 DEF C
  <2>4. Goal(r.s)
    BY <1>1, <1>14, <2>1, <2>2, <2>3
  <2> QED
    BY <1>0, <1>7, <1>8, <1>14, <2>4 DEF r, C, HeadingTaken
<1> QED
  BY <1>1, <1>13, <1>14

\* What a chunk leaves of the announced length, what it makes of the element, and
\* whether the answer ends with it.
LeftAfter(x, chunk) == (x.lengthBody - Len(chunk)) % LengthMod
ContentWith(u, chunk) == elem[u].content \o chunk
EndsWith(u, x, chunk) ==
    IF x.haveLength THEN LeftAfter(x, chunk) = 0 ELSE HasBodyEnd(u, x.buf)

LEMMA ResponseBodyResult ==
    ASSUME IInv, NEW u \in live, NEW x, IsBuffer(x), Owned(u, x), NEW chunk
    PROVE  LET r == WrightResponseBody(x, Here, u, chunk)
           IN  /\ r.x.statusClient = x.statusClient /\ r.x.statusServer = x.statusServer
               /\ r.x.buf = x.buf /\ r.x.addData = x.addData /\ r.x.element = x.element
               /\ r.x.readyConnect = x.readyConnect /\ r.x.haveLength = x.haveLength
               /\ x.haveLength => r.x.lengthBody = LeftAfter(x, chunk)
               /\ r.s.cash = cash /\ r.s.elem[u].head = elem[u].head
               /\ \A v \in Users : v # u => r.s.elem[v] = elem[v]
               /\ x.addData => /\ r.s.elem[u].content = ContentWith(u, chunk)
                               /\ r.s.elem[u].ended => elem[u].ended \/ EndsWith(u, x, chunk)
               /\ ~x.addData => r.s.elem[u] = elem[u]
<1> DEFINE left == (x.lengthBody - Len(chunk)) % LengthMod
           finished == IF x.haveLength THEN left = 0 ELSE HasBodyEnd(u, x.buf)
           y == [x EXCEPT !.ready = TRUE, !.lengthBody = IF x.haveLength THEN left ELSE @,
                          !.endSend = @ \/ finished]
           e == x.element
           new == [Here.elem[e] EXCEPT !.content = @ \o chunk, !.ended = @ \/ finished]
           filled == [Here EXCEPT !.elem[e] = new]
           r == WrightResponseBody(x, Here, u, chunk)
<1>1. r = [x |-> y, s |-> IF x.addData THEN filled ELSE Here]
  BY DEF WrightResponseBody
<1>0. left = LeftAfter(x, chunk) /\ (finished <=> EndsWith(u, x, chunk))
  BY DEF LeftAfter, EndsWith
<1> HIDE DEF r, left, finished
<1>2. /\ y.statusClient = x.statusClient /\ y.statusServer = x.statusServer
      /\ y.buf = x.buf /\ y.addData = x.addData /\ y.element = x.element
      /\ y.readyConnect = x.readyConnect /\ y.haveLength = x.haveLength
      /\ x.haveLength => y.lengthBody = left
  BY DEF IsBuffer, BufferFields
<1>3. /\ IsCache(Here) /\ Here.cash = cash /\ Here.elem = elem /\ IsElements(elem) /\ u \in Users
  BY HereFacts DEF IInv, TypeOK
<1>4. x.addData => /\ filled.cash = cash /\ filled.elem = [elem EXCEPT ![u] = new] /\ e = u
  BY <1>3 DEF IsCache, Owned
<1>5. x.addData => /\ new.content = ContentWith(u, chunk) /\ new.head = elem[u].head
                   /\ new.ended => elem[u].ended \/ finished
  <2> DEFINE el == elem[u]
  <2>1. IsElement(el)
    BY <1>3 DEF IsElements
  <2>2. x.addData => new = [el EXCEPT !.content = @ \o chunk, !.ended = @ \/ finished]
    BY <1>3, <1>4
  <2> HIDE DEF el, new
  <2> QED
    BY <2>1, <2>2 DEF IsElement, el, ContentWith
<1> HIDE DEF new, filled, y, e
<1>6. x.addData => filled.elem[u] = new /\ \A v \in Users : v # u => filled.elem[v] = elem[v]
  BY <1>3, <1>4 DEF IsElements
<1>7. CASE x.addData
  <2>1. r.x = y /\ r.s = filled
    BY <1>1, <1>7
  <2> QED
    BY <1>0, <1>2, <1>4, <1>5, <1>6, <1>7, <2>1 DEF r
<1>8. CASE ~x.addData
  <2>1. r.x = y /\ r.s = Here
    BY <1>1, <1>8
  <2> QED
    BY <1>0, <1>2, <1>3, <1>8, <2>1 DEF r
<1> QED
  BY <1>7, <1>8

-----------------------------------------------------------------------------
(* The elements after a read, whoever it was read from.                    *)

LEMMA QuietElements ==
    ASSUME IInv, CInv, NEW u \in live, NEW x, Owned(u, x)
    PROVE  ElementsAfter(u, x, Here)
  BY HereFacts DEF ElementsAfter, CInv, KeysInv, SameContent

LEMMA ReadElements ==
    ASSUME IInv, CInv, NEW u \in live, NEW chunk
    PROVE  LET r == ReadFromSocket(u, chunk) IN ElementsAfter(u, r.x, r.s)
<1> DEFINE x == Filled(u, chunk)
           r == ReadFromSocket(u, chunk)
<1>1. r = IF x.statusClient = "WRITE_REQUEST_HEADING" THEN WrightRequestHeading(x, Here, u)
          ELSE IF x.statusClient = "WRITE_REQUEST_BODY"
            THEN [x |-> WrightRequestBody(x, Len(chunk)), s |-> Here]
          ELSE IF x.statusServer = "WRITE_RESPONSE_HEADING" THEN WrightResponseHeading(x, Here, u)
          ELSE IF x.statusServer = "WRITE_RESPONSE_BODY"
            THEN WrightResponseBody(x, Here, u, chunk)
          ELSE [x |-> x, s |-> Here]
  BY DEF ReadFromSocket, Filled
<1>2. /\ IsBuffer(x) /\ x.statusClient = b[u].statusClient /\ x.statusServer = b[u].statusServer
      /\ x.addData = b[u].addData /\ x.element = b[u].element /\ u \in Users
  BY FilledFields, FilledRest DEF IInv, TypeOK
<1>3. Owned(u, x)
  BY <1>2 DEF CInv, OwnedInv, Owned
<1>4. /\ IsCache(Here) /\ Here.cash = cash /\ Here.elem = elem
      /\ KeysOk(elem, cash) /\ \A e \in ToSet(cash) : request[e].kind = "get"
  BY HereFacts DEF CInv, KeysInv
<1> HIDE DEF r, x
<1>5. CASE x.statusClient = "WRITE_REQUEST_HEADING"
  <2>1. r = WrightRequestHeading(x, Here, u) /\ ~x.addData
    BY <1>1, <1>3, <1>5 DEF Owned
  <2>2. /\ ~r.x.addData
        /\ r.s = Here \/ \E head : Stored(Here, head) # {} /\ r.s = Hit(Here, head)
    <3>1. r = [x |-> x, s |-> Here] => r.s = Here
      OBVIOUS
    <3> QED
      BY <1>2, <1>4, <2>1, <3>1, HeadingResult
  <2>3. Owned(u, r.x)
    BY <2>2 DEF Owned
  <2>4. CASE r.s = Here
    BY <2>3, <2>4, QuietElements DEF r
  <2>5. ASSUME NEW head, Stored(Here, head) # {}, r.s = Hit(Here, head)
        PROVE  ElementsAfter(u, r.x, r.s)
    <3>1. /\ KeysOk(r.s.elem, r.s.cash) /\ ToSet(r.s.cash) \subseteq ToSet(cash)
          /\ \A v \in Users : SameContent(r.s.elem[v], elem[v])
      BY <2>5, HitContent
    <3> QED
      BY <1>4, <2>3, <3>1 DEF ElementsAfter
  <2> QED
    BY <2>2, <2>4, <2>5 DEF r
<1>6. CASE x.statusClient = "WRITE_REQUEST_BODY"
  <2> DEFINE y == WrightRequestBody(x, Len(chunk))
  <2>1. r = [x |-> y, s |-> Here]
    BY <1>1, <1>6
  <2>2. y.addData = x.addData /\ y.element = x.element /\ y.statusClient = x.statusClient
    BY <1>2 DEF WrightRequestBody, IsBuffer, BufferFields
  <2> HIDE DEF y
  <2>3. Owned(u, y)
    BY <1>3, <2>2 DEF Owned
  <2> QED
    BY <2>1, <2>3, QuietElements DEF r
<1>7. CASE /\ x.statusClient \notin {"WRITE_REQUEST_HEADING", "WRITE_REQUEST_BODY"}
           /\ x.statusServer = "WRITE_RESPONSE_HEADING"
  <2>1. r = WrightResponseHeading(x, Here, u)
    BY <1>1, <1>7
  <2>2. r = [x |-> x, s |-> Here] \/ HeadingTaken(u, x, r)
    <3>1. x.statusClient # "WRITE_REQUEST_HEADING" /\ b[u].statusServer = "WRITE_RESPONSE_HEADING"
      BY <1>2, <1>7
    <3> QED
      BY ONLY IInv, CInv, u \in live, <1>2, <2>1, <3>1, ResponseHeadingResult
  <2>3. CASE r = [x |-> x, s |-> Here]
    BY <1>3, <2>3, QuietElements DEF r
  <2>4. CASE HeadingTaken(u, x, r)
    <3>1. \A e \in ToSet(r.s.cash) : request[e].kind = "get"
      BY <1>4, <2>4 DEF HeadingTaken
    <3>2. ElementsAfter(u, r.x, r.s)
      BY <2>4, <3>1 DEF HeadingTaken, ElementsAfter, SameContent
    <3> QED
      BY <3>2 DEF r
  <2> QED
    BY <2>2, <2>3, <2>4
<1>8. CASE /\ x.statusClient \notin {"WRITE_REQUEST_HEADING", "WRITE_REQUEST_BODY"}
           /\ x.statusServer = "WRITE_RESPONSE_BODY"
  <2>1. r = WrightResponseBody(x, Here, u, chunk)
    BY <1>1, <1>8
  <2>2. /\ r.x.statusClient = x.statusClient /\ r.x.addData = x.addData
        /\ r.x.element = x.element
        /\ r.s.cash = cash /\ r.s.elem[u].head = elem[u].head
        /\ \A v \in Users : v # u => r.s.elem[v] = elem[v]
    BY <1>2, <1>3, <2>1, ResponseBodyResult
  <2>3. Owned(u, r.x)
    BY <1>3, <2>2 DEF Owned
  <2>4. KeysOk(r.s.elem, cash)
    <3>1. cash \in Seq(Users) /\ ToSet(cash) \subseteq Users
      BY OwnCash DEF IInv, TypeOK
    <3>2. \A e \in ToSet(cash) : r.s.elem[e].head = elem[e].head
      BY <2>2, <3>1
    <3> QED
      BY <1>4, <3>1, <3>2, KeysSame
  <2>5. ElementsAfter(u, r.x, r.s)
    BY <1>4, <2>2, <2>3, <2>4 DEF ElementsAfter, SameContent
  <2> QED
    BY <2>5 DEF r
<1>9. CASE /\ x.statusClient \notin {"WRITE_REQUEST_HEADING", "WRITE_REQUEST_BODY"}
           /\ x.statusServer \notin {"WRITE_RESPONSE_HEADING", "WRITE_RESPONSE_BODY"}
  <2>1. r = [x |-> x, s |-> Here]
    BY <1>1, <1>9
  <2> QED
    BY <1>3, <2>1, QuietElements DEF r
<1> QED
  BY <1>5, <1>6, <1>7, <1>8, <1>9

-----------------------------------------------------------------------------
(* The stream of a user that asks for a page, and its lengths.             *)

LEMMA Grown ==
    ASSUME NEW m \in Nat, NEW n \in Nat, NEW a, NEW k
    PROVE  [i \in 1..m |-> <<a, k, i>>] \o [i \in 1..n |-> <<a, k, m + i>>]
             = [i \in 1..(m + n) |-> <<a, k, i>>]
<1> DEFINE U == {<<a, k, i>> : i \in Nat}
           s == [i \in 1..m |-> <<a, k, i>>]
           t == [i \in 1..n |-> <<a, k, m + i>>]
           all == [i \in 1..(m + n) |-> <<a, k, i>>]
<1>1. s \in Seq(U) /\ Len(s) = m /\ t \in Seq(U) /\ Len(t) = n
  OBVIOUS
<1>2. all \in Seq(U) /\ Len(all) = m + n
  OBVIOUS
<1>3. \A i \in 1..m : s[i] = all[i]
  OBVIOUS
<1>4. \A i \in 1..(m + n) : i > m => i - m \in 1..n /\ t[i - m] = all[i]
  OBVIOUS
<1> HIDE DEF s, t, all, U
<1> DEFINE both == s \o t
<1>5. /\ both \in Seq(U) /\ Len(both) = m + n
      /\ \A i \in 1..(m + n) : both[i] = IF i <= m THEN s[i] ELSE t[i - m]
  BY <1>1
<1> HIDE DEF both
<1>6. ASSUME NEW i \in 1..(m + n) PROVE both[i] = all[i]
  <2>1. CASE i <= m
    <3>1. i \in 1..m
      BY <2>1
    <3> QED
      BY <1>3, <1>5, <2>1, <3>1
  <2>2. CASE i > m
    <3>1. ~(i <= m)
      BY <2>2
    <3> QED
      BY <1>4, <1>5, <2>2, <3>1
  <2> QED
    BY <2>1, <2>2
<1>7. both = all
  BY <1>2, <1>5, <1>6
<1> QED
  BY <1>7 DEF s, t, all, both

\* The length that is left, counted modulo LengthMod.
LEMMA LeftModulo ==
    ASSUME NEW a \in Int
    PROVE  a % LengthMod \in Int /\ \E q \in Int : a % LengthMod = a + q * LengthMod
<1> DEFINE m == LengthMod
<1>1. m \in Nat /\ m > 0
  OBVIOUS
<1> HIDE DEF m
<1>2. a % m \in Int /\ a \div m \in Int /\ a = m * (a \div m) + (a % m)
  BY <1>1
<1>3. -(a \div m) \in Int /\ a % m = a + (-(a \div m)) * m
  BY <1>1, <1>2
<1> QED
  BY <1>2, <1>3 DEF m

LEMMA LeftStep ==
    ASSUME NEW a \in Int, NEW n \in Int, NEW q \in Int
    PROVE  \E p \in Int : ((a + q * LengthMod) - n) % LengthMod = a - n + p * LengthMod
<1> DEFINE m == LengthMod
           c == (a + q * m) - n
<1>1. m \in Int /\ q * m \in Int
  OBVIOUS
<1>2. c \in Int
  BY <1>1
<1>3. PICK k \in Int : c % m = c + k * m
  BY <1>2, LeftModulo
<1> HIDE DEF m
<1>4. (q + k) * m = q * m + k * m /\ q + k \in Int /\ k * m \in Int
  BY <1>1
<1>5. c % m = a - n + (q + k) * m
  BY <1>1, <1>3, <1>4
<1> QED
  BY <1>4, <1>5 DEF m

LEMMA LeftNothing ==
    ASSUME NEW a \in 0..(LengthMod - 1), NEW k \in Nat, NEW q \in Int, a - k + q * LengthMod = 0
    PROVE  k >= a
<1> DEFINE m == LengthMod
<1>1. m \in Nat /\ a \in Int /\ 0 <= a /\ a < m
  OBVIOUS
<1> HIDE DEF m
<1>2. a - k + q * m = 0
  BY DEF m
<1>3. q >= 0 => q * m >= 0
  BY <1>1
<1>4. q < 0 => q * m <= -m
  <2> SUFFICES ASSUME q < 0 PROVE q * m <= -m
    OBVIOUS
  <2> DEFINE p == -1 - q
  <2>1. p \in Nat /\ q = -1 - p
    OBVIOUS
  <2> HIDE DEF p
  <2>2. p * m >= 0 /\ p * m \in Int
    BY <1>1, <2>1
  <2>3. q * m = -m - p * m
    BY <1>1, <2>1
  <2> QED
    BY <1>1, <2>2, <2>3
<1> QED
  BY <1>1, <1>2, <1>3, <1>4

LEMMA PlainFacts ==
    ASSUME IInv, CInv, NEW u \in live, Plain(u)
    PROVE  /\ u \in Users /\ Came(u)
           /\ RequestLength(u) = ReqHead /\ request[u].extra = 0
           /\ ResponseLength(u) \in Nat /\ ResponseLength(u) >= RespHead
           /\ response[u].length \in 0..(LengthMod - 1)
           /\ ContentOk(u, elem[u])
<1>1. u \in Users /\ Came(u)
  BY DEF IInv, TypeOK, ComingInv
<1>2. PICK w \in Scripts : request[u] = w[1] /\ response[u] = w[2]
  BY <1>1 DEF CInv, ScriptInv
<1>3. /\ request[u].body = 0 /\ response[u].body \in Nat
      /\ response[u].length \in 0..(LengthMod - 1)
  BY <1>2 DEF Plain
<1> QED
  BY <1>1, <1>3 DEF Plain, Orderly, RequestLength, ResponseLength, CInv, ContentInv

LEMMA UserHeading ==
    ASSUME NEW u, RequestLength(u) = ReqHead, NEW n \in Nat, n <= ReqHead
    PROVE  HasHeading(u, FromUser(u, n)) => n = ReqHead
<1>1. DOMAIN FromUser(u, n) = 1..n /\ \A i \in 1..n : FromUser(u, n)[i] = <<"user", request[u].key, i>>
  BY DEF FromUser
<1> QED
  BY <1>1 DEF HasHeading, HeadingEnd

LEMMA UserHeadingEnds ==
    ASSUME NEW u
    PROVE  HasHeading(u, FromUser(u, ReqHead))
<1>1. /\ DOMAIN FromUser(u, ReqHead) = 1..ReqHead /\ ReqHead \in 1..ReqHead
      /\ FromUser(u, ReqHead)[ReqHead] = <<"user", request[u].key, ReqHead>>
  BY DEF FromUser
<1>2. HeadingEnd(u, FromUser(u, ReqHead)[ReqHead])
  BY <1>1 DEF HeadingEnd
<1> QED
  BY <1>1, <1>2 DEF HasHeading

LEMMA OriginHeading ==
    ASSUME NEW u, NEW n \in Nat
    PROVE  /\ HasHeading(u, FromOrigin(u, n)) <=> n >= RespHead
           /\ n >= RespHead => /\ PosEndHeading(u, FromOrigin(u, n)) = RespHead
                               /\ FromOrigin(u, n)[RespHead][1] = "origin"
<1> DEFINE s == FromOrigin(u, n)
           First(i) == HeadingEnd(u, s[i]) /\ \A j \in 1..(i - 1) : ~HeadingEnd(u, s[j])
<1>1. DOMAIN s = 1..n /\ \A i \in 1..n : s[i] = <<"origin", u, i>>
  BY DEF FromOrigin
<1> HIDE DEF s
<1>2. \A i \in 1..n : HeadingEnd(u, s[i]) <=> i = RespHead
  BY <1>1 DEF HeadingEnd
<1>3. HasHeading(u, s) <=> n >= RespHead
  BY <1>1, <1>2 DEF HasHeading
<1>4. ASSUME n >= RespHead PROVE PosEndHeading(u, s) = RespHead /\ s[RespHead][1] = "origin"
  <2>1. RespHead \in 1..n
    BY <1>4
  <2>2. \A i \in 1..n : First(i) => i = RespHead
    BY <1>2
  <2>3. First(RespHead)
    <3>1. \A j \in 1..(RespHead - 1) : j \in 1..n /\ j # RespHead
      BY <2>1
    <3> QED
      BY <1>2, <2>1, <3>1
  <2> HIDE DEF First
  <2>4. (CHOOSE i \in 1..n : First(i)) = RespHead
    BY <2>1, <2>2, <2>3
  <2>5. PosEndHeading(u, s) = CHOOSE i \in 1..n : First(i)
    BY <1>1 DEF PosEndHeading, First
  <2> QED
    BY <1>1, <2>1, <2>4, <2>5
<1> QED
  BY <1>3, <1>4 DEF s

-----------------------------------------------------------------------------
(* The reads of such a user, by what is still to come.                     *)

\* Units of u from the m-th on, n of them; and of its origin.
UserUnits(u, m, n) == [i \in 1..n |-> <<"user", request[u].key, m + i>>]
OriginUnits(u, m, n) == [i \in 1..n |-> <<"origin", u, m + i>>]

\* Its heading: when that is complete either an origin is to be connected, or the
\* answer is known.
LEMMA AskingRead ==
    ASSUME IInv, CInv, NEW u \in live, Plain(u), NEW m \in Nat, NEW n \in Nat \ {0},
           m + n <= ReqHead, Asking(u, b[u], m)
    PROVE  LET r == ReadFromSocket(u, UserUnits(u, m, n))
           IN  /\ ContentOk(u, r.s.elem[u])
               /\ r.x.readyConnect => m + n = ReqHead /\ Forwarding(u, r.x, <<>>)
               /\ m + n = ReqHead \/ Asking(u, r.x, m + n)
<1> DEFINE chunk == UserUnits(u, m, n)
           x == Filled(u, chunk)
           r == ReadFromSocket(u, chunk)
<1>1. /\ IsBuffer(x) /\ x.statusClient = b[u].statusClient /\ x.statusServer = b[u].statusServer
      /\ x.addData = b[u].addData /\ x.readyConnect = b[u].readyConnect
      /\ x.buf = b[u].buf \o chunk
  BY FilledFields, FilledRest
<1>2. /\ u \in Users /\ RequestLength(u) = ReqHead /\ request[u].kind = "get"
      /\ ContentOk(u, elem[u])
  BY PlainFacts DEF Plain
<1>3. x.buf = FromUser(u, m + n)
  <2>1. b[u].buf = [i \in 1..m |-> <<"user", request[u].key, i>>]
    BY DEF Asking, FromUser
  <2>2. b[u].buf \o chunk = [i \in 1..(m + n) |-> <<"user", request[u].key, i>>]
    <3>1. m \in Nat /\ n \in Nat
      OBVIOUS
    <3> DEFINE s == b[u].buf
               key == request[u].key
    <3>2. /\ s = [i \in 1..m |-> <<"user", key, i>>]
          /\ chunk = [i \in 1..n |-> <<"user", key, m + i>>]
      BY ONLY <2>1 DEF UserUnits
    <3> HIDE DEF key, s, chunk
    <3>3. [i \in 1..m |-> <<"user", key, i>>] \o [i \in 1..n |-> <<"user", key, m + i>>]
            = [i \in 1..(m + n) |-> <<"user", key, i>>]
      BY ONLY <3>1, Grown
    <3> QED
      BY ONLY <3>2, <3>3 DEF s, key
  <2> HIDE DEF x, chunk
  <2> QED
    BY <1>1, <2>2 DEF FromUser
<1>4. /\ x.statusClient = "WRITE_REQUEST_HEADING" /\ x.statusServer = "READ_REQUEST"
      /\ ~x.addData /\ ~x.readyConnect
  BY <1>1, <1>2 DEF Asking, CInv, OwnedInv
<1>5. r = WrightRequestHeading(x, Here, u)
  BY <1>4 DEF ReadFromSocket, Filled
<1>6. /\ IsCache(Here) /\ Here.elem = elem
  BY HereFacts
<1> HIDE DEF x, r
<1>7. ContentOk(u, r.s.elem[u])
  <2>1. r.s = Here \/ \E head : Stored(Here, head) # {} /\ r.s = Hit(Here, head)
    <3>1. r = [x |-> x, s |-> Here] => r.s = Here
      OBVIOUS
    <3> QED
      BY <1>1, <1>5, <1>6, <3>1, HeadingResult
  <2>2. \A head : Stored(Here, head) # {} => SameContent(Hit(Here, head).elem[u], elem[u])
    BY <1>2, HitContent
  <2>3. SameContent(r.s.elem[u], elem[u])
    BY <1>6, <2>1, <2>2 DEF SameContent
  <2> QED
    BY <1>2, <2>3 DEF SameContent, ContentOk
<1>8. CASE ~HasHeading(u, x.buf)
  <2>1. r.x = x
    <3>1. r = [x |-> x, s |-> Here]
      BY ONLY <1>1, <1>5, <1>6, <1>8, HeadingResult
    <3> QED
      BY ONLY <3>1
  <2>2. m + n # ReqHead
    BY <1>3, <1>8, UserHeadingEnds
  <2>3. Asking(u, x, m + n)
    BY <1>3, <1>4, <2>2 DEF Asking
  <2> QED
    BY <1>4, <1>7, <2>1, <2>3 DEF r
<1>9. CASE HasHeading(u, x.buf)
  <2>1. m + n = ReqHead
    BY <1>2, <1>3, <1>9, UserHeading
  <2>2. /\ ~r.x.addData
        /\ r.x.readyConnect =>
             /\ r.x.endSend /\ r.x.buf = x.buf
             /\ r.x.statusClient = x.statusClient /\ r.x.statusServer = x.statusServer
    BY ONLY <1>1, <1>2, <1>4, <1>5, <1>6, <1>9, HeadingResult
  <2>3. StatusOk(r.x)
    BY ReadKeeps DEF ReadOk, r
  <2>4. r.x.readyConnect => Forwarding(u, r.x, <<>>)
    BY <1>3, <1>4, <2>1, <2>2, <2>3 DEF Forwarding, StatusOk
  <2> QED
    BY <1>7, <2>1, <2>4 DEF r
<1> QED
  BY <1>8, <1>9

\* What of an origin was seen stays seen.
LEMMA SeenGrows ==
    ASSUME NEW u, NEW m \in Nat, NEW n \in Nat, NEW buf \in Seq(Seen(u, m))
    PROVE  buf \o OriginUnits(u, m, n) \in Seq(Seen(u, m + n))
<1>1. Seen(u, m) \subseteq Seen(u, m + n)
  BY DEF Seen
<1>2. buf \in Seq(Seen(u, m + n))
  <2>1. \A i \in 1..Len(buf) : buf[i] \in Seen(u, m)
    OBVIOUS
  <2>2. \A i \in 1..Len(buf) : buf[i] \in Seen(u, m + n)
    BY <1>1, <2>1
  <2> HIDE DEF Seen
  <2> QED
    BY <2>2
<1>3. OriginUnits(u, m, n) \in Seq(Seen(u, m + n))
  <2>1. \A i \in 1..n : <<"origin", u, m + i>> \in Seen(u, m + n)
    BY DEF Seen
  <2> QED
    BY <2>1 DEF OriginUnits
<1> QED
  BY <1>2, <1>3

\* An answer that the code sees the end of is whole, and nothing is added to it
\* that it does not announce.
LEMMA WholeGrows ==
    ASSUME NEW u, NEW m \in Nat, NEW n \in Nat, ResponseLength(u) \in Nat,
           response[u].length \in 0..(LengthMod - 1),
           m <= n, n <= ResponseLength(u), IsWhole(u, m)
    PROVE  IsWhole(u, n)
<1>1. CASE response[u].known
  BY <1>1 DEF IsWhole
<1>2. CASE ~response[u].known
  BY <1>2 DEF IsWhole
<1> QED
  BY <1>1, <1>2

\* The end the code sees is the end.
LEMMA EndSeen ==
    ASSUME NEW u, NEW n \in Nat, ResponseLength(u) \in Nat, n <= ResponseLength(u),
           response[u].length \in 0..(LengthMod - 1), n >= RespHead,
           NEW buf \in Seq(Seen(u, n)), NEW left,
           response[u].known =>
             \E q \in Int : left = response[u].length - (n - RespHead) + q * LengthMod,
           IF response[u].known THEN left = 0 ELSE HasBodyEnd(u, buf)
    PROVE  IsWhole(u, n)
<1>1. CASE response[u].known
  <2>1. PICK q \in Int : left = response[u].length - (n - RespHead) + q * LengthMod
    BY <1>1
  <2>2. n - RespHead \in Nat
    OBVIOUS
  <2>3. n - RespHead >= response[u].length
    BY <1>1, <2>1, <2>2, LeftNothing
  <2> QED
    BY <1>1, <2>3 DEF IsWhole
<1>2. CASE ~response[u].known
  <2>1. PICK i \in DOMAIN buf : BodyEnd(u, buf[i])
    BY <1>2 DEF HasBodyEnd
  <2>2. buf[i] \in Seen(u, n)
    OBVIOUS
  <2>3. PICK j \in 1..n : buf[i] = <<"origin", u, j>>
    BY <2>2 DEF Seen
  <2>4. response[u].marker /\ j = ResponseLength(u)
    BY <2>1, <2>3 DEF BodyEnd
  <2> QED
    BY <1>2, <2>4 DEF IsWhole
<1> QED
  BY <1>1, <1>2

LEMMA AnsweringRead ==
    ASSUME IInv, CInv, NEW u \in live, Plain(u), NEW m \in Nat, NEW n \in Nat \ {0},
           m + n <= ResponseLength(u), Answering(u, b[u], elem[u], m)
    PROVE  LET r == ReadFromSocket(u, OriginUnits(u, m, n))
           IN  /\ ContentOk(u, r.s.elem[u]) /\ ~r.x.readyConnect
               /\ Answering(u, r.x, r.s.elem[u], m + n)
<1> DEFINE chunk == OriginUnits(u, m, n)
           x == Filled(u, chunk)
           r == ReadFromSocket(u, chunk)
           left == LeftAfter(x, chunk)
           finished == EndsWith(u, x, chunk)
           length == response[u].length
           k == m + n
<1>0. Len(chunk) = n
  BY DEF OriginUnits
<1> HIDE DEF chunk
<1>1. /\ IsBuffer(x) /\ x.statusClient = b[u].statusClient /\ x.statusServer = b[u].statusServer
      /\ x.addData = b[u].addData /\ x.element = b[u].element
      /\ x.readyConnect = b[u].readyConnect
      /\ x.buf = b[u].buf \o chunk /\ x.haveLength = b[u].haveLength
      /\ x.lengthBody = b[u].lengthBody
  <2>1. /\ IsBuffer(x) /\ x.statusClient = b[u].statusClient
        /\ x.statusServer = b[u].statusServer /\ x.element = b[u].element
    BY ONLY IInv, u \in live, FilledFields
  <2>2. /\ x.addData = b[u].addData /\ x.readyConnect = b[u].readyConnect
        /\ x.buf = b[u].buf \o chunk /\ x.haveLength = b[u].haveLength
        /\ x.lengthBody = b[u].lengthBody
    BY ONLY IInv, u \in live, FilledRest
  <2> QED
    BY ONLY <2>1, <2>2
<1>2. /\ u \in Users /\ ResponseLength(u) \in Nat /\ length \in 0..(LengthMod - 1)
      /\ ContentOk(u, elem[u]) /\ Owned(u, x) /\ ~x.readyConnect
  BY <1>1, PlainFacts DEF CInv, OwnedInv, Owned
<1>3. /\ x.statusClient \in {"READ_RESPONSE", "END_WORK"}
      /\ x.statusServer = "WRITE_RESPONSE_BODY"
  BY <1>1 DEF Answering
<1>4. r = WrightResponseBody(x, Here, u, chunk)
  BY <1>3 DEF ReadFromSocket, Filled
<1>5. x.buf \in Seq(Seen(u, m + n))
  BY <1>1, SeenGrows DEF Answering, chunk
<1>7. m >= RespHead /\ m + n \in RespHead..ResponseLength(u) /\ x.haveLength = response[u].known
  BY <1>1, <1>2 DEF Answering
<1>8. x.haveLength => \E p \in Int : left = length - (m + n - RespHead) + p * LengthMod
  <2> SUFFICES ASSUME x.haveLength
               PROVE  \E p \in Int : left = length - (m + n - RespHead) + p * LengthMod
    OBVIOUS
  <2> DEFINE a == length - (m - RespHead)
  <2>1. PICK q \in Int : x.lengthBody = a + q * LengthMod
    BY <1>1 DEF Answering
  <2>2. a \in Int /\ a - n = length - (m + n - RespHead)
    BY <1>2
  <2>3. left = ((a + q * LengthMod) - n) % LengthMod
    <3>1. left = (x.lengthBody - n) % LengthMod
      BY ONLY <1>0 DEF LeftAfter
    <3> DEFINE v == a + q * LengthMod
    <3>2. x.lengthBody = v
      BY ONLY <2>1
    <3> HIDE DEF v, x, left
    <3>3. left = (v - n) % LengthMod
      BY ONLY <3>1, <3>2
    <3> QED
      BY ONLY <3>3 DEF v
  <2>4. n \in Int
    OBVIOUS
  <2> HIDE DEF a, left
  <2>5. \E p \in Int : left = a - n + p * LengthMod
    <3>1. a \in Int
      BY <2>2
    <3> QED
      BY ONLY <2>1, <2>3, <2>4, <3>1, LeftStep
  <2> QED
    BY ONLY <2>2, <2>5
<1> HIDE DEF r, x
<1>9. /\ r.x.statusClient = x.statusClient /\ r.x.statusServer = x.statusServer
      /\ r.x.buf = x.buf /\ r.x.addData = x.addData /\ r.x.readyConnect = x.readyConnect
      /\ r.x.haveLength = x.haveLength /\ (x.haveLength => r.x.lengthBody = left)
      /\ x.addData => /\ r.s.elem[u].content = elem[u].content \o chunk
                      /\ r.s.elem[u].ended => elem[u].ended \/ finished
      /\ ~x.addData => r.s.elem[u] = elem[u]
  <2>0. IsBuffer(x) /\ Owned(u, x)
    BY <1>1, <1>2
  <2> HIDE DEF left, finished
  <2>1. /\ r.x.statusClient = x.statusClient /\ r.x.statusServer = x.statusServer
        /\ r.x.buf = x.buf /\ r.x.addData = x.addData /\ r.x.readyConnect = x.readyConnect
        /\ r.x.haveLength = x.haveLength
    BY ONLY IInv, u \in live, <2>0, <1>4, ResponseBodyResult
  <2>2. x.haveLength => r.x.lengthBody = left
    BY ONLY IInv, u \in live, <2>0, <1>4, ResponseBodyResult DEF left
  <2>3. x.addData => r.s.elem[u].content = elem[u].content \o chunk
    <3>1. x.addData => r.s.elem[u].content = ContentWith(u, chunk)
      BY ONLY IInv, u \in live, <2>0, <1>4, ResponseBodyResult
    <3> QED
      BY ONLY <3>1 DEF ContentWith
  <2>4. x.addData => (r.s.elem[u].ended => elem[u].ended \/ finished)
    BY ONLY IInv, u \in live, <2>0, <1>4, ResponseBodyResult DEF finished
  <2>5. ~x.addData => r.s.elem[u] = elem[u]
    BY ONLY IInv, u \in live, <2>0, <1>4, ResponseBodyResult
  <2> QED
    BY ONLY <2>1, <2>2, <2>3, <2>4, <2>5
<1>10. x.addData => /\ r.s.elem[u].content = FromOrigin(u, m + n)
                    /\ Len(FromOrigin(u, m + n)) = m + n
  <2> SUFFICES ASSUME x.addData
               PROVE  /\ r.s.elem[u].content = FromOrigin(u, m + n)
                      /\ Len(FromOrigin(u, m + n)) = m + n
    OBVIOUS
  <2>1. Len(elem[u].content) = m
    BY <1>1 DEF Answering
  <2>2. elem[u].content = [i \in 1..m |-> <<"origin", u, i>>]
    BY <1>2, <2>1 DEF ContentOk, FromOrigin
  <2>3. elem[u].content \o chunk = FromOrigin(u, m + n)
    BY <2>2, Grown DEF FromOrigin, OriginUnits, chunk
  <2> QED
    BY <1>9, <2>3 DEF FromOrigin
<1>11. ContentOk(u, r.s.elem[u])
  <2>1. CASE ~x.addData
    BY <1>2, <1>9, <2>1
  <2>2. CASE x.addData
    <3>1. elem[u].ended => IsWhole(u, m)
      BY <1>1, <1>2, <2>2 DEF ContentOk, Answering
    <3>2. elem[u].ended => IsWhole(u, m + n)
      BY <1>2, <1>7, <3>1, WholeGrows
    <3>3. finished => IsWhole(u, m + n)
      <4> HIDE DEF left
      <4>1. response[u].known =>
              \E p \in Int : left = response[u].length - (k - RespHead) + p * LengthMod
        BY <1>7, <1>8
      <4>2. finished => IF response[u].known THEN left = 0 ELSE HasBodyEnd(u, x.buf)
        BY <1>7 DEF EndsWith, left
      <4>3. /\ ResponseLength(u) \in Nat /\ k <= ResponseLength(u) /\ k \in Nat
            /\ response[u].length \in 0..(LengthMod - 1) /\ k >= RespHead
            /\ x.buf \in Seq(Seen(u, k))
        BY <1>2, <1>5, <1>7
      <4> HIDE DEF finished, k
      <4>4. finished => IsWhole(u, k)
        BY ONLY <4>1, <4>2, <4>3, EndSeen
      <4> QED
        BY ONLY <4>4 DEF k
    <3>4. r.s.elem[u].ended => IsWhole(u, m + n)
      BY <1>9, <2>2, <3>2, <3>3
    <3> QED
      BY <1>10, <2>2, <3>4 DEF ContentOk
  <2> QED
    BY <2>1, <2>2
<1> HIDE DEF left, finished
<1>12. Answering(u, r.x, r.s.elem[u], m + n)
  <2>1. r.x.haveLength = response[u].known
    BY <1>7, <1>9
  <2>2. r.x.haveLength =>
          \E q \in Int : r.x.lengthBody = length - (m + n - RespHead) + q * LengthMod
    BY <1>8, <1>9
  <2>3. r.x.addData => Len(r.s.elem[u].content) = m + n
    BY <1>9, <1>10
  <2> QED
    BY <1>3, <1>5, <1>7, <1>9, <2>1, <2>2, <2>3 DEF Answering
<1> QED
  BY <1>2, <1>9, <1>11, <1>12 DEF r, chunk

\* The heading of the answer: from its end on the buffer knows the length.
LEMMA AwaitingRead ==
    ASSUME IInv, CInv, NEW u \in live, Plain(u), NEW m \in Nat, NEW n \in Nat \ {0},
           m + n <= ResponseLength(u), AwaitingHeading(u, b[u], m)
    PROVE  LET r == ReadFromSocket(u, OriginUnits(u, m, n))
           IN  /\ ContentOk(u, r.s.elem[u]) /\ ~r.x.readyConnect
               /\ \/ AwaitingHeading(u, r.x, m + n)
                  \/ Answering(u, r.x, r.s.elem[u], m + n)
<1> DEFINE chunk == OriginUnits(u, m, n)
           x == Filled(u, chunk)
           r == ReadFromSocket(u, chunk)
           k == m + n
<1>1. /\ IsBuffer(x) /\ x.statusClient = b[u].statusClient /\ x.statusServer = b[u].statusServer
      /\ x.addData = b[u].addData /\ x.ready = b[u].ready
      /\ x.readyConnect = b[u].readyConnect /\ x.buf = b[u].buf \o chunk
  <2> HIDE DEF chunk
  <2>1. /\ IsBuffer(x) /\ x.statusClient = b[u].statusClient
        /\ x.statusServer = b[u].statusServer
    BY ONLY IInv, u \in live, FilledFields
  <2>2. /\ x.addData = b[u].addData /\ x.readyConnect = b[u].readyConnect
        /\ x.buf = b[u].buf \o chunk /\ x.ready = b[u].ready
    BY ONLY IInv, u \in live, FilledRest
  <2> QED
    BY ONLY <2>1, <2>2
<1>2. /\ u \in Users /\ ResponseLength(u) \in Nat /\ response[u].length \in 0..(LengthMod - 1)
      /\ ContentOk(u, elem[u]) /\ ~x.readyConnect /\ k \in Nat /\ k <= ResponseLength(u)
  BY <1>1, PlainFacts DEF CInv, OwnedInv
<1>3. /\ x.statusClient \in {"READ_RESPONSE", "END_WORK"}
      /\ x.statusServer = "WRITE_RESPONSE_HEADING"
      /\ ~x.addData /\ ~x.ready
  BY <1>1 DEF AwaitingHeading
<1>4. r = WrightResponseHeading(x, Here, u)
  BY <1>3 DEF ReadFromSocket, Filled
<1>5. x.buf = FromOrigin(u, k) /\ Len(x.buf) = k
  <2>1. b[u].buf = [i \in 1..m |-> <<"origin", u, i>>]
    BY DEF AwaitingHeading, FromOrigin
  <2>2. b[u].buf \o chunk = [i \in 1..(m + n) |-> <<"origin", u, i>>]
    <3>1. m \in Nat /\ n \in Nat
      OBVIOUS
    <3> QED
      BY ONLY <2>1, <3>1, Grown DEF OriginUnits
  <2> HIDE DEF x, chunk
  <2> QED
    BY <1>1, <2>2 DEF FromOrigin
<1>6. Here.elem = elem
  BY HereFacts
<1> HIDE DEF r, x, chunk, k
<1>7. CASE k < RespHead
  <2>1. ~HasHeading(u, x.buf)
    BY <1>2, <1>5, <1>7, OriginHeading
  <2>2. r = [x |-> x, s |-> Here]
    <3>1. x.statusClient # "WRITE_REQUEST_HEADING" /\ b[u].statusServer = "WRITE_RESPONSE_HEADING"
      BY <1>1, <1>3
    <3> QED
      BY ONLY IInv, CInv, u \in live, <1>1, <1>4, <2>1, <3>1, ResponseHeadingResult
  <2>3. r.x = x /\ r.s.elem = elem
    BY <1>6, <2>2
  <2>4. AwaitingHeading(u, x, k)
    BY <1>3, <1>5, <1>7 DEF AwaitingHeading
  <2> QED
    BY <1>2, <2>3, <2>4 DEF r, chunk, k
<1>8. CASE k >= RespHead
  <2>1. HasHeading(u, x.buf) /\ PosEndHeading(u, x.buf) = RespHead /\ x.buf[RespHead][1] = "origin"
    BY <1>2, <1>5, <1>8, OriginHeading
  <2>2. /\ Announced(u, x.buf).known = response[u].known
        /\ Announced(u, x.buf).length = response[u].length
    BY <2>1 DEF Announced, FindContentLength
  <2>3. \E q \in Int : LeftAt(u, x.buf) = response[u].length - (k - RespHead) + q * LengthMod
    <3> DEFINE a == response[u].length - (k - RespHead)
    <3>1. LeftAt(u, x.buf) = a % LengthMod
      BY <1>5, <2>1, <2>2 DEF LeftAt
    <3>2. a \in Int
      BY <1>2
    <3> HIDE DEF a
    <3>3. \E q \in Int : LeftAt(u, x.buf) = a + q * LengthMod
      BY <3>1, <3>2, LeftModulo
    <3> QED
      BY <3>3 DEF a
  <2>4. /\ r.x.statusClient = x.statusClient /\ r.x.buf = x.buf
        /\ r.x.statusServer = "WRITE_RESPONSE_BODY" /\ r.x.readyConnect = x.readyConnect
        /\ r.x.haveLength = Announced(u, x.buf).known
        /\ Announced(u, x.buf).known => r.x.lengthBody = LeftAt(u, x.buf)
        /\ r.x.addData => /\ r.s.elem[u].content = x.buf
                          /\ r.s.elem[u].ended => EndsAt(u, x.buf)
        /\ ~r.x.addData => r.s.elem[u] = elem[u]
    <3>1. x.statusClient # "WRITE_REQUEST_HEADING" /\ b[u].statusServer = "WRITE_RESPONSE_HEADING"
      BY <1>1, <1>3
    <3>2. HeadingTaken(u, x, r)
      BY ONLY IInv, CInv, u \in live, <1>1, <1>4, <2>1, <3>1, ResponseHeadingResult
    <3> QED
      BY ONLY <3>2 DEF HeadingTaken
  <2>5. x.buf \in Seq(Seen(u, k))
    <3>1. \A i \in 1..k : <<"origin", u, i>> \in Seen(u, k)
      BY DEF Seen
    <3> QED
      BY <1>2, <1>5, <3>1 DEF FromOrigin
  <2>6. EndsAt(u, x.buf) => IsWhole(u, k)
    <3> DEFINE left == LeftAt(u, x.buf)
               buf == x.buf
    <3>1. EndsAt(u, x.buf) => IF response[u].known THEN left = 0 ELSE HasBodyEnd(u, buf)
      BY <2>2 DEF EndsAt
    <3>2. \E q \in Int : left = response[u].length - (k - RespHead) + q * LengthMod
      BY <2>3
    <3>3. /\ ResponseLength(u) \in Nat /\ k <= ResponseLength(u) /\ k \in Nat
          /\ response[u].length \in 0..(LengthMod - 1) /\ k >= RespHead
          /\ buf \in Seq(Seen(u, k))
      BY <1>2, <1>8, <2>5
    <3> HIDE DEF left, buf
    <3> QED
      BY ONLY <3>1, <3>2, <3>3, EndSeen
  <2>7. ContentOk(u, r.s.elem[u])
    <3>1. CASE r.x.addData
      BY <1>5, <2>4, <2>6, <3>1 DEF ContentOk
    <3>2. CASE ~r.x.addData
      BY <1>2, <2>4, <3>2
    <3> QED
      BY <3>1, <3>2
  <2>8. Answering(u, r.x, r.s.elem[u], k)
    <3>1. r.x.haveLength = response[u].known
      BY <2>2, <2>4
    <3>2. r.x.haveLength =>
            \E q \in Int : r.x.lengthBody = response[u].length - (k - RespHead) + q * LengthMod
      BY <2>3, <2>4
    <3>3. r.x.addData => Len(r.s.elem[u].content) = k
      BY <1>5, <2>4
    <3>4. k \in RespHead..ResponseLength(u)
      BY <1>2, <1>8
    <3> QED
      BY <1>3, <2>4, <2>5, <3>1, <3>2, <3>3, <3>4 DEF Answering
  <2> QED
    BY <1>2, <2>4, <2>7, <2>8 DEF r, chunk, k
<1> QED
  BY <1>2, <1>7, <1>8

LEMMA FinishedRead ==
    ASSUME IInv, CInv, NEW u \in live, Plain(u), NEW chunk, Finished(b[u])
    PROVE  LET r == ReadFromSocket(u, chunk)
           IN  ContentOk(u, r.s.elem[u]) /\ ~r.x.readyConnect /\ Finished(r.x)
<1> DEFINE x == Filled(u, chunk)
           r == ReadFromSocket(u, chunk)
<1>1. /\ x.statusClient = b[u].statusClient /\ x.statusServer = b[u].statusServer
      /\ x.readyConnect = b[u].readyConnect
  BY FilledFields, FilledRest
<1>2. ContentOk(u, elem[u]) /\ Here.elem = elem /\ ~x.readyConnect
  BY <1>1, PlainFacts, HereFacts DEF CInv, OwnedInv
<1>3. Finished(x)
  BY <1>1 DEF Finished
<1>4. r = [x |-> x, s |-> Here]
  BY <1>3 DEF ReadFromSocket, Filled, Finished
<1> HIDE DEF r, x
<1>5. r.x = x /\ r.s = Here
  BY <1>4
<1> QED
  BY <1>2, <1>3, <1>5 DEF r

\* A read by the client that is handled, whoever sent what it brings.
LEMMA CurrentRead ==
    ASSUME IInv, CInv, NEW n \in Nat \ {0}, Reads(n)
    PROVE  /\ ElementsAfter(Buf, Result(n).x, Result(n).s)
           /\ StreamAfter(Buf, Result(n).x, Result(n).s, Taken(n))
           /\ Plain(Buf) /\ Result(n).x.readyConnect =>
                /\ dials[Buf] = 0 /\ Current = <<Buf, 0>>
                /\ Taken(n)[Current] = ReqHead /\ Forwarding(Buf, Result(n).x, <<>>)
<1> DEFINE u == Buf
           c == Current
           r == Result(n)
           m == got[c]
<1>1. /\ c \in ToSet(list) /\ c \in Conns /\ u \in live /\ c = <<u, c[2]>> /\ c[2] \in 0..MaxDials
      /\ c[1] = u
  BY CurrentFacts DEF Reads, Alive, Handling, Buf
<1>2. ElementsAfter(u, r.x, r.s)
  BY <1>1, ReadElements DEF Result
<1>3. /\ got \in [Conns -> Nat] /\ m \in Nat /\ Taken(n)[c] = m + n
      /\ \A d \in Conns : d # c => Taken(n)[d] = got[d]
  BY <1>1 DEF CInv, PeersInv, Taken
<1>4. n <= Pending(c)
  BY DEF Reads
<1> HIDE DEF u, c, r
<1>5. ASSUME Plain(u)
      PROVE  /\ ContentOk(u, r.s.elem[u]) /\ Track(u, r.x, r.s.elem[u], ToSet(list), Taken(n), out)
             /\ r.x.readyConnect =>
                  /\ dials[u] = 0 /\ c = <<u, 0>>
                  /\ Taken(n)[c] = ReqHead /\ Forwarding(u, r.x, <<>>)
  <2>1. /\ RequestLength(u) = ReqHead /\ request[u].extra = 0 /\ u \in Users
        /\ ResponseLength(u) \in Nat
    BY <1>1, <1>5, PlainFacts
  <2>2. /\ dials[u] <= 1 /\ dials[u] \in Nat /\ c[2] <= dials[u]
        /\ <<u, 1>> \in ToSet(list) => dials[u] = 1
    <3>1. dials[u] <= 1 /\ dials[u] \in Nat
      <4>1. dials \in [Users -> 0..MaxDials] /\ MaxDials \in Nat
        BY DEF IInv, TypeOK
      <4>2. dials[u] <= 1
        BY ONLY CInv, <1>1, <1>5 DEF CInv, TrackInv
      <4> QED
        BY <2>1, <4>1, <4>2
    <3>2. \A d \in ToSet(list) : d[2] <= dials[d[1]]
      BY DEF IInv, ListInv
    <3> QED
      BY <1>1, <3>1, <3>2
  <2>3. Track(u, b[u], elem[u], ToSet(list), got, out)
    BY <1>1, <1>5 DEF CInv, TrackInv, Tracked
  <2>4. CASE c = <<u, 0>>
    <3>1. m + n <= ReqHead
      BY <1>3, <1>4, <2>1, <2>4 DEF Pending, IsUser
    <3>2. dials[u] = 0 /\ Asking(u, b[u], m)
      BY <1>1, <1>3, <2>3, <2>4, <3>1 DEF Track
    <3>3. r = ReadFromSocket(u, UserUnits(u, m, n))
      <4>1. Chunk(c, n) = UserUnits(u, m, n)
        BY <1>1, <2>4 DEF Chunk, UserUnits, IsUser
      <4> QED
        BY <4>1 DEF Result, u, c, r
    <3>4. /\ ContentOk(u, r.s.elem[u])
          /\ r.x.readyConnect => m + n = ReqHead /\ Forwarding(u, r.x, <<>>)
          /\ m + n = ReqHead \/ Asking(u, r.x, m + n)
      BY ONLY IInv, CInv, n \in Nat \ {0}, <1>1, <1>3, <1>5, <3>1, <3>2, <3>3, AskingRead
    <3>5. <<u, 1>> \notin ToSet(list)
      BY <2>2, <3>2
    <3>6. Track(u, r.x, r.s.elem[u], ToSet(list), Taken(n), out)
      BY <1>3, <2>4, <3>2, <3>4, <3>5 DEF Track
    <3> QED
      BY <1>3, <2>4, <3>2, <3>4, <3>6
  <2>5. CASE c # <<u, 0>>
    <3>1. c = <<u, 1>> /\ ~IsUser(c) /\ dials[u] = 1 /\ <<u, 0>> \in Conns
      BY <1>1, <2>1, <2>2, <2>5 DEF IsUser, Conns
    <3>2. m + n <= ResponseLength(u) /\ Len(out[c]) >= ReqHead
      BY <1>1, <1>3, <1>4, <2>1, <3>1 DEF Pending
    <3>3. r = ReadFromSocket(u, OriginUnits(u, m, n))
      <4>1. Chunk(c, n) = OriginUnits(u, m, n)
        BY <1>1, <3>1 DEF Chunk, OriginUnits
      <4> QED
        BY <4>1 DEF Result, u, c, r
    <3>4. \/ AwaitingHeading(u, b[u], m)
          \/ Answering(u, b[u], elem[u], m)
          \/ Finished(b[u])
      <4>1. ~Forwarding(u, b[u], out[c])
        BY <3>2 DEF Forwarding
      <4> QED
        BY <1>1, <2>3, <3>1, <4>1 DEF Track
    <3>5. /\ ContentOk(u, r.s.elem[u]) /\ ~r.x.readyConnect
          /\ \/ AwaitingHeading(u, r.x, m + n)
             \/ Answering(u, r.x, r.s.elem[u], m + n)
             \/ Finished(r.x)
      <4>1. CASE AwaitingHeading(u, b[u], m)
        BY <1>1, <1>3, <1>5, <3>2, <3>3, <4>1, AwaitingRead
      <4>2. CASE Answering(u, b[u], elem[u], m)
        BY <1>1, <1>3, <1>5, <3>2, <3>3, <4>2, AnsweringRead
      <4>3. CASE Finished(b[u])
        BY <1>1, <1>5, <3>3, <4>3, FinishedRead
      <4> QED
        BY <3>4, <4>1, <4>2, <4>3
    <3>6. <<u, 0>> \in ToSet(list) => Taken(n)[<<u, 0>>] = ReqHead
      BY <1>3, <2>3, <2>5, <3>1 DEF Track
    <3>7. Track(u, r.x, r.s.elem[u], ToSet(list), Taken(n), out)
      BY <1>3, <3>1, <3>5, <3>6 DEF Track
    <3> QED
      BY <3>5, <3>7
  <2> QED
    BY <2>4, <2>5
<1> QED
  BY <1>2, <1>5 DEF StreamAfter, u, c, r

-----------------------------------------------------------------------------
(* What the steps leave of the cache.                                      *)

\* The parts of a buffer that its stream goes through.
Alike(x, y) ==
    /\ y.statusServer = x.statusServer /\ y.buf = x.buf /\ y.ready = x.ready
    /\ y.endSend = x.endSend /\ y.lengthBody = x.lengthBody /\ y.haveLength = x.haveLength
    /\ y.addData = x.addData /\ y.getCash = x.getCash /\ y.element = x.element

\* The list may lose clients, and the user's side may be ended with its client.
LEMMA TrackKept ==
    ASSUME NEW u, NEW x, NEW y, Alike(x, y), NEW e, NEW f, f.content = e.content,
           NEW l, NEW k, NEW g, NEW h, NEW o, NEW p, Track(u, x, e, l, g, o),
           y.statusClient = x.statusClient \/ (y.statusClient = "END_WORK" /\ <<u, 0>> \notin k),
           \A i \in {0, 1} : <<u, i>> \in k => /\ <<u, i>> \in l
                                               /\ h[<<u, i>>] = g[<<u, i>>]
                                               /\ p[<<u, i>>] = o[<<u, i>>]
    PROVE  Track(u, y, f, k, h, p)
<1>1. <<u, 0>> \in k => h[<<u, 0>>] = ReqHead \/ (dials[u] = 0 /\ Asking(u, y, h[<<u, 0>>]))
  BY DEF Track, Asking, Alike
<1>2. ASSUME <<u, 1>> \in k
      PROVE  \/ Forwarding(u, y, p[<<u, 1>>]) /\ h[<<u, 1>>] = 0
             \/ AwaitingHeading(u, y, h[<<u, 1>>])
             \/ Answering(u, y, f, h[<<u, 1>>])
             \/ Finished(y)
  <2> DEFINE n == h[<<u, 1>>]
  <2>1. /\ n = g[<<u, 1>>] /\ p[<<u, 1>>] = o[<<u, 1>>]
        /\ \/ Forwarding(u, x, o[<<u, 1>>]) /\ n = 0
           \/ AwaitingHeading(u, x, n)
           \/ Answering(u, x, e, n)
           \/ Finished(x)
    BY <1>2 DEF Track
  <2> HIDE DEF n
  <2>2. y.statusClient = x.statusClient \/ y.statusClient = "END_WORK"
    OBVIOUS
  <2>3. Forwarding(u, x, o[<<u, 1>>]) => Forwarding(u, y, p[<<u, 1>>])
    BY <2>1, <2>2 DEF Forwarding, Alike
  <2>4. AwaitingHeading(u, x, n) => AwaitingHeading(u, y, n)
    BY <2>2 DEF AwaitingHeading, Alike
  <2>5. Answering(u, x, e, n) => Answering(u, y, f, n)
    BY <2>2 DEF Answering, Alike
  <2>6. Finished(x) => Finished(y)
    BY <2>2 DEF Finished, Alike
  <2> QED
    BY <2>1, <2>3, <2>4, <2>5, <2>6 DEF n
<1> QED
  BY <1>1, <1>2 DEF Track

\* The scripts and the number of origins are all that Track reads of the state.
LEMMA TrackedNext ==
    ASSUME NEW u, request'[u] = request[u], response'[u] = response[u], dials'[u] = dials[u],
           Track(u, b'[u], elem'[u], ToSet(list'), got', out')
    PROVE  Tracked(u)'
<1>1. Track(u, b'[u], elem'[u], ToSet(list'), got', out') <=> Tracked(u)'
  BY DEF Tracked, Track, Asking, Forwarding, AwaitingHeading, Answering, Finished, FromUser,
         ResponseLength
<1> QED
  BY <1>1

\* A step of u's leaves the others' streams, buffers and answers alone.
LEMMA ContentsKeep ==
    ASSUME IInv, CInv, NEW u \in Users, Came(u), UNCHANGED script, PeersInv', live' \subseteq live,
           \A v \in Users : v # u =>
             b'[v] = b[v] /\ SameContent(elem'[v], elem[v]) /\ dials'[v] = dials[v],
           \A c \in Conns : c[1] # u => got'[c] = got[c] /\ out'[c] = out[c],
           \A c \in ToSet(list') : c[1] # u => c \in ToSet(list),
           KeysOk(elem', cash'), \A e \in ToSet(cash') : request[e].kind = "get",
           Owned(u, b'[u]), ~b'[u].readyConnect,
           \A k \in 1..MaxDials : k > dials'[u] => got'[<<u, k>>] = 0 /\ out'[<<u, k>>] = <<>>,
           Plain(u) => ContentOk(u, elem'[u]),
           u \in live' /\ Plain(u) => dials'[u] <= 1 /\ Tracked(u)'
    PROVE  CInv'
<1>1. /\ request' = request /\ response' = response /\ live \subseteq Users
      /\ ToSet(list) \subseteq Conns
  BY ListedConns DEF script, IInv, TypeOK
<1>2. \A v \in Users, k \in 0..MaxDials : <<v, k>> \in Conns /\ <<v, k>>[1] = v
  BY DEF Conns
<1>3. ScriptInv'
  <2>1. ASSUME NEW v \in Users, v # u
        PROVE  /\ Came(v)' => \E w \in Scripts : request'[v] = w[1] /\ response'[v] = w[2]
               /\ ~Came(v)' => /\ elem'[v].content = <<>> /\ ~elem'[v].ended
                               /\ got'[<<v, 0>>] = 0
               /\ \A k \in 1..MaxDials :
                    k > dials'[v] => got'[<<v, k>>] = 0 /\ out'[<<v, k>>] = <<>>
    <3>1. /\ Came(v) => \E w \in Scripts : request[v] = w[1] /\ response[v] = w[2]
          /\ ~Came(v) => /\ elem[v].content = <<>> /\ ~elem[v].ended
                         /\ got[<<v, 0>>] = 0
          /\ \A k \in 1..MaxDials : k > dials[v] => got[<<v, k>>] = 0 /\ out[<<v, k>>] = <<>>
      BY DEF CInv, ScriptInv
    <3>2. \A k \in 0..MaxDials : /\ got'[<<v, k>>] = got[<<v, k>>]
                                 /\ out'[<<v, k>>] = out[<<v, k>>]
      BY <1>2, <2>1
    <3>3. 0 \in 0..MaxDials /\ \A k \in 1..MaxDials : k \in 0..MaxDials
      OBVIOUS
    <3>4. Came(v)' <=> Came(v)
      BY <1>1 DEF Came
    <3>5. /\ elem'[v].content = elem[v].content /\ elem'[v].ended = elem[v].ended
          /\ dials'[v] = dials[v]
      BY <2>1 DEF SameContent
    <3> QED
      BY <1>1, <3>1, <3>2, <3>3, <3>4, <3>5
  <2>2. /\ Came(u)' /\ \E w \in Scripts : request'[u] = w[1] /\ response'[u] = w[2]
    BY <1>1 DEF CInv, ScriptInv, Came
  <2>3. \A k \in 1..MaxDials : k > dials'[u] => got'[<<u, k>>] = 0 /\ out'[<<u, k>>] = <<>>
    OBVIOUS
  <2> QED
    BY <2>1, <2>2, <2>3 DEF ScriptInv
<1>4. KeysInv'
  BY <1>1 DEF KeysInv, KeysOk
<1>5. OwnedInv'
  <2>1. \A v \in Users : v # u => Owned(v, b'[v]) /\ ~b'[v].readyConnect
    BY DEF CInv, OwnedInv
  <2> QED
    BY <1>1, <2>1 DEF OwnedInv, Owned
<1>6. \A v \in Users : Plain(v)' <=> Plain(v)
  BY <1>1 DEF Plain, Orderly
<1>7. ContentInv'
  <2>1. \A v \in Users : v # u /\ Plain(v) => ContentOk(v, elem'[v])
    BY DEF CInv, ContentInv, ContentOk, SameContent
  <2>2. \A v \in Users : Plain(v) => ContentOk(v, elem'[v])
    BY <2>1
  <2>3. \A v \in Users : ContentOk(v, elem'[v]) => ContentOk(v, elem[v])'
    BY <1>1 DEF ContentOk, IsWhole, ResponseLength
  <2> QED
    BY <1>6, <2>2, <2>3 DEF ContentInv
<1>8. TrackInv'
  <2>1. ASSUME NEW v \in live', v # u, Plain(v) PROVE dials'[v] <= 1 /\ Tracked(v)'
    <3>1. v \in Users /\ v \in live /\ b'[v] = b[v] /\ elem'[v].content = elem[v].content
      BY <1>1, <2>1 DEF SameContent
    <3>2. dials'[v] = dials[v] /\ dials[v] <= 1
          /\ Track(v, b[v], elem[v], ToSet(list), got, out)
      BY <2>1, <3>1 DEF CInv, TrackInv, Tracked
    <3>3. ASSUME NEW i \in {0, 1}, <<v, i>> \in ToSet(list')
          PROVE  /\ <<v, i>> \in ToSet(list) /\ got'[<<v, i>>] = got[<<v, i>>]
                 /\ out'[<<v, i>>] = out[<<v, i>>]
      <4>1. <<v, i>>[1] = v
        OBVIOUS
      <4>2. <<v, i>> \in ToSet(list)
        BY <2>1, <3>3, <4>1
      <4> QED
        BY <1>1, <2>1, <4>1, <4>2
    <3>4. Alike(b[v], b'[v])
      BY <3>1 DEF Alike
    <3>5. Track(v, b'[v], elem'[v], ToSet(list'), got', out')
      BY ONLY <3>1, <3>2, <3>3, <3>4, TrackKept
    <3>6. request'[v] = request[v] /\ response'[v] = response[v]
      BY <1>1
    <3> QED
      BY ONLY <3>2, <3>5, <3>6, TrackedNext
  <2> QED
    BY <1>1, <1>6, <2>1 DEF TrackInv
<1> QED
  BY <1>3, <1>4, <1>5, <1>7, <1>8 DEF CInv

\* A client that goes takes nothing of the content with it.
LEMMA ReleasedContent ==
    ASSUME NEW x, NEW ee, IsElements(ee)
    PROVE  \A v \in Users : SameContent(Released(x, ee)[v], ee[v])
<1> DEFINE e == x.element
<1>1. ASSUME NEW new, SameContent(new, ee[e]), NEW v \in Users
      PROVE  SameContent([ee EXCEPT ![e] = new][v], ee[v])
  <2>1. [ee EXCEPT ![e] = new][v] = IF v = e THEN new ELSE ee[v]
    BY DEF IsElements
  <2> QED
    BY <1>1, <2>1 DEF SameContent
<1>2. ASSUME NEW v \in Users PROVE SameContent(ee[v], ee[v])
  BY DEF SameContent
<1>3. e \in Users => /\ SameContent([ee[e] EXCEPT !.users = @ - 1], ee[e])
                     /\ SameContent([ee[e] EXCEPT !.connected = FALSE], ee[e])
  BY DEF SameContent, IsElements, IsElement
<1>4. e \notin Users => \A new : [ee EXCEPT ![e] = new] = ee
  BY DEF IsElements
<1> QED
  BY <1>1, <1>2, <1>3, <1>4 DEF Released

\* The client that is handled goes; x, s and read are what a read before it left.
LEMMA DeleteContents ==
    ASSUME IInv, CInv, Handling, Buf \in live, NEW x, NEW s, NEW read, ReadOk(Buf, x, s),
           ElementsAfter(Buf, x, s), StreamAfter(Buf, x, s, read), ~x.readyConnect,
           read \in [Conns -> Nat], \A d \in Conns : d # Current => read[d] = got[d],
           DeleteClient(x, s, read), UNCHANGED <<script, dials>>
    PROVE  CInv'
<1> PICK u \in Users : u = Buf
  BY CurrentFacts DEF Handling
<1> DEFINE c == Current
           rest == RemoveAt(list, it)
           y == IF IsUser(c) THEN [x EXCEPT !.statusClient = "END_WORK", !.clientConnect = FALSE]
                ELSE [x EXCEPT !.statusServer = "END_WORK", !.serverConnect = FALSE]
           last == ~y.serverConnect /\ ~y.clientConnect
           z == IF last THEN NewBuffer ELSE y
           gone == {d \in Conns : d[1] = u /\ d \notin ToSet(rest) /\ (IsUser(d) \/ last)}
<1>1. /\ it \in 1..Len(list) /\ c \in ToSet(list) /\ c \in Conns /\ u \in Users
      /\ c[2] \in 0..MaxDials /\ c = <<u, c[2]>> /\ c[1] = u
      /\ IsUser(c) <=> c = <<u, 0>>
  BY CurrentFacts DEF Handling, Buf
<1>2. /\ list' = rest
      /\ b' = [b EXCEPT ![u] = z] /\ live' = IF last THEN live \ {u} ELSE live
      /\ elem' = Released(x, s.elem) /\ cash' = s.cash
      /\ got' = [d \in Conns |-> IF d \in gone THEN 0 ELSE read[d]]
      /\ out' = [d \in Conns |-> IF d \in gone THEN <<>> ELSE out[d]]
  BY DEF DeleteClient
<1>3. IsBuffer(x) /\ IsElements(s.elem) /\ s.cash \in Seq(Users)
  BY DEF ReadOk
<1>4. /\ y.readyConnect = x.readyConnect /\ y.addData = x.addData /\ y.element = x.element
      /\ IsUser(c) => Alike(x, y) /\ y.statusClient = "END_WORK"
      /\ ~IsUser(c) => y.statusClient = x.statusClient /\ y.statusServer = "END_WORK"
      /\ ~IsUser(c) => y.buf = x.buf
  <2> HIDE DEF c
  <2> QED
    BY <1>3 DEF IsBuffer, BufferFields, Alike
<1> HIDE DEF y
<1>5. ToSet(rest) = ToSet(list) \ {c}
  <2>1. list \in Seq(Conns) /\ (\A i, j \in 1..Len(list) : list[i] = list[j] => i = j)
    BY DEF IInv, TypeOK, ListInv
  <2>2. DOMAIN list = 1..Len(list)
    BY <2>1
  <2>3. IsInjective(list)
    BY <2>1, <2>2 DEF IsInjective
  <2> HIDE DEF rest
  <2> QED
    BY <1>1, <2>1, <2>3, RemoveAtSet DEF rest, Current
<1> HIDE DEF c, rest, last
<1>6. b'[u] = z /\ \A v \in Users : v # u => b'[v] = b[v]
  <2>1. b = [v \in Users |-> b[v]]
    BY DEF IInv, TypeOK
  <2> HIDE DEF z
  <2> QED
    BY <1>1, <1>2, <2>1
<1>7. \A d \in Conns : d \notin gone => got'[d] = read[d] /\ out'[d] = out[d]
  BY <1>2
<1>8. \A d \in Conns : d[1] # u => got'[d] = got[d] /\ out'[d] = out[d]
  <2>1. \A d \in Conns : d[1] # u => d # c
    BY <1>1
  <2> QED
    BY <1>7, <2>1 DEF c
<1>9. PeersInv'
  <2>1. got' \in [Conns -> Nat]
    BY <1>2
  <2>2. out' = [d \in Conns |-> out'[d]]
    BY <1>2
  <2>3. response' = response
    BY DEF script
  <2> QED
    BY <2>1, <2>2, <2>3 DEF CInv, PeersInv
<1>10. Came(u) /\ u \in live
  BY <1>1 DEF IInv, ComingInv
<1>11. \A v \in Users : SameContent(elem'[v], s.elem[v])
  BY <1>2, <1>3, ReleasedContent
<1>12. \A v \in Users : v # u => SameContent(elem'[v], elem[v]) /\ dials'[v] = dials[v]
  BY <1>11 DEF ElementsAfter, SameContent
<1>13. KeysOk(elem', cash') /\ \A e \in ToSet(cash') : request[e].kind = "get"
  <2>1. KeysOk(s.elem, s.cash) /\ \A e \in ToSet(s.cash) : request[e].kind = "get"
    BY DEF ElementsAfter
  <2>2. \A e \in ToSet(s.cash) : elem'[e].head = s.elem[e].head
    BY <1>3, <1>11, OwnEntries DEF SameContent
  <2> QED
    BY <1>2, <1>3, <2>1, <2>2, KeysSame
<1>14. Owned(u, b'[u]) /\ ~b'[u].readyConnect
  <2>1. Owned(u, y)
    <3>1. Owned(u, x)
      BY DEF ElementsAfter
    <3>2. y.statusClient # "WRITE_REQUEST_HEADING" \/ y.statusClient = x.statusClient
      BY <1>4
    <3> QED
      BY <1>4, <3>1, <3>2 DEF Owned
  <2>2. ~NewBuffer.addData /\ ~NewBuffer.readyConnect
    BY DEF NewBuffer
  <2> QED
    BY <1>4, <1>6, <2>1, <2>2 DEF Owned
<1>15. ASSUME NEW k \in 1..MaxDials, k > dials'[u]
       PROVE  got'[<<u, k>>] = 0 /\ out'[<<u, k>>] = <<>>
  <2>1. k > dials[u] /\ <<u, k>> \in Conns
    BY <1>1, <1>15 DEF Conns
  <2>2. got[<<u, k>>] = 0 /\ out[<<u, k>>] = <<>>
    BY <1>1, <2>1 DEF CInv, ScriptInv
  <2>3. c # <<u, k>>
    <3>1. c[2] <= dials[u]
      BY <1>1 DEF IInv, ListInv
    <3>2. dials[u] \in Nat
      BY <1>1 DEF IInv, TypeOK
    <3> QED
      BY <1>1, <2>1, <3>1, <3>2
  <2>4. read[<<u, k>>] = 0
    BY <2>1, <2>2, <2>3 DEF c
  <2> QED
    BY <1>2, <2>1, <2>2, <2>4
<1>16. Plain(u) => ContentOk(u, elem'[u])
  <2>1. Plain(u) => ContentOk(u, s.elem[u])
    BY DEF StreamAfter
  <2> QED
    BY <1>1, <1>11, <2>1 DEF ContentOk, SameContent
<1>17. ASSUME u \in live', Plain(u) PROVE dials'[u] <= 1 /\ Tracked(u)'
  <2>1. ~last /\ b'[u] = y
    BY <1>2, <1>6, <1>17
  <2>2. dials'[u] = dials[u] /\ dials[u] <= 1
    BY <1>10, <1>17 DEF CInv, TrackInv
  <2>3. Track(u, x, s.elem[u], ToSet(list), read, out)
    BY <1>17 DEF StreamAfter
  <2>4. elem'[u].content = s.elem[u].content
    BY <1>1, <1>11 DEF SameContent
  <2>5. \A d \in ToSet(list') : /\ d \in ToSet(list) /\ d # c
                                /\ got'[d] = read[d] /\ out'[d] = out[d]
    <3>1. \A d \in ToSet(list') : d \in ToSet(list) /\ d # c /\ d \in ToSet(rest) /\ d \in Conns
      BY <1>2, <1>5, ListedConns
    <3> QED
      BY <1>7, <3>1
  <2>6. Track(u, y, elem'[u], ToSet(list'), got', out')
    <3>1. CASE IsUser(c)
      <4>1. <<u, 0>> \notin ToSet(list')
        BY <1>1, <2>5, <3>1
      <4>2. Alike(x, y) /\ y.statusClient = "END_WORK"
        BY <1>4, <3>1
      <4>3. \A i \in {0, 1} : <<u, i>> \in ToSet(list') =>
                /\ <<u, i>> \in ToSet(list)
                /\ got'[<<u, i>>] = read[<<u, i>>]
                /\ out'[<<u, i>>] = out[<<u, i>>]
        BY <2>5
      <4> QED
        BY ONLY <2>3, <2>4, <4>1, <4>2, <4>3, TrackKept
    <3>2. CASE ~IsUser(c)
      <4>1. c[2] <= dials[u] /\ dials[u] \in Nat
        BY <1>1 DEF IInv, ListInv, TypeOK
      <4>2. c = <<u, 1>> /\ dials[u] # 0
        BY <1>1, <2>2, <3>2, <4>1
      <4>3. <<u, 1>> \notin ToSet(list')
        BY <2>5, <4>2
      <4>4. <<u, 0>> \in ToSet(list') => got'[<<u, 0>>] = ReqHead
        BY <2>3, <2>5, <4>2 DEF Track
      <4> QED
        BY <4>3, <4>4 DEF Track
    <3> QED
      BY <3>1, <3>2
  <2>7. request'[u] = request[u] /\ response'[u] = response[u]
    BY DEF script
  <2>8. Track(u, b'[u], elem'[u], ToSet(list'), got', out')
    BY <2>1, <2>6
  <2>9. Tracked(u)'
    BY ONLY <2>2, <2>7, <2>8, TrackedNext
  <2> QED
    BY <2>2, <2>9
<1>18. \A d \in ToSet(list') : d[1] # u => d \in ToSet(list)
  BY <1>2, <1>5
<1>19. live' \subseteq live
  BY <1>2
<1> HIDE DEF z, gone
<1>20. \A v \in Users : v # u =>
         b'[v] = b[v] /\ SameContent(elem'[v], elem[v]) /\ dials'[v] = dials[v]
  BY <1>6, <1>12
<1>21. u \in Users /\ UNCHANGED script
  BY <1>1
<1> QED
  BY ONLY IInv, CInv, <1>8, <1>9, <1>10, <1>13, <1>14, <1>15, <1>16, <1>17, <1>18, <1>19, <1>20, <1>21,
     ContentsKeep

LEMMA TakenFacts ==
    ASSUME IInv, CInv, NEW n \in Nat, Handling
    PROVE  /\ Taken(n) \in [Conns -> Nat]
           /\ \A d \in Conns : d # Current => Taken(n)[d] = got[d]
<1>1. got \in [Conns -> Nat] /\ Current \in Conns
  BY CurrentFacts DEF CInv, PeersInv, Handling
<1> QED
  BY <1>1 DEF Taken

\* What was read or written so far is nothing where there was no origin yet.
LEMMA NoOrigin ==
    ASSUME IInv, CInv, Handling, NEW k \in 1..MaxDials, k > dials[Buf]
    PROVE  /\ <<Buf, k>> \in Conns /\ <<Buf, k>> # Current
           /\ got[<<Buf, k>>] = 0 /\ out[<<Buf, k>>] = <<>>
<1>1. /\ Current \in ToSet(list) /\ Buf \in Users
      /\ Current = <<Buf, Current[2]>> /\ Current[1] = Buf
  BY CurrentFacts DEF Handling, Buf
<1>2. Current[2] <= dials[Buf] /\ dials[Buf] \in Nat
  BY <1>1 DEF IInv, ListInv, TypeOK
<1>3. <<Buf, k>> # Current
  <2>1. k # Current[2]
    BY <1>2
  <2> QED
    BY <1>1, <2>1
<1>4. <<Buf, k>> \in Conns
  BY <1>1 DEF Conns
<1>5. got[<<Buf, k>>] = 0 /\ out[<<Buf, k>>] = <<>>
  BY <1>1 DEF CInv, ScriptInv
<1> QED
  BY <1>3, <1>4, <1>5

LEMMA ReadContents == IInv /\ CInv /\ Read => CInv'
<1> SUFFICES ASSUME IInv, CInv, Read PROVE CInv'
  OBVIOUS
<1>1. PICK n \in 1..BufMax :
        /\ Reads(n) /\ ~Result(n).x.readyConnect /\ got' = Taken(n)
        /\ b' = [b EXCEPT ![Buf] = Result(n).x]
        /\ elem' = Result(n).s.elem /\ cash' = Result(n).s.cash
  BY DEF Read
<1>2. n \in Nat \ {0}
  OBVIOUS
<1>3. UNCHANGED <<list, live, script, dials, out>> /\ Handling /\ Buf \in live /\ Buf \in Users
  BY <1>1, CurrentFacts DEF Read, Reads, Alive, Handling
<1> PICK u \in Users : u = Buf
  BY <1>3
<1> DEFINE x == Result(n).x
           s == Result(n).s
<1>4. ElementsAfter(u, x, s) /\ StreamAfter(u, x, s, Taken(n))
  BY <1>1, <1>2, CurrentRead
<1>5. /\ got' \in [Conns -> Nat] /\ \A d \in Conns : d # Current => got'[d] = got[d]
  BY <1>1, <1>2, <1>3, TakenFacts
<1>6. b'[u] = x /\ \A v \in Users : v # u => b'[v] = b[v]
  BY <1>1 DEF IInv, TypeOK
<1> HIDE DEF x, s
<1>7. elem' = s.elem /\ cash' = s.cash
  BY <1>1 DEF s
<1>8. PeersInv'
  BY <1>3, <1>5 DEF CInv, PeersInv, script
<1>9. \A v \in Users : v # u =>
        b'[v] = b[v] /\ SameContent(elem'[v], elem[v]) /\ dials'[v] = dials[v]
  BY <1>3, <1>4, <1>6, <1>7 DEF ElementsAfter
<1>10. \A c \in Conns : c[1] # u => got'[c] = got[c] /\ out'[c] = out[c]
  BY <1>3, <1>5 DEF Buf
<1>11. /\ KeysOk(elem', cash') /\ \A e \in ToSet(cash') : request[e].kind = "get"
       /\ Owned(u, b'[u]) /\ ~b'[u].readyConnect
  BY <1>1, <1>4, <1>6, <1>7 DEF ElementsAfter, x
<1>12. ASSUME NEW k \in 1..MaxDials, k > dials'[u]
       PROVE  got'[<<u, k>>] = 0 /\ out'[<<u, k>>] = <<>>
  <2>1. k > dials[Buf]
    BY <1>3, <1>12
  <2> QED
    BY <1>3, <1>5, <2>1, NoOrigin
<1>13. Plain(u) => ContentOk(u, elem'[u])
  BY <1>4, <1>7 DEF StreamAfter
<1>14. u \in live' /\ Plain(u) => dials'[u] <= 1 /\ Tracked(u)'
  <2> SUFFICES ASSUME Plain(u) PROVE dials'[u] <= 1 /\ Tracked(u)'
    OBVIOUS
  <2>1. dials'[u] = dials[u] /\ dials[u] <= 1
    BY <1>3 DEF CInv, TrackInv
  <2>2. Track(u, b'[u], elem'[u], ToSet(list'), got', out')
    BY <1>1, <1>3, <1>4, <1>6, <1>7 DEF StreamAfter
  <2>3. request'[u] = request[u] /\ response'[u] = response[u]
    BY <1>3 DEF script
  <2>4. Tracked(u)'
    BY ONLY <2>1, <2>2, <2>3, TrackedNext
  <2> QED
    BY <2>1, <2>4
<1>15. /\ u \in Users /\ Came(u) /\ UNCHANGED script /\ live' \subseteq live
       /\ \A c \in ToSet(list') : c[1] # u => c \in ToSet(list)
  BY <1>3 DEF IInv, ComingInv
<1> QED
  BY ONLY IInv, CInv, <1>8, <1>9, <1>10, <1>11, <1>12, <1>13, <1>14, <1>15, ContentsKeep

LEMMA HereContents ==
    ASSUME IInv, CInv, Handling, Buf \in live
    PROVE  /\ ReadOk(Buf, b[Buf], Here) /\ ElementsAfter(Buf, b[Buf], Here)
           /\ StreamAfter(Buf, b[Buf], Here, got) /\ ~b[Buf].readyConnect
           /\ got \in [Conns -> Nat]
<1>1. Buf \in Users /\ IsBuffer(b[Buf]) /\ StatusOk(b[Buf])
  BY DEF IInv, TypeOK, StatusInv
<1>2. ReadOk(Buf, b[Buf], Here)
  BY <1>1, QuietRead, HereFacts
<1>3. Owned(Buf, b[Buf]) /\ ~b[Buf].readyConnect
  BY <1>1 DEF CInv, OwnedInv
<1>4. ElementsAfter(Buf, b[Buf], Here)
  BY <1>3, QuietElements
<1>5. StreamAfter(Buf, b[Buf], Here, got)
  BY <1>1, HereFacts DEF StreamAfter, CInv, ContentInv, TrackInv, Tracked
<1> QED
  BY <1>2, <1>3, <1>4, <1>5 DEF CInv, PeersInv

LEMMA HangUpContents == IInv /\ CInv /\ (HangUp \/ Collect) => CInv'
<1> SUFFICES ASSUME IInv, CInv, HangUp \/ Collect PROVE CInv'
  OBVIOUS
<1>1. /\ Handling /\ Buf \in live /\ DeleteClient(b[Buf], Here, got)
      /\ UNCHANGED <<script, dials>>
  BY DEF HangUp, Collect, Alive
<1> QED
  BY <1>1, HereContents, DeleteContents

\* The flag that asks for an origin is taken back.
LEMMA ConnectFailsContents == IInv /\ CInv /\ ConnectFails => CInv'
<1> SUFFICES ASSUME IInv, CInv, ConnectFails PROVE CInv'
  OBVIOUS
<1>1. PICK n \in 1..BufMax :
        /\ Reads(n)
        /\ DeleteClient([Result(n).x EXCEPT !.readyConnect = FALSE], Result(n).s, Taken(n))
  BY DEF ConnectFails
<1>2. /\ Handling /\ Buf \in live /\ n \in Nat \ {0} /\ n \in Nat
      /\ UNCHANGED <<knock, script, dials>>
  BY <1>1 DEF Reads, Alive, ConnectFails
<1> DEFINE x == Result(n).x
           s == Result(n).s
           y == [x EXCEPT !.readyConnect = FALSE]
<1>3. ReadOk(Buf, x, s)
  BY <1>2, ReadKeeps DEF Result
<1>4. ElementsAfter(Buf, x, s) /\ StreamAfter(Buf, x, s, Taken(n))
  BY <1>1, <1>2, CurrentRead
<1>5. DeleteClient(y, s, Taken(n))
  BY <1>1
<1> HIDE DEF x, s
<1>6. /\ IsBuffer(y) /\ y.statusClient = x.statusClient /\ y.statusServer = x.statusServer
      /\ y.clientConnect = x.clientConnect /\ y.serverConnect = x.serverConnect
      /\ y.getCash = x.getCash /\ y.element = x.element /\ ~y.readyConnect /\ Alike(x, y)
  BY <1>3 DEF ReadOk, IsBuffer, BufferFields, Alike
<1> HIDE DEF y
<1>7. ReadOk(Buf, y, s)
  <2>1. /\ StatusOk(y) /\ ElementsOk([b EXCEPT ![Buf] = y], s.cash)
        /\ Counted([b EXCEPT ![Buf] = y], list, s.elem)
    BY <1>2, <1>3, <1>6, DialledRead
  <2> QED
    BY <1>3, <1>6, <2>1 DEF ReadOk
<1>8. ElementsAfter(Buf, y, s)
  BY <1>4, <1>6 DEF ElementsAfter, Owned, Alike
<1>9. StreamAfter(Buf, y, s, Taken(n))
  <2>1. ASSUME Plain(Buf) PROVE Track(Buf, y, s.elem[Buf], ToSet(list), Taken(n), out)
    <3>1. Track(Buf, x, s.elem[Buf], ToSet(list), Taken(n), out)
      BY <1>4, <2>1 DEF StreamAfter
    <3> DEFINE e == s.elem[Buf]
               l == ToSet(list)
               g == Taken(n)
    <3>2. \A i \in {0, 1} : <<Buf, i>> \in l => /\ <<Buf, i>> \in l
                                                /\ g[<<Buf, i>>] = g[<<Buf, i>>]
                                                /\ out[<<Buf, i>>] = out[<<Buf, i>>]
      OBVIOUS
    <3>3. e.content = e.content
      OBVIOUS
    <3> HIDE DEF e, l, g
    <3>4. Track(Buf, y, e, l, g, out)
      BY ONLY <1>6, <3>1, <3>2, <3>3, TrackKept DEF e, l, g
    <3> QED
      BY <3>4 DEF e, l, g
  <2> QED
    BY <1>4, <2>1 DEF StreamAfter
<1>10. Taken(n) \in [Conns -> Nat] /\ \A d \in Conns : d # Current => Taken(n)[d] = got[d]
  BY <1>2, TakenFacts
<1> QED
  BY <1>2, <1>5, <1>6, <1>7, <1>8, <1>9, <1>10, DeleteContents

\* The origin is dialled with the whole heading in the buffer, and none before.
LEMMA ConnectContents == IInv /\ CInv /\ Connect => CInv'
<1> SUFFICES ASSUME IInv, CInv, Connect PROVE CInv'
  OBVIOUS
<1>1. PICK n \in 1..BufMax :
        /\ Reads(n) /\ Result(n).x.readyConnect /\ got' = Taken(n)
        /\ b' = [b EXCEPT ![Buf] = Dialled(Result(n).x)]
        /\ elem' = Result(n).s.elem /\ cash' = Result(n).s.cash
  BY DEF Connect
<1>2. n \in Nat \ {0}
  OBVIOUS
<1>3. /\ UNCHANGED <<live, script, out>> /\ Handling /\ Buf \in live /\ Buf \in Users
      /\ dials' = [dials EXCEPT ![Buf] = @ + 1] /\ dials[Buf] < MaxDials
      /\ list' = Append(list, <<Buf, dials[Buf] + 1>>)
  BY <1>1, CurrentFacts DEF Connect, ConnectToClient, Reads, Alive, Handling
<1> PICK u \in Users : u = Buf
  BY <1>3
<1> DEFINE x == Result(n).x
           s == Result(n).s
           y == Dialled(x)
<1>4. ElementsAfter(u, x, s) /\ StreamAfter(u, x, s, Taken(n))
  BY <1>1, <1>2, CurrentRead
<1>5. Plain(u) => /\ dials[u] = 0 /\ Current = <<u, 0>>
                  /\ Taken(n)[Current] = ReqHead /\ Forwarding(u, x, <<>>)
  BY <1>1, <1>2, CurrentRead
<1>6. /\ got' \in [Conns -> Nat] /\ \A d \in Conns : d # Current => got'[d] = got[d]
  BY <1>1, <1>2, <1>3, TakenFacts
<1>7. b'[u] = y /\ \A v \in Users : v # u => b'[v] = b[v]
  BY <1>1 DEF IInv, TypeOK
<1>8. ReadOk(u, x, s)
  BY <1>3, ReadKeeps DEF Result
<1>9. elem' = s.elem /\ cash' = s.cash
  BY <1>1
<1> HIDE DEF x, s
<1>10. /\ Alike(x, y) /\ y.statusClient = x.statusClient /\ ~y.readyConnect
  BY <1>8 DEF ReadOk, IsBuffer, BufferFields, Alike, Dialled
<1> HIDE DEF y
<1>11. PeersInv'
  BY <1>3, <1>6 DEF CInv, PeersInv, script
<1>12. /\ dials'[u] = dials[u] + 1 /\ dials[u] \in Nat
       /\ \A v \in Users : v # u => dials'[v] = dials[v]
  BY <1>3 DEF IInv, TypeOK
<1>13. \A v \in Users : v # u =>
         b'[v] = b[v] /\ SameContent(elem'[v], elem[v]) /\ dials'[v] = dials[v]
  BY <1>4, <1>7, <1>9, <1>12 DEF ElementsAfter
<1>14. \A c \in Conns : c[1] # u => got'[c] = got[c] /\ out'[c] = out[c]
  BY <1>3, <1>6 DEF Buf
<1>15. /\ KeysOk(elem', cash') /\ \A e \in ToSet(cash') : request[e].kind = "get"
       /\ Owned(u, b'[u]) /\ ~b'[u].readyConnect
  <2>1. KeysOk(s.elem, s.cash) /\ (\A e \in ToSet(s.cash) : request[e].kind = "get") /\ Owned(u, x)
    BY <1>4 DEF ElementsAfter
  <2>2. Owned(u, y)
    BY <1>10, <2>1 DEF Owned, Alike
  <2> QED
    BY <1>7, <1>9, <1>10, <2>1, <2>2
<1>16. ASSUME NEW k \in 1..MaxDials, k > dials[u]
       PROVE  got'[<<u, k>>] = 0 /\ out'[<<u, k>>] = <<>>
  BY <1>3, <1>6, <1>16, NoOrigin
<1>17. \A k \in 1..MaxDials : k > dials'[u] => got'[<<u, k>>] = 0 /\ out'[<<u, k>>] = <<>>
  BY <1>12, <1>16
<1>18. Plain(u) => ContentOk(u, elem'[u])
  BY <1>4, <1>9 DEF StreamAfter
<1>19. u \in live' /\ Plain(u) => dials'[u] <= 1 /\ Tracked(u)'
  <2> SUFFICES ASSUME Plain(u) PROVE dials'[u] <= 1 /\ Tracked(u)'
    OBVIOUS
  <2>1. /\ dials[u] = 0 /\ dials'[u] = 1 /\ 1 \in 1..MaxDials
        /\ got'[<<u, 0>>] = ReqHead /\ Forwarding(u, x, <<>>)
    <3>1. dials[u] = 0 /\ dials'[u] = 1
      BY <1>5, <1>12
    <3>2. 1 \in 1..MaxDials
      BY <1>3, <3>1
    <3>3. got'[<<u, 0>>] = ReqHead /\ Forwarding(u, x, <<>>)
      BY <1>1, <1>5
    <3> QED
      BY <3>1, <3>2, <3>3
  <2>2. got'[<<u, 1>>] = 0 /\ out'[<<u, 1>>] = <<>>
    BY <1>16, <2>1
  <2>3. Forwarding(u, y, <<>>)
    BY <1>10, <2>1 DEF Forwarding, Alike
  <2>4. request'[u] = request[u]
    BY <1>3 DEF script
  <2>5. /\ y.statusServer = "READ_REQUEST"
        /\ y.statusClient \in {"WRITE_REQUEST_HEADING", "END_WORK"}
        /\ ~y.addData /\ ~y.getCash /\ y.endSend
        /\ y.buf = FromUser(u, ReqHead)'
    BY <2>3, <2>4 DEF Forwarding, FromUser
  <2>6. Forwarding(u, b[u], out[<<u, 1>>])'
    BY <1>7, <2>2, <2>5 DEF Forwarding
  <2>7. Tracked(u)'
    BY <2>1, <2>2, <2>6 DEF Tracked, Track
  <2> QED
    BY <2>1, <2>7
<1>20. /\ u \in Users /\ Came(u) /\ UNCHANGED script /\ live' \subseteq live
  BY <1>3 DEF IInv, ComingInv
<1>21. \A c \in ToSet(list') : c[1] # u => c \in ToSet(list)
  <2>1. list \in Seq(Conns)
    BY DEF IInv, TypeOK
  <2>2. ToSet(list') = ToSet(list) \cup {<<u, dials[u] + 1>>}
    BY <1>3, <2>1, AppendSet
  <2>3. <<u, dials[u] + 1>>[1] = u
    OBVIOUS
  <2> QED
    BY <2>2, <2>3
<1> QED
  BY ONLY IInv, CInv, <1>11, <1>13, <1>14, <1>15, <1>17, <1>18, <1>19, <1>20, <1>21, ContentsKeep

\* What a send does to the parts that are followed.
LEMMA SentFields ==
    ASSUME NEW x, IsBuffer(x), ~x.getCash, NEW n
    PROVE  LET y == ProofSend(x, n)
               rest == SubSeq(x.buf, n + 1, Len(x.buf))
           IN  /\ y.buf = rest /\ y.addData = x.addData /\ y.haveLength = x.haveLength
               /\ y.lengthBody = x.lengthBody /\ y.readyConnect = x.readyConnect
               /\ y.element = x.element
               /\ x.statusServer = "READ_REQUEST" /\ x.statusClient # "READ_RESPONSE"
                    /\ rest = <<>> /\ x.endSend
                  => /\ y.statusClient = "READ_RESPONSE"
                     /\ y.statusServer = "WRITE_RESPONSE_HEADING" /\ ~y.ready
               /\ x.statusClient = "READ_RESPONSE" /\ x.statusServer # "READ_REQUEST"
                  => /\ y.statusClient \in {"READ_RESPONSE", "END_WORK"}
                     /\ \/ y.statusServer = x.statusServer
                        \/ y.statusServer = "END_WORK"
               /\ y.statusClient \in {x.statusClient, "READ_RESPONSE", "END_WORK"}
<1> DEFINE rest == SubSeq(x.buf, n + 1, Len(x.buf))
           y == ProofSend(x, n)
<1> HIDE DEF rest
<1>1. y = IF rest # <<>> THEN [x EXCEPT !.buf = rest]
          ELSE IF ~x.endSend THEN [x EXCEPT !.buf = rest, !.ready = FALSE]
          ELSE IF x.statusClient = "READ_RESPONSE" /\ x.error
            THEN [x EXCEPT !.buf = rest, !.statusClient = "END_WORK"]
          ELSE IF x.statusServer = "READ_REQUEST"
            THEN [x EXCEPT !.buf = rest, !.ready = FALSE, !.endSend = FALSE,
                           !.statusClient = "READ_RESPONSE",
                           !.statusServer = "WRITE_RESPONSE_HEADING"]
          ELSE IF x.statusClient = "READ_RESPONSE"
            THEN [x EXCEPT !.buf = rest, !.ready = FALSE, !.endSend = FALSE,
                           !.statusClient = "END_WORK", !.statusServer = "END_WORK"]
          ELSE [x EXCEPT !.buf = rest, !.ready = FALSE, !.endSend = FALSE]
  BY DEF ProofSend, IsBuffer, BufferFields, rest
<1> HIDE DEF y
<1>2. /\ y.buf = rest /\ y.addData = x.addData /\ y.haveLength = x.haveLength
      /\ y.lengthBody = x.lengthBody /\ y.readyConnect = x.readyConnect
      /\ y.element = x.element
  BY <1>1 DEF IsBuffer, BufferFields
<1>3. x.statusServer = "READ_REQUEST" /\ x.statusClient # "READ_RESPONSE" /\ rest = <<>> /\ x.endSend
        => /\ y.statusClient = "READ_RESPONSE"
           /\ y.statusServer = "WRITE_RESPONSE_HEADING" /\ ~y.ready
  BY <1>1 DEF IsBuffer, BufferFields
<1>4. x.statusClient = "READ_RESPONSE" /\ x.statusServer # "READ_REQUEST"
        => /\ y.statusClient \in {"READ_RESPONSE", "END_WORK"}
           /\ y.statusServer = x.statusServer \/ y.statusServer = "END_WORK"
  BY <1>1 DEF IsBuffer, BufferFields
<1>5. y.statusClient \in {x.statusClient, "READ_RESPONSE", "END_WORK"}
  BY <1>1 DEF IsBuffer, BufferFields
<1> QED
  BY <1>2, <1>3, <1>4, <1>5 DEF rest, y

LEMMA SentRest ==
    ASSUME NEW S, NEW s \in Seq(S), NEW n \in Nat
    PROVE  SubSeq(s, n + 1, Len(s)) \in Seq(S)
<1>1. Len(s) \in Nat /\ \A i \in 1..Len(s) : s[i] \in S
  OBVIOUS
<1>2. \A i \in (n + 1)..Len(s) : s[i] \in S
  BY <1>1
<1> QED
  BY <1>1, <1>2

\* One write takes the whole heading.
LEMMA HeadingSent ==
    ASSUME NEW u, ReqHead <= BufMax, NEW x, x.buf = FromUser(u, ReqHead), ~x.getCash
    PROVE  Len(SendBuf(x)) = ReqHead /\ SubSeq(x.buf, ReqHead + 1, Len(x.buf)) = <<>>
<1>1. x.buf \in Seq({<<"user", request[u].key, i>> : i \in 1..ReqHead}) /\ Len(x.buf) = ReqHead
  BY DEF FromUser
<1>2. Least(ReqHead, BufMax) = ReqHead /\ ReqHead \in Nat
  BY DEF Least
<1>3. SendBuf(x) = SubSeq(x.buf, 1, ReqHead)
  BY <1>1, <1>2 DEF SendBuf
<1> QED
  BY <1>1, <1>2, <1>3

LEMMA SentLength ==
    ASSUME NEW S, NEW x, x.buf \in Seq(S), ~x.getCash
    PROVE  Len(SendBuf(x)) \in Nat
<1> DEFINE m == Least(Len(x.buf), BufMax)
<1>1. SendBuf(x) = SubSeq(x.buf, 1, m)
  BY DEF SendBuf
<1>2. m \in Nat /\ m <= Len(x.buf)
  BY DEF Least
<1> HIDE DEF m
<1>3. SubSeq(x.buf, 1, m) \in Seq(S)
  <2>1. \A i \in 1..m : x.buf[i] \in S
    BY <1>2
  <2> QED
    BY <1>2, <2>1
<1> QED
  BY <1>1, <1>3

\* A send of the followed: the heading goes in one piece, the answer bit by bit.
LEMMA SentTrack ==
    ASSUME IInv, CInv, Sends, Plain(Buf)
    PROVE  Track(Buf, ProofSend(b[Buf], Len(SendBuf(b[Buf]))), elem[Buf], ToSet(list), got,
                 [out EXCEPT ![Current] = @ \o SendBuf(b[Buf])])
<1> DEFINE u == Buf
           c == Current
           x == b[u]
           n == Len(SendBuf(x))
           y == ProofSend(x, n)
           o == [out EXCEPT ![c] = @ \o SendBuf(x)]
<1>1. /\ c \in ToSet(list) /\ c \in Conns /\ u \in Users /\ u \in live
      /\ c[2] \in 0..MaxDials /\ c = <<u, c[2]>>
      /\ IsUser(c) <=> c = <<u, 0>>
  BY CurrentFacts DEF Sends, Alive, Handling
<1>2. /\ IsBuffer(x) /\ StatusOk(x)
      /\ IsReadyToSend(x)
      /\ IsUser(c) => x.statusClient = "READ_RESPONSE"
      /\ ~IsUser(c) => x.statusServer = "READ_REQUEST"
  BY <1>1 DEF IInv, TypeOK, StatusInv, Sends, MaySend
<1>3. /\ Track(u, x, elem[u], ToSet(list), got, out)
      /\ dials[u] <= 1
  BY <1>1 DEF CInv, TrackInv, Tracked
<1>4. c[2] <= dials[u] /\ dials[u] \in Nat
  <2>1. \A d \in ToSet(list) : d[2] <= dials[d[1]]
    BY DEF IInv, ListInv
  <2>2. dials \in [Users -> 0..MaxDials] /\ MaxDials \in Nat
    BY DEF IInv, TypeOK
  <2>3. c[2] <= dials[u]
    BY <1>1, <2>1
  <2> QED
    BY <1>1, <2>2, <2>3
<1>5. ReqHead <= BufMax
  <2>1. PICK w \in Scripts : request[u] = w[1]
    BY <1>1, PlainFacts DEF CInv, ScriptInv
  <2>2. ReqHead + request[u].extra <= BufMax /\ request[u].extra = 0
    BY <1>1, <2>1, PlainFacts
  <2> QED
    BY <2>2
<1> HIDE DEF c, x, u
<1>6. c = <<u, 0>> \/ (c = <<u, 1>> /\ dials[u] = 1)
  BY <1>1, <1>3, <1>4
<1>7. <<u, 0>> \in ToSet(list) => got[<<u, 0>>] = ReqHead
  BY <1>1, <1>2, <1>3, <1>6 DEF Track, Asking
<1>8. ASSUME <<u, 1>> \in ToSet(list)
      PROVE  \/ AwaitingHeading(u, y, got[<<u, 1>>])
             \/ Answering(u, y, elem[u], got[<<u, 1>>])
             \/ Finished(y)
  <2> DEFINE m == got[<<u, 1>>]
  <2>1. CASE Forwarding(u, x, out[<<u, 1>>]) /\ m = 0
    <3>1. ~x.getCash /\ x.buf = FromUser(u, ReqHead)
      BY <2>1 DEF Forwarding
    <3>2. n = ReqHead /\ SubSeq(x.buf, n + 1, Len(x.buf)) = <<>>
      BY <1>5, <3>1, HeadingSent
    <3> HIDE DEF n
    <3>3. /\ y.buf = <<>> /\ ~y.addData
          /\ y.statusClient = "READ_RESPONSE"
          /\ y.statusServer = "WRITE_RESPONSE_HEADING" /\ ~y.ready
      <4>1. /\ x.statusServer = "READ_REQUEST" /\ x.statusClient # "READ_RESPONSE"
            /\ x.endSend /\ ~x.addData
        BY <2>1 DEF Forwarding
      <4>2. IsBuffer(x) /\ ~x.getCash
        BY <1>2, <3>1
      <4>3. /\ y.buf = SubSeq(x.buf, n + 1, Len(x.buf)) /\ y.addData = x.addData
            /\ x.statusServer = "READ_REQUEST" /\ x.statusClient # "READ_RESPONSE"
                 /\ SubSeq(x.buf, n + 1, Len(x.buf)) = <<>> /\ x.endSend
               => /\ y.statusClient = "READ_RESPONSE"
                  /\ y.statusServer = "WRITE_RESPONSE_HEADING" /\ ~y.ready
        BY ONLY <4>2, SentFields
      <4> HIDE DEF y
      <4> QED
        BY ONLY <3>2, <4>1, <4>3
    <3>4. AwaitingHeading(u, y, 0)
      <4>1. y.buf = FromOrigin(u, 0)
        BY <3>3 DEF FromOrigin
      <4> QED
        BY <3>3, <4>1 DEF AwaitingHeading
    <3> QED
      BY <2>1, <3>4 DEF n
  <2>2. CASE AwaitingHeading(u, x, m)
    BY <1>2, <2>2 DEF AwaitingHeading, IsReadyToSend, StatusOk
  <2>3. CASE Answering(u, x, elem[u], m)
    <3>1. /\ ~x.getCash /\ x.statusServer = "WRITE_RESPONSE_BODY"
          /\ x.statusClient = "READ_RESPONSE"
      BY <1>1, <1>2, <2>3 DEF Answering, StatusOk
    <3>2. x.buf \in Seq(Seen(u, m))
      BY <2>3 DEF Answering
    <3>3. n \in Nat
      BY <3>1, <3>2, SentLength
    <3> HIDE DEF n
    <3>4. SubSeq(x.buf, n + 1, Len(x.buf)) \in Seq(Seen(u, m))
      BY <3>2, <3>3, SentRest
    <3>5. /\ y.buf = SubSeq(x.buf, n + 1, Len(x.buf))
          /\ y.addData = x.addData /\ y.haveLength = x.haveLength
          /\ y.lengthBody = x.lengthBody
          /\ y.statusClient \in {"READ_RESPONSE", "END_WORK"}
          /\ y.statusServer = x.statusServer \/ y.statusServer = "END_WORK"
      BY ONLY <1>2, <3>1, SentFields
    <3> HIDE DEF y
    <3>6. y.statusServer = "END_WORK" => Finished(y)
      BY <3>5 DEF Finished
    <3>7. y.statusServer = x.statusServer => Answering(u, y, elem[u], m)
      BY <2>3, <3>1, <3>4, <3>5 DEF Answering
    <3> QED
      BY <3>5, <3>6, <3>7 DEF y, n
  <2>4. CASE Finished(x)
    <3>1. x.statusServer = "END_WORK" /\ x.statusClient = "READ_RESPONSE"
      BY <1>1, <1>2, <2>4 DEF Finished
    <3> HIDE DEF n
    <3>2. CASE x.getCash
      <4>1. y = ProofSendCash(x, n)
        BY <3>2 DEF ProofSend
      <4>2. /\ y.statusServer = x.statusServer
            /\ y.statusClient \in {x.statusClient, "END_WORK"}
        BY <1>2, <4>1 DEF ProofSendCash, IsBuffer, BufferFields
      <4> QED
        BY <3>1, <4>2 DEF Finished, n
    <3>3. CASE ~x.getCash
      <4>1. /\ y.statusClient \in {"READ_RESPONSE", "END_WORK"}
            /\ y.statusServer = "END_WORK"
        BY ONLY <1>2, <3>1, <3>3, SentFields
      <4> QED
        BY <4>1 DEF Finished, n
    <3> QED
      BY <3>2, <3>3
  <2> QED
    BY <1>3, <1>8, <2>1, <2>2, <2>3, <2>4 DEF Track
<1> HIDE DEF y, o
<1>9. Track(u, y, elem[u], ToSet(list), got, o)
  BY <1>7, <1>8 DEF Track
<1> QED
  BY <1>9 DEF u, c, x, y, n, o

LEMMA SendContents == IInv /\ CInv /\ Send => CInv'
<1> SUFFICES ASSUME IInv, CInv, Send PROVE CInv'
  OBVIOUS
<1>1. /\ Sends /\ Handling /\ Buf \in live /\ Buf \in Users /\ Current \in Conns
      /\ Current[1] = Buf
  BY CurrentFacts DEF Send, Sends, Alive, Handling, Buf
<1> PICK u \in Users : u = Buf
  BY <1>1
<1> DEFINE x == b[Buf]
           n == Len(SendBuf(x))
           y == ProofSend(x, n)
           o == [out EXCEPT ![Current] = @ \o SendBuf(x)]
<1>2. /\ b' = [b EXCEPT ![Buf] = y] /\ out' = o
      /\ UNCHANGED <<list, live, elem, cash, script, dials, got>>
  BY DEF Send, cache
<1>3. IsBuffer(x) /\ Owned(Buf, x) /\ ~x.readyConnect /\ Plain(Buf) => dials[Buf] <= 1
  BY <1>1 DEF IInv, TypeOK, CInv, OwnedInv, TrackInv
<1>4. Plain(Buf) => Track(Buf, y, elem[Buf], ToSet(list), got, o)
  BY <1>1, SentTrack
<1>5. b'[u] = y /\ \A v \in Users : v # u => b'[v] = b[v]
  <2> HIDE DEF y
  <2> QED
    BY <1>2 DEF IInv, TypeOK
<1>6. \A d \in Conns : d # Current => out'[d] = out[d]
  BY <1>2 DEF CInv, PeersInv
<1>7. PeersInv'
  BY <1>1, <1>2 DEF CInv, PeersInv, script
<1>8. IsBuffer(x) /\ Owned(Buf, x) /\ ~x.readyConnect
  BY <1>1 DEF IInv, TypeOK, CInv, OwnedInv
<1> HIDE DEF x, n
<1>9. /\ y.addData = x.addData /\ y.element = x.element /\ y.readyConnect = x.readyConnect
      /\ y.statusClient \in {x.statusClient, "READ_RESPONSE", "END_WORK"}
  <2>1. CASE x.getCash
    <3>1. y = ProofSendCash(x, n)
      BY <2>1 DEF ProofSend
    <3> QED
      BY <1>8, <3>1 DEF ProofSendCash, IsBuffer, BufferFields
  <2>2. CASE ~x.getCash
    BY ONLY <1>8, <2>2, SentFields
  <2> QED
    BY <2>1, <2>2
<1> HIDE DEF y, o
<1>10. Owned(u, b'[u]) /\ ~b'[u].readyConnect
  BY <1>5, <1>8, <1>9 DEF Owned
<1>11. \A v \in Users : v # u =>
         b'[v] = b[v] /\ SameContent(elem'[v], elem[v]) /\ dials'[v] = dials[v]
  BY <1>2, <1>5 DEF SameContent
<1>12. \A c \in Conns : c[1] # u => got'[c] = got[c] /\ out'[c] = out[c]
  BY <1>1, <1>2, <1>6
<1>13. KeysOk(elem', cash') /\ \A e \in ToSet(cash') : request[e].kind = "get"
  BY <1>2 DEF CInv, KeysInv
<1>14. ASSUME NEW k \in 1..MaxDials, k > dials'[u]
       PROVE  got'[<<u, k>>] = 0 /\ out'[<<u, k>>] = <<>>
  <2>1. k > dials[Buf]
    BY <1>2, <1>14
  <2> QED
    BY <1>1, <1>2, <1>6, <2>1, NoOrigin
<1>15. Plain(u) => ContentOk(u, elem'[u])
  BY <1>2 DEF CInv, ContentInv
<1>16. u \in live' /\ Plain(u) => dials'[u] <= 1 /\ Tracked(u)'
  <2> SUFFICES ASSUME Plain(u) PROVE dials'[u] <= 1 /\ Tracked(u)'
    OBVIOUS
  <2>1. dials'[u] = dials[u] /\ dials[u] <= 1
    BY <1>1, <1>2 DEF CInv, TrackInv
  <2>2. Track(u, b'[u], elem'[u], ToSet(list'), got', out')
    BY <1>2, <1>4, <1>5
  <2>3. request'[u] = request[u] /\ response'[u] = response[u]
    BY <1>2 DEF script
  <2>4. Tracked(u)'
    BY ONLY <2>1, <2>2, <2>3, TrackedNext
  <2> QED
    BY <2>1, <2>4
<1>17. /\ u \in Users /\ Came(u) /\ UNCHANGED script /\ live' \subseteq live
       /\ \A c \in ToSet(list') : c[1] # u => c \in ToSet(list)
  BY <1>1, <1>2 DEF IInv, ComingInv
<1> QED
  BY ONLY IInv, CInv, <1>7, <1>10, <1>11, <1>12, <1>13, <1>14, <1>15, <1>16, <1>17, ContentsKeep

\* Steps that only move on.
LEMMA QuietContents ==
    ASSUME IInv, CInv, UNCHANGED <<list, b, live, elem, cash, script, dials, got, out>>
    PROVE  CInv'
<1>1. /\ request' = request /\ response' = response /\ dials' = dials /\ b' = b /\ live' = live
      /\ elem' = elem /\ cash' = cash /\ got' = got /\ out' = out /\ list' = list
      /\ live \subseteq Users
  BY DEF script, IInv, TypeOK
<1>2. ScriptInv'
  <2>1. \A u \in Users : Came(u)' <=> Came(u)
    BY <1>1 DEF Came
  <2> QED
    BY ONLY CInv, <1>1, <2>1 DEF CInv, ScriptInv
<1>3. KeysInv' /\ PeersInv'
  BY <1>1 DEF CInv, KeysInv, KeysOk, PeersInv
<1>4. OwnedInv'
  BY <1>1 DEF CInv, OwnedInv, Owned
<1>5. \A u \in Users : Plain(u)' <=> Plain(u)
  BY <1>1 DEF Plain, Orderly
<1>6. ContentInv'
  BY <1>1, <1>5 DEF CInv, ContentInv, ContentOk, IsWhole, ResponseLength
<1>7. TrackInv'
  <2>1. ASSUME NEW u \in live, Plain(u) PROVE dials'[u] <= 1 /\ Tracked(u)'
    <3>1. dials'[u] = dials[u] /\ request'[u] = request[u] /\ response'[u] = response[u]
      BY <1>1
    <3>2. dials[u] <= 1 /\ Track(u, b[u], elem[u], ToSet(list), got, out)
      BY <2>1 DEF CInv, TrackInv, Tracked
    <3>3. Track(u, b'[u], elem'[u], ToSet(list'), got', out')
      BY <1>1, <3>2
    <3>4. Tracked(u)'
      BY ONLY <3>1, <3>3, TrackedNext
    <3> QED
      BY <3>1, <3>2, <3>4
  <2> QED
    BY <1>1, <1>5, <2>1 DEF TrackInv
<1> QED
  BY <1>2, <1>3, <1>4, <1>6, <1>7 DEF CInv

\* The user that comes has said nothing, and nothing is stored for it.
LEMMA AcceptContents == IInv /\ CInv /\ Accept => CInv'
<1> SUFFICES ASSUME IInv, CInv, Accept PROVE CInv'
  OBVIOUS
<1>0. /\ Accepted \in 0..NumUsers /\ Accepted < NumUsers
      /\ \A v \in Users : Came(v) <=> v <= Accepted
  BY CameFirst DEF IInv, ComingInv, Accept
<1> PICK u \in Users : u = Accepted + 1
  BY <1>0 DEF Users
<1>1. ~Came(u) /\ u \notin live /\ dials[u] = 0 /\ b[u] = NewBuffer
  <2>1. ~Came(u)
    BY <1>0 DEF Users
  <2> QED
    BY <2>1 DEF IInv, ComingInv, LinksInv
<1>2. PICK w \in Scripts :
        request' = [request EXCEPT ![u] = w[1]] /\ response' = [response EXCEPT ![u] = w[2]]
  BY DEF Accept
<1>3. /\ list' = Append(list, <<u, 0>>) /\ live' = live \cup {u}
      /\ b' = b /\ elem' = elem /\ cash' = cash /\ dials' = dials /\ got' = got /\ out' = out
  BY DEF Accept, cache, peers
<1>4. /\ request'[u] = w[1] /\ response'[u] = w[2] /\ w[1] # NoRequest
      /\ \A v \in Users : v # u => request'[v] = request[v] /\ response'[v] = response[v]
  BY <1>2 DEF IInv, TypeOK, CInv, PeersInv
<1>5. Came(u)' /\ \A v \in Users : v # u => (Came(v)' <=> Came(v))
  BY <1>4 DEF Came
<1>6. /\ list \in Seq(Conns) /\ ToSet(list') = ToSet(list) \cup {<<u, 0>>}
      /\ live \subseteq Users
  BY <1>3, AppendSet DEF IInv, TypeOK
<1>7. \A d \in ToSet(list) : d[1] # u
  <2>1. \A d \in ToSet(list) : d \in Conns /\ d[2] <= dials[d[1]]
    BY ListedConns DEF IInv, ListInv
  <2>2. \A d \in Conns : d[2] \in 0..MaxDials /\ d = <<d[1], d[2]>>
    BY DEF Conns
  <2>3. \A d \in ToSet(list) : d[1] = u => d = <<u, 0>>
    BY <1>1, <2>1, <2>2
  <2>4. <<u, 0>> \notin ToSet(list)
    BY <1>1 DEF IInv, LinksInv
  <2> QED
    BY <2>3, <2>4
<1>8. \A v \in Users : v # u => (Plain(v)' <=> Plain(v))
  BY <1>4 DEF Plain, Orderly
<1>9. elem[u].content = <<>> /\ ~elem[u].ended /\ got[<<u, 0>>] = 0
  BY <1>1 DEF CInv, ScriptInv
<1>10. ScriptInv'
  <2>1. ASSUME NEW v \in Users
        PROVE  /\ Came(v)' => \E w2 \in Scripts : request'[v] = w2[1] /\ response'[v] = w2[2]
               /\ ~Came(v)' => elem[v].content = <<>> /\ ~elem[v].ended /\ got[<<v, 0>>] = 0
               /\ \A k \in 1..MaxDials : k > dials[v] => got[<<v, k>>] = 0 /\ out[<<v, k>>] = <<>>
    <3>1. CASE v = u
      BY <1>4, <1>5, <3>1 DEF CInv, ScriptInv
    <3>2. CASE v # u
      BY <1>4, <1>5, <3>2 DEF CInv, ScriptInv
    <3> QED
      BY <3>1, <3>2
  <2> QED
    BY ONLY <1>3, <2>1 DEF ScriptInv
<1>11. KeysInv'
  <2>1. \A e \in ToSet(cash) : e \in Users /\ request[e].kind = "get"
    BY OwnCash DEF CInv, KeysInv
  <2>2. request[u].kind = "bad"
    BY <1>1 DEF Came, NoRequest
  <2>3. \A e \in ToSet(cash) : request'[e].kind = "get"
    BY <1>4, <2>1, <2>2
  <2> QED
    BY <1>3, <2>3 DEF CInv, KeysInv, KeysOk
<1>12. OwnedInv'
  <2>1. ~NewBuffer.addData
    BY DEF NewBuffer
  <2>2. \A v \in Users : v # u => request'[v] = request[v]
    BY <1>4
  <2>3. \A v \in Users : Owned(v, b[v]) /\ ~b[v].readyConnect
    BY DEF CInv, OwnedInv
  <2> QED
    BY <1>1, <1>3, <2>1, <2>2, <2>3 DEF OwnedInv, Owned
<1>13. PeersInv'
  BY <1>2, <1>3 DEF CInv, PeersInv
<1>14. ContentInv'
  <2>1. ASSUME NEW v \in Users, v # u, Plain(v) PROVE ContentOk(v, elem[v])'
    <3>1. ContentOk(v, elem[v])
      BY <2>1 DEF CInv, ContentInv
    <3> QED
      BY <1>3, <1>4, <2>1, <3>1 DEF ContentOk, IsWhole, ResponseLength
  <2>2. ContentOk(u, elem[u])'
    <3>1. elem'[u].content = <<>> /\ ~elem'[u].ended
      BY <1>3, <1>9
    <3>2. <<>> = FromOrigin(u, Len(<<>>))
      BY DEF FromOrigin
    <3> QED
      BY <3>1, <3>2 DEF ContentOk
  <2> QED
    BY <1>8, <2>1, <2>2 DEF ContentInv
<1>15. TrackInv'
  <2>1. ASSUME NEW v \in live, Plain(v), v # u PROVE dials'[v] <= 1 /\ Tracked(v)'
    <3>1. v \in Users /\ dials'[v] = dials[v] /\ dials[v] <= 1
          /\ Track(v, b[v], elem[v], ToSet(list), got, out)
      BY <1>3, <1>6, <2>1 DEF CInv, TrackInv, Tracked
    <3>2. \A i \in {0, 1} : <<v, i>> \in ToSet(list') =>
            /\ <<v, i>> \in ToSet(list)
            /\ got'[<<v, i>>] = got[<<v, i>>] /\ out'[<<v, i>>] = out[<<v, i>>]
      BY <1>3, <1>6, <2>1
    <3>3. Alike(b[v], b'[v]) /\ b'[v].statusClient = b[v].statusClient
          /\ elem'[v].content = elem[v].content
      BY <1>3 DEF Alike
    <3>4. Track(v, b'[v], elem'[v], ToSet(list'), got', out')
      BY ONLY <3>1, <3>2, <3>3, TrackKept
    <3>5. request'[v] = request[v] /\ response'[v] = response[v]
      BY <1>4, <2>1, <3>1
    <3>6. Tracked(v)'
      BY ONLY <3>1, <3>4, <3>5, TrackedNext
    <3> QED
      BY <3>1, <3>6
  <2>2. dials'[u] <= 1 /\ Tracked(u)'
    <3>1. /\ NewBuffer.statusClient = "WRITE_REQUEST_HEADING"
          /\ NewBuffer.statusServer = "READ_REQUEST" /\ ~NewBuffer.addData
          /\ NewBuffer.buf = <<>>
      BY DEF NewBuffer
    <3>2. Asking(u, b[u], got[<<u, 0>>])'
      <4>1. FromUser(u, 0)' = <<>>
        BY DEF FromUser
      <4>2. b'[u] = NewBuffer /\ got'[<<u, 0>>] = 0
        BY <1>1, <1>3, <1>9
      <4> QED
        BY <3>1, <4>1, <4>2 DEF Asking
    <3>3. <<u, 1>> \notin ToSet(list')
      BY <1>6, <1>7
    <3>4. dials'[u] = 0
      BY <1>1, <1>3
    <3> QED
      BY <3>2, <3>3, <3>4 DEF Tracked, Track
  <2> QED
    BY <1>3, <1>6, <1>8, <2>1, <2>2 DEF TrackInv
<1> QED
  BY <1>10, <1>11, <1>12, <1>13, <1>14, <1>15 DEF CInv

LEMMA InitContents == Init => CInv
<1> SUFFICES ASSUME Init PROVE CInv
  OBVIOUS
<1>1. /\ \A u \in Users : /\ b[u] = NewBuffer /\ elem[u] = NewElement(<<>>)
                          /\ request[u] = NoRequest
      /\ cash = <<>> /\ live = {} /\ \A c \in Conns : got[c] = 0 /\ out[c] = <<>>
      /\ ToSet(cash) = {}
  BY DEF Init, ToSet
<1>2. \A u \in Users, k \in 0..MaxDials : <<u, k>> \in Conns
  BY DEF Conns
<1>3. NewElement(<<>>).content = <<>> /\ ~NewElement(<<>>).ended
  BY DEF NewElement
<1>4. ScriptInv
  BY <1>1, <1>2, <1>3 DEF ScriptInv, Came
<1>5. KeysInv /\ TrackInv
  BY <1>1 DEF KeysInv, KeysOk, TrackInv
<1>6. OwnedInv
  BY <1>1 DEF OwnedInv, Owned, NewBuffer
<1>7. ContentInv
  BY <1>1 DEF ContentInv, Plain, NoRequest
<1>8. PeersInv
  BY DEF Init, PeersInv
<1> QED
  BY <1>4, <1>5, <1>6, <1>7, <1>8 DEF CInv

\* What is read of a user that asks for a page and sends nothing else is accounted for
\* from its first unit to the end of the answer, whatever the other clients do meanwhile.
THEOREM StreamsAccounted == Spec => []CInv
<1>1. IInv /\ CInv /\ [Next]_vars => CInv'
  <2> SUFFICES ASSUME IInv, CInv, [Next]_vars PROVE CInv'
    OBVIOUS
  <2>1. CASE Dangling \/ SendKilled \/ AcceptFails \/ Idle \/ Poll \/ PassEnds \/ Start
             \/ UNCHANGED vars
    <3>1. UNCHANGED <<list, b, live, elem, cash, script, dials, got, out>>
      BY <2>1 DEF Dangling, SendKilled, AcceptFails, Idle, Poll, PassEnds, Start, ConnectSocket,
                  ConfigureFirst, vars, cache, script, peers
    <3> QED
      BY <3>1, QuietContents
  <2> QED
    BY <2>1, HangUpContents, ReadContents, ConnectContents, ConnectFailsContents,
       SendContents, AcceptContents
    DEF Next, Handle, EndOfPass
<1> QED
  BY Invariance, InitContents, <1>1, PTL DEF Spec

\* No key is stored twice, and what the cache has of an answer is what the origin sent,
\* all of it once the element is marked complete: nothing comes between the look-up and
\* the insertion of wrightResponseHeading, and no second origin of the same user writes
\* into the element (wrightResponseBody).
THEOREM CacheIsConsistent == Spec => []CacheConsistent
<1>1. IInv /\ CInv => CacheConsistent
  <2> SUFFICES ASSUME IInv, CInv PROVE CacheConsistent
    OBVIOUS
  <2>1. \A e \in ToSet(cash) : e \in Users /\ request[e].kind = "get"
    BY OwnCash DEF CInv, KeysInv
  <2>2. \A e \in ToSet(cash) : Orderly(e) => ContentOk(e, elem[e])
    BY <2>1 DEF CInv, ContentInv, Plain
  <2>3. DOMAIN cash = 1..Len(cash)
    BY DEF IInv, TypeOK
  <2>4. \A i, j \in DOMAIN cash : elem[cash[i]].head = elem[cash[j]].head => i = j
    BY <2>3 DEF CInv, KeysInv, KeysOk
  <2> QED
    BY <2>2, <2>4 DEF CacheConsistent, ContentOk
<1> QED
  BY Invariance, StreamsAccounted, <1>1, PTL
=============================================================================
