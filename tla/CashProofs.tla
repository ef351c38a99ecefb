----------------------------- MODULE CashProofs -----------------------------
(***************************************************************************)
(* The cache of lab32v2 for any threads, keys, sizes and starting values   *)
(* of its account.  IInv says what each thread may rely on between the     *)
(* critical sections of CashImpl's mutex: where it stands, what it holds,  *)
(* what it saw of its key; and what the walk of addStringToCash has passed *)
(* so far.  BudgetInv charges each element that is being downloaded for    *)
(* the whole of what its origin declared; that the sum of the list's       *)
(* charges is within the account is what every action keeps.               *)
(***************************************************************************)
EXTENDS Cash, CommonLemmas

InWalk == {"evict", "erase", "walked"}
Holders == {"count", "use", "download"}

\* Who is inside the walk, which element a thread may touch, and which key it is about.
PlaceAt(t) ==
    /\ mutex = t <=> thread[t].pc \in InWalk
    /\ At(t, "erase") => thread[t].it \in DOMAIN listCash
    /\ At(t, "evict") => thread[t].it >= 1
    /\ ~At(t, "idle") => thread[t].key \in Keys
    /\ thread[t].pc \in Holders => thread[t].cash \in DOMAIN elements
PlaceInv == \A t \in Threads : PlaceAt(t)

\* The counter of an element is the number of threads that use it.
UsersOf(e) == {t \in Threads : At(t, "use") /\ thread[t].cash = e}
UsersInv ==
    \A e \in DOMAIN elements :
      IsFiniteSet(UsersOf(e)) /\ elements[e].users = Cardinality(UsersOf(e))

\* A thread that saw its key listed finds it, unless it was evicted since.
FindAt(t) == At(t, "find") => Listed(thread[t].key) \/ thread[t].lost
FindInv == \A t \in Threads : FindAt(t)

\* What is listed under the key of a thread that saw it unlisted came later.
KnownAt(t) ==
    thread[t].pc \in InWalk \cup {"add"} =>
      \A e \in ToSet(listCash) : elements[e].key = thread[t].key => thread[t].known < e
KnownInv == \A t \in Threads : KnownAt(t)

ListInv == IsInjective(listCash)

\* The histories of a walk cover what is unused and used now.
WalkInv ==
    mutex # "free" =>
      /\ walk.start \ walk.idle \subseteq ToSet(listCash)
      /\ DOMAIN elements \ Used(elements) \subseteq walk.idle
      /\ Used(elements) \subseteq walk.busy
      /\ \A t \in Threads : At(t, "erase") => listCash[thread[t].it] \in walk.idle

\* Of the elements the iterator is past, as many were unused as were erased.
Passed(t) == {listCash[n] : n \in {m \in DOMAIN listCash : m < thread[t].it}}
PassedAt(t) ==
    thread[t].pc \in {"evict", "erase"} => Cardinality(Passed(t) \ walk.busy) <= walk.erased
PassedInv == \A t \in Threads : PassedAt(t)

IInv == /\ TypeOK /\ PlaceInv /\ UsersInv /\ FindInv /\ KnownInv /\ ListInv /\ WalkInv /\ PassedInv
        /\ DuplicatesRaced /\ NullOnlyAfterEviction

\* What the account reserves for an element: all that its one download will take, of
\* a thread's state th and elements es; afterwards what the element holds.
Downloads(th, t, e) == th[t].pc = "download" /\ th[t].cash = e
ReservedIn(th, es, e) ==
    IF \E t \in Threads : Downloads(th, t, e)
      THEN th[CHOOSE t \in Threads : Downloads(th, t, e)].dataSize
      ELSE es[e].length + HeadingSize
Reserved(e) == ReservedIn(thread, elements, e)

OneDownload(th) == \A t, u \in Threads : th[t].pc = "download" /\ Downloads(th, u, th[t].cash) => t = u
DownloadInv ==
    /\ OneDownload(thread)
    /\ \A t \in Threads :
         /\ At(t, "download") => elements[thread[t].cash].length + HeadingSize <= thread[t].dataSize
         /\ thread[t].pc \in InWalk \cup {"add"} => HeadingSize <= thread[t].dataSize
Weights == [n \in DOMAIN listCash |-> Reserved(listCash[n])]
WeightsOk ==
    /\ Weights \in Seq(Int) /\ Len(Weights) = Len(listCash) /\ Len(listCash) \in Nat
    /\ DOMAIN listCash = 1..Len(listCash)
    /\ \A n \in 1..Len(listCash) : /\ listCash[n] \in DOMAIN elements
                                   /\ Weights[n] = Reserved(listCash[n]) /\ Weights[n] \in Int
AccountInv ==
    /\ Total(Weights) <= byteInCash - base
    /\ base < MaxCashSize => byteInCash < MaxCashSize
BudgetInv == DownloadInv /\ AccountInv

\* The recursion of SumUpTo has a solution, and it is a function to the integers.
LEMMA SumUpToDef ==
    ASSUME NEW w \in Seq(Int)
    PROVE  /\ SumUpTo(w) \in [0..Len(w) -> Int]
           /\ SumUpTo(w)[0] = 0
           /\ \A n \in 1..Len(w) : SumUpTo(w)[n] = SumUpTo(w)[n - 1] + w[n]
<1> DEFINE L == Len(w)
           Sums(g, k) == /\ g \in [0..k -> Int]
                         /\ g[0] = 0
                         /\ \A n \in 1..k : g[n] = g[n - 1] + w[n]
           T == {k \in 0..L : \E g : Sums(g, k)}
           Is(g) == g = [n \in 0..L |-> IF n = 0 THEN 0 ELSE g[n - 1] + w[n]]
<1>0. L \in Nat /\ \A n \in 1..L : w[n] \in Int
  OBVIOUS
<1>1. 0 \in T
  <2>1. Sums([n \in 0..0 |-> 0], 0)
    OBVIOUS
  <2>2. \E g : Sums(g, 0)
    BY <2>1
  <2> HIDE DEF Sums
  <2> QED
    BY <2>2, <1>0
<1>2. ASSUME NEW k \in 1..L, k - 1 \in T PROVE k \in T
  <2>1. PICK g : Sums(g, k - 1)
    BY <1>2
  <2> DEFINE h == [n \in 0..k |-> IF n = k THEN g[k - 1] + w[k] ELSE g[n]]
  <2>2. \A n \in 0..(k - 1) : g[n] \in Int
    BY <2>1
  <2>3. h \in [0..k -> Int]
    BY <2>2, <1>0
  <2>4. h[0] = 0
    BY <2>1
  <2>5. ASSUME NEW n \in 1..k PROVE h[n] = h[n - 1] + w[n]
    BY <2>1, <1>0
  <2>6. Sums(h, k)
    BY <2>3, <2>4, <2>5
  <2>7. \E f : Sums(f, k)
    BY <2>6
  <2> HIDE DEF Sums
  <2> QED
    BY <2>7, <1>0
<1>3. L \in T
  <2>1. T \in SUBSET (0..L)
    OBVIOUS
  <2> HIDE DEF T
  <2>2. T = 0..L
    BY <1>0, <1>1, <1>2, <2>1, Carried
  <2> QED
    BY <2>2, <1>0
<1>4. PICK g : Sums(g, L)
  BY <1>3
<1>5. Is(g)
  BY <1>4
<1>6. SumUpTo(w) = CHOOSE f : Is(f)
  BY DEF SumUpTo
<1>7. Is(SumUpTo(w))
  BY <1>5, <1>6
<1> DEFINE f == SumUpTo(w)
<1> HIDE DEF f
<1>8. f = [n \in 0..L |-> IF n = 0 THEN 0 ELSE f[n - 1] + w[n]]
  BY <1>7 DEF f
<1>9. f[0] = 0 /\ \A n \in 1..L : f[n] = f[n - 1] + w[n]
  <2>1. \A n \in 0..L : f[n] = IF n = 0 THEN 0 ELSE f[n - 1] + w[n]
    BY <1>8
  <2>2. 0 \in 0..L /\ \A n \in 1..L : n \in 0..L /\ n # 0
    BY <1>0
  <2> QED
    BY <2>1, <2>2
<1> DEFINE S == {n \in 0..L : f[n] \in Int}
<1>10. S = 0..L
  <2>1. S \in SUBSET (0..L) /\ 0 \in S
    BY <1>0, <1>9
  <2>2. ASSUME NEW n \in 1..L, n - 1 \in S PROVE n \in S
    <3>1. n \in 0..L /\ f[n - 1] \in Int /\ w[n] \in Int /\ f[n] = f[n - 1] + w[n]
      BY <1>0, <1>9, <2>2
    <3> QED
      BY <3>1
  <2> HIDE DEF S
  <2> QED
    BY <2>1, <2>2, <1>0, Carried
<1> QED
  BY <1>8, <1>9, <1>10 DEF f

\* Sequences that agree on a prefix agree on its sum.
LEMMA SumOfPrefix ==
    ASSUME NEW u \in Seq(Int), NEW w \in Seq(Int), NEW k \in Nat,
           k <= Len(u), k <= Len(w), \A n \in 1..k : u[n] = w[n]
    PROVE  SumUpTo(u)[k] = SumUpTo(w)[k]
<1> DEFINE p == SumUpTo(u)
           q == SumUpTo(w)
           T == {n \in 0..k : p[n] = q[n]}
<1>1. /\ p[0] = 0 /\ \A n \in 1..k : p[n] = p[n - 1] + u[n]
      /\ q[0] = 0 /\ \A n \in 1..k : q[n] = q[n - 1] + w[n]
  BY SumUpToDef
<1> HIDE DEF p, q
<1>2. T \in SUBSET (0..k) /\ 0 \in T /\ \A n \in 1..k : n - 1 \in T => n \in T
  BY <1>1
<1>3. T = 0..k
  <2> HIDE DEF T
  <2> QED
    BY <1>2, Carried
<1> QED
  BY <1>3 DEF p, q

\* A sum of numbers is a number.
LEMMA TotalType ==
    ASSUME NEW w \in Seq(Int) PROVE Total(w) \in Int
BY SumUpToDef DEF Total

\* Nothing sums to zero.
LEMMA TotalEmpty == Total(<<>>) = 0
<1>1. <<>> \in Seq(Int) /\ Len(<<>>) = 0
  OBVIOUS
<1> QED
  BY <1>1, SumUpToDef DEF Total

\* Smaller entries, smaller sum.
LEMMA TotalMonotone ==
    ASSUME NEW u \in Seq(Int), NEW w \in Seq(Int),
           Len(u) = Len(w), \A n \in 1..Len(w) : u[n] <= w[n]
    PROVE  Total(u) <= Total(w)
<1> DEFINE L == Len(w)
           p == SumUpTo(u)
           q == SumUpTo(w)
           T == {n \in 0..L : p[n] <= q[n]}
<1>1. /\ L \in Nat /\ p \in [0..L -> Int] /\ q \in [0..L -> Int]
      /\ p[0] = 0 /\ \A n \in 1..L : p[n] = p[n - 1] + u[n]
      /\ q[0] = 0 /\ \A n \in 1..L : q[n] = q[n - 1] + w[n]
      /\ \A n \in 1..L : u[n] \in Int /\ w[n] \in Int /\ u[n] <= w[n]
  BY SumUpToDef
<1> HIDE DEF p, q, L
<1>2. T \in SUBSET (0..L) /\ 0 \in T /\ \A n \in 1..L : n - 1 \in T => n \in T
  <2>1. \A n \in 0..L : p[n] \in Int /\ q[n] \in Int
    BY <1>1
  <2>2. 0 \in T
    BY <1>1
  <2>3. ASSUME NEW n \in 1..L, n - 1 \in T PROVE n \in T
    <3>1. n \in 0..L /\ n - 1 \in 0..L /\ p[n - 1] <= q[n - 1]
      BY <1>1, <2>3
    <3>2. p[n] = p[n - 1] + u[n] /\ q[n] = q[n - 1] + w[n] /\ u[n] <= w[n]
          /\ u[n] \in Int /\ w[n] \in Int
      BY <1>1
    <3>3. p[n - 1] \in Int /\ q[n - 1] \in Int
      BY <2>1, <3>1
    <3>4. p[n] <= q[n]
      BY <3>1, <3>2, <3>3
    <3> QED
      BY <3>1, <3>4
  <2> QED
    BY <2>2, <2>3
<1>3. T = 0..L
  <2> HIDE DEF T
  <2> QED
    BY <1>1, <1>2, Carried
<1>4. p[L] <= q[L]
  <2>1. L \in T
    <3> HIDE DEF T
    <3> QED
      BY <1>1, <1>3
  <2> QED
    BY <2>1
<1> QED
  BY <1>4 DEF Total, p, q, L

\* What push_back does to a sum.
LEMMA TotalAppend ==
    ASSUME NEW w \in Seq(Int), NEW x \in Int
    PROVE  Total(Append(w, x)) = Total(w) + x
<1> DEFINE v == Append(w, x)
<1>1. v \in Seq(Int) /\ Len(v) = Len(w) + 1 /\ Len(w) \in Nat /\ v[Len(v)] = x
      /\ \A n \in 1..Len(w) : v[n] = w[n]
  OBVIOUS
<1> HIDE DEF v
<1>2. SumUpTo(v)[Len(v)] = SumUpTo(v)[Len(v) - 1] + x
  BY <1>1, SumUpToDef
<1>3. SumUpTo(v)[Len(w)] = SumUpTo(w)[Len(w)]
  <2>1. Len(w) <= Len(v) /\ Len(w) <= Len(w) /\ w \in Seq(Int)
    BY <1>1
  <2> QED
    BY <1>1, <2>1, SumOfPrefix
<1>4. Len(v) - 1 = Len(w)
  BY <1>1
<1> QED
  BY <1>2, <1>3, <1>4 DEF Total, v

\* What std::list::erase does to a sum.
LEMMA TotalRemoveAt ==
    ASSUME NEW w \in Seq(Int), NEW i \in 1..Len(w)
    PROVE  Total(RemoveAt(w, i)) = Total(w) - w[i]
<1> DEFINE v == RemoveAt(w, i)
           L == Len(w)
           p == SumUpTo(v)
           q == SumUpTo(w)
           M == L - i
           T == {n \in 0..M : p[i - 1 + n] = q[i + n] - w[i]}
<1>1. /\ L \in Nat /\ M \in Nat /\ i \in Nat /\ i >= 1 /\ i <= L
      /\ v \in Seq(Int) /\ Len(v) = L - 1
      /\ \A n \in 1..(i - 1) : v[n] = w[n]
      /\ \A n \in i..(L - 1) : v[n] = w[n + 1]
      /\ \A n \in 1..L : w[n] \in Int
  <2>1. /\ v \in Seq(Int) /\ Len(v) = L - 1
        /\ \A n \in 1..(L - 1) : v[n] = IF n < i THEN w[n] ELSE w[n + 1]
    BY RemoveAtFacts
  <2>2. L \in Nat /\ i \in 1..L /\ \A n \in 1..L : w[n] \in Int
    OBVIOUS
  <2> HIDE DEF v, L
  <2> QED
    BY <2>1, <2>2
<1> HIDE DEF v
<1>2. /\ q \in [0..L -> Int] /\ \A n \in 1..L : q[n] = q[n - 1] + w[n]
      /\ p \in [0..(L - 1) -> Int] /\ \A n \in 1..(L - 1) : p[n] = p[n - 1] + v[n]
  BY <1>1, SumUpToDef
<1>3. p[i - 1] = q[i - 1]
  <2>1. i - 1 \in Nat /\ i - 1 <= Len(v) /\ i - 1 <= Len(w)
    BY <1>1
  <2> QED
    BY <1>1, <2>1, SumOfPrefix
<1> HIDE DEF p, q, L
<1>4. 0 \in T
  <2>1. i \in 1..L /\ i - 1 + 0 = i - 1 /\ i + 0 = i /\ 0 \in 0..M
    BY <1>1
  <2>2. q[i] = q[i - 1] + w[i] /\ q[i - 1] \in Int /\ w[i] \in Int
    BY <1>1, <1>2, <2>1
  <2>3. p[i - 1] = q[i] - w[i]
    BY <1>3, <2>2
  <2> QED
    BY <2>1, <2>3
<1>5. ASSUME NEW n \in 1..M, n - 1 \in T PROVE n \in T
  <2>1. p[i - 1 + (n - 1)] = q[i + (n - 1)] - w[i]
    BY <1>5
  <2>2. /\ i - 1 + n \in 1..(L - 1) /\ i - 1 + n \in i..(L - 1) /\ i + n \in 1..L
        /\ (i - 1 + n) - 1 = i - 1 + (n - 1) /\ (i + n) - 1 = i + (n - 1) /\ (i - 1 + n) + 1 = i + n
        /\ i + (n - 1) \in 0..L /\ i \in 1..L
    BY <1>1
  <2>3. p[i - 1 + n] = p[i - 1 + (n - 1)] + v[i - 1 + n]
    BY <1>2, <2>2
  <2>4. q[i + n] = q[i + (n - 1)] + w[i + n]
    BY <1>2, <2>2
  <2>5. v[i - 1 + n] = w[i + n]
    BY <1>1, <2>2
  <2>6. q[i + (n - 1)] \in Int /\ w[i + n] \in Int /\ w[i] \in Int
    BY <1>1, <1>2, <2>2
  <2> QED
    BY <2>1, <2>3, <2>4, <2>5, <2>6
<1>6. T = 0..M
  <2>1. T \in SUBSET (0..M)
    OBVIOUS
  <2> HIDE DEF T, M
  <2> QED
    BY <1>1, <1>4, <1>5, <2>1, Carried
<1>7. p[L - 1] = q[L] - w[i]
  <2>1. M \in T
    <3> HIDE DEF M, T
    <3> QED
      BY <1>1, <1>6
  <2>2. i - 1 + M = L - 1 /\ i + M = L
    BY <1>1
  <2> QED
    BY <2>1, <2>2
<1> QED
  BY <1>1, <1>7 DEF Total, p, q, L, v

-----------------------------------------------------------------------------
(* The list.                                                               *)

\* findResponseInCash finds the first element of a listed key.
LEMMA FirstOfKey ==
    ASSUME TypeOK, NEW k, Listed(k)
    PROVE  LET n == SelectInSeq(listCash, LAMBDA e : elements[e].key = k)
           IN  n \in 1..Len(listCash) /\ elements[listCash[n]].key = k
<1> DEFINE I == {n \in 1..Len(listCash) : elements[listCash[n]].key = k}
<1>1. Len(listCash) \in Nat /\ I \in SUBSET (0..Len(listCash)) /\ I # {}
  <2>1. DOMAIN listCash = 1..Len(listCash) /\ Len(listCash) \in Nat
    BY DEF TypeOK
  <2>2. PICK n \in DOMAIN listCash : elements[listCash[n]].key = k
    BY DEF Listed, ToSet
  <2> QED
    BY <2>1, <2>2
<1>2. SelectInSeq(listCash, LAMBDA e : elements[e].key = k) = IF I # {} THEN Min(I) ELSE 0
  BY DEF SelectInSeq
<1>3. Min(I) \in I
  <2> HIDE DEF I
  <2> QED
    BY <1>1, LeastMember DEF Min
<1> QED
  BY <1>1, <1>2, <1>3

-----------------------------------------------------------------------------
(* The invariant.                                                          *)

USE SizeAssumption, KeyAssumption, ThreadAssumption

\* An empty cache and idle threads.
LEMMA InitInv == Init => IInv
<1> SUFFICES ASSUME Init PROVE IInv
  OBVIOUS
<1>1. /\ listCash = <<>> /\ elements = <<>> /\ mutex = "free" /\ crashed = FALSE /\ walk = NoWalk
      /\ thread = [t \in Threads |-> NewThread] /\ byteInCash \in Int /\ base \in Int
  BY DEF Init
<1>2. DOMAIN listCash = {} /\ DOMAIN elements = {} /\ Len(elements) = 0 /\ ToSet(listCash) = {}
  BY <1>1 DEF ToSet
<1>3. TypeOK
  <2>1. NewThread \in [pc : Places, key : Keys \cup {NoKey}, dataSize : Nat,
                       cash : 0..Len(elements), it : Nat, lost : BOOLEAN, known : 0..Len(elements)]
    BY <1>2 DEF NewThread, Places
  <2>2. walk \in [start : SUBSET DOMAIN elements, busy : SUBSET DOMAIN elements,
                  idle : SUBSET DOMAIN elements, erased : Nat]
    BY <1>1 DEF NoWalk
  <2>3. listCash \in Seq(DOMAIN elements) /\ elements \in Seq([key : Keys, length : Nat, users : Int, known : Nat])
    BY <1>1
  <2> QED
    BY <1>1, <2>1, <2>2, <2>3 DEF TypeOK
<1>4. PlaceInv /\ FindInv /\ KnownInv /\ PassedInv
  BY <1>1, <1>2 DEF PlaceInv, PlaceAt, FindInv, FindAt, KnownInv, KnownAt, PassedInv, PassedAt,
     At, NewThread, InWalk, Holders
<1>5. UsersInv /\ ListInv /\ WalkInv /\ DuplicatesRaced /\ NullOnlyAfterEviction
  BY <1>1, <1>2 DEF UsersInv, ListInv, IsInjective, WalkInv, DuplicatesRaced, NullOnlyAfterEviction
<1> QED
  BY <1>3, <1>4, <1>5 DEF IInv

\* What the type of a thread's record says of its parts.
LEMMA ThreadType ==
    ASSUME TypeOK, NEW t \in Threads
    PROVE  /\ thread[t].pc \in Places /\ thread[t].key \in Keys \cup {NoKey}
           /\ thread[t].dataSize \in Nat /\ thread[t].cash \in 0..Len(elements)
           /\ thread[t].it \in Nat /\ thread[t].lost \in BOOLEAN
           /\ thread[t].known \in 0..Len(elements)
BY DEF TypeOK

\* A thread by its own.
LEMMA ThreadRecord ==
    ASSUME TypeOK, NEW t \in Threads
    PROVE  thread[t] \in [pc : Places, key : Keys \cup {NoKey}, dataSize : Nat,
                          cash : 0..Len(elements), it : Nat, lost : BOOLEAN, known : 0..Len(elements)]
BY DEF TypeOK

\* What the type of an element says of its parts.
LEMMA ElementType ==
    ASSUME TypeOK, NEW e \in DOMAIN elements
    PROVE  /\ elements[e].key \in Keys /\ elements[e].length \in Nat
           /\ elements[e].users \in Int /\ elements[e].known \in Nat
<1>0. elements \in Seq([key : Keys, length : Nat, users : Int, known : Nat])
  BY DEF TypeOK
<1>1. e \in 1..Len(elements)
  BY <1>0
<1>2. elements[e] \in [key : Keys, length : Nat, users : Int, known : Nat]
  BY <1>0, <1>1, ElementOfSeq
<1> QED
  BY <1>2

\* The list is finite and names elements that exist.
LEMMA ListedType ==
    ASSUME TypeOK
    PROVE  /\ DOMAIN listCash = 1..Len(listCash) /\ Len(listCash) \in Nat
           /\ ToSet(listCash) \subseteq DOMAIN elements /\ IsFiniteSet(ToSet(listCash))
           /\ \A n \in DOMAIN listCash : /\ listCash[n] \in ToSet(listCash)
                                        /\ listCash[n] \in DOMAIN elements
                                        /\ listCash[n] \in 0..Len(elements)
<1>1. /\ DOMAIN listCash = 1..Len(listCash) /\ Len(listCash) \in Nat
      /\ \A n \in DOMAIN listCash : listCash[n] \in DOMAIN elements
      /\ DOMAIN elements = 1..Len(elements) /\ Len(elements) \in Nat
  BY DEF TypeOK
<1>2. ToSet(listCash) \subseteq DOMAIN elements /\ \A n \in DOMAIN listCash : listCash[n] \in ToSet(listCash)
  BY <1>1 DEF ToSet
<1>3. IsFiniteSet(ToSet(listCash))
  <2>1. IsFiniteSet(1..Len(elements))
    BY <1>1, FS_Interval
  <2> QED
    BY <1>1, <1>2, <2>1, FS_Subset
<1> QED
  BY <1>1, <1>2, <1>3

\* A step of t that stays out of the walk and out of the users, and changes nothing
\* but t itself.
LEMMA OwnStep ==
    ASSUME IInv, NEW t \in Threads, NEW r,
           r \in [pc : Places, key : Keys \cup {NoKey}, dataSize : Nat,
                  cash : 0..Len(elements), it : Nat, lost : BOOLEAN, known : 0..Len(elements)],
           thread' = [thread EXCEPT ![t] = r],
           ~crashed, UNCHANGED <<listCash, elements, byteInCash, mutex, crashed, base>>,
           walk' = walk \/ (mutex = "free" /\ walk' = NoWalk),
           ~At(t, "use"), thread[t].pc \notin InWalk,
           PlaceAt(t)', FindAt(t)', KnownAt(t)', r.pc \notin InWalk \cup {"use"}
    PROVE  IInv'
<1> USE DEF IInv
<1>0. thread'[t] = r /\ \A u \in Threads : u # t => thread'[u] = thread[u]
  BY DEF TypeOK
<1>1. TypeOK'
  BY DEF TypeOK, NoWalk
<1>2. PlaceInv'
  BY <1>0 DEF PlaceInv, PlaceAt, At
<1>3. FindInv'
  BY <1>0 DEF FindInv, FindAt, At, Listed
<1>4. KnownInv'
  BY <1>0 DEF KnownInv, KnownAt
<1>5. UsersInv'
  <2>1. \A e : UsersOf(e)' = UsersOf(e)
    BY <1>0 DEF UsersOf, At
  <2> QED
    BY <2>1 DEF UsersInv
<1>6. PassedInv'
  <2> SUFFICES ASSUME NEW u \in Threads, u # t, thread[u].pc \in InWalk PROVE PassedAt(u)'
    BY <1>0 DEF PassedInv, PassedAt, InWalk
  <2>0. walk' = walk
    BY DEF PlaceInv, PlaceAt
  <2>1. Passed(u)' = Passed(u) /\ thread'[u] = thread[u] /\ PassedAt(u)
    BY <1>0 DEF Passed, PassedInv
  <2> QED
    BY <2>0, <2>1 DEF PassedAt
<1>7. WalkInv'
  BY <1>0 DEF WalkInv, At, Used, InWalk
<1>8. ListInv' /\ DuplicatesRaced' /\ NullOnlyAfterEviction'
  BY DEF ListInv, DuplicatesRaced, NullOnlyAfterEviction
<1> QED
  BY <1>1, <1>2, <1>3, <1>4, <1>5, <1>6, <1>7, <1>8

\* A thread that finds its key listed is not yet one that lost it.
LEMMA IsElementInCashInvariance ==
    ASSUME IInv, ~crashed, NEW t \in Threads, IsElementInCash(t) PROVE IInv'
<1> USE DEF IInv
<1>1. PICK k \in Keys :
        thread' = [thread EXCEPT ![t].key = k, ![t].pc = IF Listed(k) THEN "find" ELSE "miss"]
  BY DEF IsElementInCash
<1> DEFINE r == [thread[t] EXCEPT !.key = k, !.pc = IF Listed(k) THEN "find" ELSE "miss"]
<1>2. thread' = [thread EXCEPT ![t] = r]
  BY <1>1 DEF TypeOK
<1>3. r \in [pc : Places, key : Keys \cup {NoKey}, dataSize : Nat,
             cash : 0..Len(elements), it : Nat, lost : BOOLEAN, known : 0..Len(elements)]
  <2>1. {"find", "miss"} \subseteq Places
    BY DEF Places
  <2> QED
    BY <2>1, ThreadRecord
<1>4. r.key = k /\ r.pc = (IF Listed(k) THEN "find" ELSE "miss") /\ thread'[t] = r
  BY <1>2 DEF TypeOK
<1> HIDE DEF r
<1>5. PlaceAt(t)' /\ FindAt(t)' /\ KnownAt(t)'
  BY <1>4 DEF PlaceAt, FindAt, KnownAt, IsElementInCash, At, Listed, InWalk, Holders
<1> QED
  BY <1>2, <1>3, <1>4, <1>5, OwnStep DEF IsElementInCash, At, InWalk

\* Whoever is to add has just seen its key unlisted: all listed later is newer.
LEMMA CheckBeforeAddInvariance ==
    ASSUME IInv, ~crashed, NEW t \in Threads, CheckBeforeAdd(t) PROVE IInv'
<1> USE DEF IInv
<1> DEFINE R == [pc : Places, key : Keys \cup {NoKey}, dataSize : Nat,
                 cash : 0..Len(elements), it : Nat, lost : BOOLEAN, known : 0..Len(elements)]
<1>1. CASE Leave(t)
  <2>1. NewThread \in R
    BY DEF NewThread, Places, TypeOK
  <2>2. thread'[t] = NewThread
    BY <1>1 DEF Leave, TypeOK
  <2>3. thread[t].pc = "miss" /\ mutex' = mutex
    BY DEF CheckBeforeAdd, At
  <2>4. thread'[t].pc = "idle"
    BY <2>2 DEF NewThread
  <2>5. PlaceAt(t)' /\ FindAt(t)' /\ KnownAt(t)'
    BY <2>3, <2>4 DEF PlaceInv, PlaceAt, FindAt, KnownAt, At, InWalk, Holders
  <2> QED
    BY <1>1, <2>1, <2>5, OwnStep DEF Leave, CheckBeforeAdd, At, InWalk, NewThread
<1>2. CASE ~Leave(t)
  <2>1. PICK n \in Lengths :
          thread' = [thread EXCEPT ![t].dataSize = n + HeadingSize,
                                   ![t].known = Len(elements), ![t].pc = "add"]
    BY <1>2 DEF CheckBeforeAdd
  <2> DEFINE r == [thread[t] EXCEPT !.dataSize = n + HeadingSize, !.known = Len(elements), !.pc = "add"]
  <2>2. thread' = [thread EXCEPT ![t] = r]
    BY <2>1 DEF TypeOK
  <2>3. r \in R
    <3>1. n + HeadingSize \in Nat /\ Len(elements) \in 0..Len(elements)
      BY DEF TypeOK
    <3> QED
      <4>1. "add" \in Places
        BY DEF Places
      <4> QED
        BY <3>1, <4>1, ThreadRecord
  <2>4. r.key = thread[t].key /\ r.pc = "add" /\ r.known = Len(elements) /\ thread'[t] = r
    BY <2>2 DEF TypeOK
  <2> HIDE DEF r
  <2>5. PlaceAt(t)' /\ FindAt(t)' /\ KnownAt(t)'
    BY <1>2, <2>4 DEF PlaceAt, FindAt, KnownAt, CheckBeforeAdd, At, Listed, InWalk, Holders, PlaceInv
  <2> QED
    BY <2>2, <2>3, <2>4, <2>5, OwnStep DEF CheckBeforeAdd, At, InWalk
<1> QED
  BY <1>1, <1>2

\* The end of a download concerns its thread alone.
LEMMA EndDownloadInvariance ==
    ASSUME IInv, ~crashed, NEW t \in Threads, EndDownload(t) PROVE IInv'
<1> USE DEF IInv
<1>1. NewThread \in [pc : Places, key : Keys \cup {NoKey}, dataSize : Nat,
                     cash : 0..Len(elements), it : Nat, lost : BOOLEAN, known : 0..Len(elements)]
  BY DEF NewThread, Places, TypeOK
<1>2. thread'[t] = NewThread
  BY DEF EndDownload, Leave, TypeOK
<1>3. PlaceAt(t)' /\ FindAt(t)' /\ KnownAt(t)'
  BY <1>2 DEF PlaceInv, PlaceAt, FindAt, KnownAt, EndDownload, At, InWalk, Holders, NewThread
<1> QED
  BY <1>1, <1>3, OwnStep DEF EndDownload, Leave, At, InWalk, NewThread

\* A thread that gives up leaves the walk, if it is in it, to nobody.
LEMMA RefuseInvariance ==
    ASSUME IInv, ~crashed, NEW t \in Threads, Refuse(t), mutex \in {"free", t}, ~At(t, "use")
    PROVE  IInv'
<1> USE DEF IInv
<1>0. /\ thread'[t] = NewThread /\ \A u \in Threads : u # t => thread'[u] = thread[u]
      /\ mutex' = "free" /\ UNCHANGED <<listCash, elements, byteInCash, crashed, base>>
      /\ walk' = NoWalk
  BY DEF Refuse, Leave, TypeOK
<1>1. TypeOK'
  <2>1. NewThread \in [pc : Places, key : Keys \cup {NoKey}, dataSize : Nat,
                       cash : 0..Len(elements), it : Nat, lost : BOOLEAN, known : 0..Len(elements)]
    BY DEF NewThread, Places, TypeOK
  <2> QED
    BY <1>0, <2>1 DEF TypeOK, Refuse, Leave, NoWalk
<1>2. PlaceInv'
  BY <1>0 DEF PlaceInv, PlaceAt, At, NewThread, InWalk, Holders
<1>3. FindInv'
  BY <1>0 DEF FindInv, FindAt, At, Listed, NewThread
<1>4. KnownInv'
  BY <1>0 DEF KnownInv, KnownAt, NewThread, InWalk
<1>5. UsersInv'
  <2>1. \A e : UsersOf(e)' = UsersOf(e)
    BY <1>0 DEF UsersOf, At, NewThread
  <2> QED
    BY <1>0, <2>1 DEF UsersInv
<1>6. PassedInv' /\ WalkInv'
  BY <1>0, <1>2 DEF PassedInv, PassedAt, PlaceInv, PlaceAt, InWalk, WalkInv
<1>7. ListInv' /\ DuplicatesRaced' /\ NullOnlyAfterEviction'
  BY <1>0 DEF ListInv, DuplicatesRaced, NullOnlyAfterEviction
<1> QED
  BY <1>1, <1>2, <1>3, <1>4, <1>5, <1>6, <1>7

\* The histories of the walk start from what is used and unused now.
LEMMA StartWalkInvariance ==
    ASSUME IInv, ~crashed, NEW t \in Threads, StartWalk(t), mutex = "free", At(t, "add")
    PROVE  IInv'
<1> USE DEF IInv
<1>0. /\ thread'[t].pc = "evict" /\ thread'[t].it = 1 /\ thread'[t].key = thread[t].key
      /\ thread'[t].known = thread[t].known
      /\ \A u \in Threads : u # t => thread'[u] = thread[u]
      /\ mutex' = t /\ UNCHANGED <<listCash, elements, byteInCash, crashed, base>>
      /\ walk' = [start |-> ToSet(listCash), busy |-> Used(elements),
                  idle |-> DOMAIN elements \ Used(elements), erased |-> 0]
  BY DEF StartWalk, TypeOK
<1>1. TypeOK'
  <2>1. ToSet(listCash) \subseteq DOMAIN elements
    BY DEF TypeOK, ToSet
  <2>2. Used(elements) \subseteq DOMAIN elements
    BY DEF Used
  <2>3. thread' \in [Threads -> [pc : Places, key : Keys \cup {NoKey}, dataSize : Nat,
                       cash : 0..Len(elements), it : Nat, lost : BOOLEAN, known : 0..Len(elements)]]
    <3> DEFINE r == [thread[t] EXCEPT !.it = 1, !.pc = "evict"]
    <3>1. thread' = [thread EXCEPT ![t] = r]
      BY DEF StartWalk, TypeOK
    <3>2. r \in [pc : Places, key : Keys \cup {NoKey}, dataSize : Nat,
                 cash : 0..Len(elements), it : Nat, lost : BOOLEAN, known : 0..Len(elements)]
      <4>1. "evict" \in Places /\ 1 \in Nat
        BY DEF Places
      <4> QED
        BY <4>1, ThreadRecord
    <3> HIDE DEF r
    <3> QED
      BY <3>1, <3>2 DEF TypeOK
  <2> QED
    BY <1>0, <2>1, <2>2, <2>3 DEF TypeOK
<1>2. PlaceInv'
  BY <1>0 DEF PlaceInv, PlaceAt, At, InWalk, Holders
<1>3. FindInv'
  BY <1>0 DEF FindInv, FindAt, At, Listed
<1>4. KnownInv'
  BY <1>0 DEF KnownInv, KnownAt, InWalk, At
<1>5. UsersInv'
  <2>1. \A e : UsersOf(e)' = UsersOf(e)
    BY <1>0 DEF UsersOf, At
  <2> QED
    BY <1>0, <2>1 DEF UsersInv
<1>6. PassedInv'
  <2> SUFFICES ASSUME NEW u \in Threads PROVE PassedAt(u)'
    BY DEF PassedInv
  <2>1. CASE u = t
    <3>1. Passed(t)' = {}
      BY <1>0 DEF Passed, TypeOK
    <3> QED
      BY <1>0, <2>1, <3>1, FS_EmptySet DEF PassedAt
  <2>2. CASE u # t
    BY <1>0, <2>2 DEF PassedAt, PlaceInv, PlaceAt, InWalk
  <2> QED
    BY <2>1, <2>2
<1>7. WalkInv'
  BY <1>0, <1>2 DEF WalkInv, PlaceInv, PlaceAt, InWalk, At, Used
<1>8. ListInv' /\ DuplicatesRaced' /\ NullOnlyAfterEviction'
  BY <1>0 DEF ListInv, DuplicatesRaced, NullOnlyAfterEviction
<1> QED
  BY <1>1, <1>2, <1>3, <1>4, <1>5, <1>6, <1>7, <1>8

\* The moved element stays listed; only a lost key can miss.
LEMMA FindResponseInCashInvariance ==
    ASSUME IInv, ~crashed, NEW t \in Threads, FindResponseInCash(t) PROVE IInv'
<1> USE DEF IInv
<1> DEFINE k == thread[t].key
           n == SelectInSeq(listCash, LAMBDA e : elements[e].key = k)
<1>1. CASE Listed(k)
  <2>0. /\ thread' = [thread EXCEPT ![t].cash = listCash[n], ![t].pc = "count"]
        /\ listCash' = Append(RemoveAt(listCash, n), listCash[n])
        /\ UNCHANGED <<elements, byteInCash, mutex, base, walk, crashed>>
        /\ mutex = "free" /\ At(t, "find")
    BY <1>1 DEF FindResponseInCash
  <2>1. n \in 1..Len(listCash) /\ elements[listCash[n]].key = k
    BY <1>1, FirstOfKey
  <2> DEFINE c == listCash[n]
  <2>2. c \in DOMAIN elements /\ c \in 0..Len(elements)
    BY <2>1, ListedType
  <2> HIDE DEF n
  <2>3. listCash' \in Seq(DOMAIN elements) /\ ToSet(listCash') = ToSet(listCash) /\ IsInjective(listCash')
    <3> DEFINE v == RemoveAt(listCash, n)
    <3>1. v \in Seq(DOMAIN elements)
      BY <2>1, RemoveAtFacts DEF TypeOK
    <3>2. ToSet(v) = ToSet(listCash) \ {c} /\ IsInjective(v)
      BY <2>1, RemoveAtSet DEF TypeOK, ListInv
    <3>3. c \in ToSet(listCash)
      BY <2>1, ListedType
    <3> HIDE DEF v, c
    <3>4. ToSet(Append(v, c)) = ToSet(v) \cup {c} /\ IsInjective(Append(v, c)) /\ Append(v, c) \in Seq(DOMAIN elements)
      BY <3>1, <3>2, <2>2, AppendSet
    <3> QED
      BY <2>0, <3>2, <3>3, <3>4 DEF v, c
  <2> HIDE DEF c
  <2> DEFINE r == [thread[t] EXCEPT !.cash = c, !.pc = "count"]
  <2>4. thread' = [thread EXCEPT ![t] = r]
    BY <2>0 DEF TypeOK, c
  <2>5. r \in [pc : Places, key : Keys \cup {NoKey}, dataSize : Nat,
               cash : 0..Len(elements), it : Nat, lost : BOOLEAN, known : 0..Len(elements)]
    <3>1. "count" \in Places
      BY DEF Places
    <3> QED
      BY <2>2, <3>1, ThreadRecord
  <2>6. r.cash = c /\ r.pc = "count" /\ r.key = k
    BY DEF TypeOK
  <2> HIDE DEF r, k
  <2>7. thread'[t] = r /\ \A u \in Threads : u # t => thread'[u] = thread[u]
    BY <2>4 DEF TypeOK
  <2>8. TypeOK'
    <3>1. thread \in [Threads -> [pc : Places, key : Keys \cup {NoKey}, dataSize : Nat,
             cash : 0..Len(elements), it : Nat, lost : BOOLEAN, known : 0..Len(elements)]]
      BY DEF TypeOK
    <3>2. thread' \in [Threads -> [pc : Places, key : Keys \cup {NoKey}, dataSize : Nat,
             cash : 0..Len(elements'), it : Nat, lost : BOOLEAN, known : 0..Len(elements')]]
      BY <2>0, <2>4, <2>5, <3>1
    <3> QED
      BY <2>0, <2>3, <3>2 DEF TypeOK
  <2>9. PlaceInv'
    <3>1. ASSUME NEW u \in Threads, u # t PROVE PlaceAt(u)'
      <4>1. PlaceAt(u) /\ thread'[u] = thread[u] /\ mutex' = mutex /\ elements' = elements
        BY <2>0, <2>7, <3>1 DEF PlaceInv
      <4>2. thread[u].pc \notin InWalk
        BY <2>0, <4>1, ThreadAssumption DEF PlaceAt
      <4> QED
        BY <4>1, <4>2 DEF PlaceAt, At, InWalk
    <3>2. k \in Keys /\ t # "free"
      BY <2>0, ThreadAssumption DEF PlaceInv, PlaceAt, At, k
    <3>3. PlaceAt(t)'
      <4>1. /\ thread'[t].pc = "count" /\ thread'[t].key = k /\ thread'[t].cash \in DOMAIN elements'
            /\ mutex' # t
        BY <2>0, <2>2, <2>6, <2>7, <3>2
      <4> QED
        BY <3>2, <4>1 DEF PlaceAt, At, InWalk, Holders
    <3> QED
      BY <3>1, <3>3 DEF PlaceInv
  <2>10. FindInv'
    BY <2>0, <2>3, <2>6, <2>7 DEF FindInv, FindAt, At, Listed
  <2>11. KnownInv'
    BY <2>0, <2>3, <2>6, <2>7 DEF KnownInv, KnownAt, InWalk
  <2>12. UsersInv'
    <3>1. \A u \in Threads : /\ At(u, "use")' <=> At(u, "use")
                             /\ At(u, "use") => thread'[u].cash = thread[u].cash
      BY <2>0, <2>6, <2>7 DEF At
    <3>2. \A e : UsersOf(e)' = UsersOf(e)
      BY <3>1 DEF UsersOf
    <3> QED
      BY <2>0, <3>2 DEF UsersInv
  <2>13. PassedInv' /\ WalkInv'
    BY <2>0, <2>9 DEF PassedInv, PassedAt, PlaceInv, PlaceAt, InWalk, WalkInv
  <2>14. ListInv' /\ DuplicatesRaced' /\ NullOnlyAfterEviction'
    BY <2>0, <2>3 DEF ListInv, DuplicatesRaced, NullOnlyAfterEviction
  <2> QED
    BY <2>8, <2>9, <2>10, <2>11, <2>12, <2>13, <2>14
<1>2. CASE ~Listed(k)
  <2>1. crashed' = TRUE /\ UNCHANGED <<thread, listCash, elements, byteInCash, mutex, base, walk>>
    BY <1>2 DEF FindResponseInCash
  <2>2. At(t, "find") /\ thread[t].lost
    BY <1>2 DEF FindResponseInCash, FindInv, FindAt
  <2>3. TypeOK' /\ PlaceInv' /\ FindInv' /\ KnownInv' /\ ListInv'
    BY <2>1 DEF TypeOK, PlaceInv, PlaceAt, FindInv, FindAt, KnownInv, KnownAt, ListInv, At, Listed
  <2>4. UsersInv' /\ DuplicatesRaced'
    BY <2>1 DEF UsersInv, UsersOf, DuplicatesRaced, At
  <2>5. PassedInv' /\ WalkInv'
    BY <2>1 DEF PassedInv, PassedAt, Passed, WalkInv, Used, At
  <2>6. NullOnlyAfterEviction'
    BY <2>1, <2>2 DEF NullOnlyAfterEviction, At
  <2> QED
    BY <2>3, <2>4, <2>5, <2>6
<1> QED
  BY <1>1, <1>2

\* A user more or less, of the element of t, and the walk in progress takes note of it.
LEMMA CountInvariance ==
    ASSUME IInv, ~crashed, NEW t \in Threads, NEW change \in {1, -1},
           CountUsers(t, change),
           \/ change = 1 /\ At(t, "count") /\ thread' = [thread EXCEPT ![t].pc = "use"]
           \/ change = -1 /\ At(t, "use") /\ Leave(t)
    PROVE  IInv'
<1> USE DEF IInv
<1> DEFINE c == thread[t].cash
<1>0. /\ c \in DOMAIN elements /\ c \in 0..Len(elements)
      /\ elements' = [elements EXCEPT ![c].users = @ + change]
      /\ UNCHANGED <<listCash, byteInCash, mutex, crashed, base>>
      /\ walk' = IF mutex = "free" THEN walk
                 ELSE [walk EXCEPT !.busy = @ \cup Used(elements'),
                                   !.idle = @ \cup (DOMAIN elements' \ Used(elements'))]
  BY DEF CountUsers, PlaceInv, PlaceAt, At, Holders, TypeOK
<1>1. /\ DOMAIN elements' = DOMAIN elements /\ Len(elements') = Len(elements)
      /\ elements' \in Seq([key : Keys, length : Nat, users : Int, known : Nat])
      /\ \A e \in DOMAIN elements :
           /\ elements'[e].key = elements[e].key /\ elements'[e].known = elements[e].known
           /\ elements'[e].users = IF e = c THEN elements[c].users + change ELSE elements[e].users
  <2> DEFINE x == [elements[c] EXCEPT !.users = @ + change]
             R == [key : Keys, length : Nat, users : Int, known : Nat]
  <2>1. elements' = [elements EXCEPT ![c] = x]
    BY <1>0
  <2>2. elements \in Seq(R) /\ c \in 1..Len(elements)
    BY <1>0 DEF TypeOK
  <2>3. elements[c] \in R
    BY <2>2, ElementOfSeq
  <2>4. x \in R /\ x.key = elements[c].key /\ x.known = elements[c].known /\ x.users = elements[c].users + change
    BY <2>3
  <2> HIDE DEF x, R
  <2>5. elements' \in Seq(R) /\ Len(elements') = Len(elements)
        /\ \A e \in 1..Len(elements) : elements'[e] = IF e = c THEN x ELSE elements[e]
    BY <2>1, <2>2, <2>4, ExceptSeq
  <2>6. DOMAIN elements = 1..Len(elements) /\ DOMAIN elements' = 1..Len(elements')
    BY <2>2, <2>5
  <2> QED
    BY <2>4, <2>5, <2>6 DEF R
<1>2. \A u \in Threads : u # t => thread'[u] = thread[u]
  BY DEF Leave, TypeOK
<1> DEFINE R == [pc : Places, key : Keys \cup {NoKey}, dataSize : Nat,
                 cash : 0..Len(elements), it : Nat, lost : BOOLEAN, known : 0..Len(elements)]
<1>3. \/ /\ change = 1 /\ thread[t].pc = "count" /\ thread'[t].pc = "use"
         /\ thread'[t].cash = c /\ thread'[t].key = thread[t].key /\ thread'[t] \in R
      \/ change = -1 /\ thread[t].pc = "use" /\ thread'[t].pc = "idle" /\ thread'[t] \in R
  <2>1. CASE change = 1 /\ At(t, "count") /\ thread' = [thread EXCEPT ![t].pc = "use"]
    <3> DEFINE r == [thread[t] EXCEPT !.pc = "use"]
    <3>1. thread[t] \in R /\ "use" \in Places
      BY ThreadRecord DEF Places
    <3>2. r \in R /\ r.pc = "use" /\ r.cash = c /\ r.key = thread[t].key
      BY <3>1
    <3>3. thread'[t] = r
      BY <2>1 DEF TypeOK
    <3> HIDE DEF r, R
    <3> QED
      BY <2>1, <3>2, <3>3 DEF At
  <2>2. CASE change = -1 /\ At(t, "use") /\ Leave(t)
    <3>1. NewThread \in R /\ NewThread.pc = "idle"
      BY DEF TypeOK, Places, NewThread
    <3>2. thread'[t] = NewThread
      BY <2>2 DEF Leave, TypeOK
    <3> QED
      BY <2>2, <3>1, <3>2 DEF At
  <2> QED
    BY <2>1, <2>2
<1> HIDE DEF c
<1>4. thread[t].pc \notin InWalk \cup {"find", "add"} /\ thread'[t].pc \notin InWalk \cup {"find", "add"}
  BY <1>3 DEF InWalk
<1>5. TypeOK'
  <2>1. thread' \in [Threads -> [pc : Places, key : Keys \cup {NoKey}, dataSize : Nat,
                       cash : 0..Len(elements), it : Nat, lost : BOOLEAN, known : 0..Len(elements)]]
    <3>1. thread' = [thread EXCEPT ![t] = thread'[t]] /\ thread'[t] \in R
      BY <1>3 DEF Leave, TypeOK
    <3> HIDE DEF R
    <3>2. thread \in [Threads -> R]
      BY DEF TypeOK, R
    <3> QED
      BY <3>1, <3>2 DEF R
  <2>2. walk' \in [start : SUBSET DOMAIN elements, busy : SUBSET DOMAIN elements,
                   idle : SUBSET DOMAIN elements, erased : Nat]
    BY <1>0, <1>1 DEF TypeOK, Used
  <2> QED
    BY <1>0, <1>1, <2>1, <2>2 DEF TypeOK
<1>6. PlaceInv'
  <2>1. \A u \in Threads : u # t => PlaceAt(u)'
    BY <1>0, <1>1, <1>2 DEF PlaceInv, PlaceAt, At
  <2>2. PlaceAt(t)'
    BY <1>0, <1>1, <1>3, <1>4 DEF PlaceInv, PlaceAt, At, Holders, InWalk
  <2> QED
    BY <2>1, <2>2 DEF PlaceInv
<1>7. FindInv' /\ KnownInv'
  <2>1. \A e \in ToSet(listCash) : elements'[e].key = elements[e].key
    BY <1>1, ListedType
  <2>2. \A u \in Threads : u # t => FindAt(u)' /\ KnownAt(u)'
    BY <1>0, <1>2, <2>1 DEF FindInv, FindAt, KnownInv, KnownAt, At, Listed
  <2>3. FindAt(t)' /\ KnownAt(t)'
    BY <1>4 DEF FindAt, KnownAt, At
  <2> QED
    BY <2>2, <2>3 DEF FindInv, KnownInv
<1>8. ListInv' /\ DuplicatesRaced' /\ NullOnlyAfterEviction'
  <2>1. \A e \in ToSet(listCash) : elements'[e].key = elements[e].key /\ elements'[e].known = elements[e].known
    BY <1>1, ListedType
  <2> QED
    BY <1>0, <2>1 DEF ListInv, DuplicatesRaced, NullOnlyAfterEviction
<1>9. UsersInv'
  <2> SUFFICES ASSUME NEW e \in DOMAIN elements
               PROVE  /\ IsFiniteSet(UsersOf(e)')
                      /\ elements'[e].users = Cardinality(UsersOf(e)')
    BY <1>1 DEF UsersInv
  <2>1. IsFiniteSet(UsersOf(e)) /\ elements[e].users = Cardinality(UsersOf(e)) /\ Cardinality(UsersOf(e)) \in Nat
    BY FS_CardinalityType DEF UsersInv
  <2>2. CASE e # c
    <3>1. UsersOf(e)' = UsersOf(e)
      BY <1>2, <1>3, <2>2 DEF UsersOf, At, c
    <3> QED
      BY <1>1, <2>1, <2>2, <3>1
  <2>3. CASE e = c /\ change = 1
    <3>1. UsersOf(e)' = UsersOf(e) \cup {t} /\ t \notin UsersOf(e)
      BY <1>2, <1>3, <2>3 DEF UsersOf, At, c
    <3> QED
      <4>1. IsFiniteSet(UsersOf(e) \cup {t}) /\ Cardinality(UsersOf(e) \cup {t}) = Cardinality(UsersOf(e)) + 1
        BY <2>1, <3>1, FS_AddElement
      <4>2. elements'[e].users = elements[e].users + 1
        BY <1>1, <2>3
      <4> QED
        BY <2>1, <3>1, <4>1, <4>2
  <2>4. CASE e = c /\ change = -1
    <3>1. UsersOf(e)' = UsersOf(e) \ {t} /\ t \in UsersOf(e)
      BY <1>2, <1>3, <2>4 DEF UsersOf, At, c
    <3> QED
      <4>1. IsFiniteSet(UsersOf(e) \ {t}) /\ Cardinality(UsersOf(e) \ {t}) = Cardinality(UsersOf(e)) - 1
        BY <2>1, <3>1, FS_RemoveElement
      <4>2. elements'[e].users = elements[e].users - 1
        BY <1>1, <2>1, <2>4
      <4> QED
        BY <2>1, <3>1, <4>1, <4>2
  <2> QED
    BY <2>2, <2>3, <2>4
<1>10. PassedInv'
  <2> SUFFICES ASSUME NEW u \in Threads, thread'[u].pc \in {"evict", "erase"} PROVE PassedAt(u)'
    BY DEF PassedInv, PassedAt
  <2>1. u # t /\ thread'[u] = thread[u] /\ PassedAt(u) /\ thread[u].pc \in {"evict", "erase"}
    BY <1>2, <1>4 DEF PassedInv, InWalk
  <2>2. Passed(u)' = Passed(u) /\ walk.busy \subseteq walk'.busy /\ walk'.erased = walk.erased
    BY <1>0, <2>1 DEF Passed, TypeOK
  <2>3. IsFiniteSet(Passed(u) \ walk.busy)
    <3>1. Passed(u) \ walk.busy \in SUBSET ToSet(listCash)
      BY DEF Passed, ToSet
    <3> QED
      BY <3>1, ListedType, FS_Subset
  <2>4. Cardinality(Passed(u) \ walk'.busy) <= Cardinality(Passed(u) \ walk.busy)
        /\ Cardinality(Passed(u) \ walk'.busy) \in Nat /\ Cardinality(Passed(u) \ walk.busy) \in Nat
    <3>1. Passed(u) \ walk'.busy \in SUBSET (Passed(u) \ walk.busy)
      BY <2>2
    <3> QED
      BY <2>3, <3>1, FS_Subset, FS_CardinalityType
  <2> QED
    BY <2>1, <2>2, <2>4 DEF PassedAt, TypeOK
<1>11. WalkInv'
  <2> SUFFICES ASSUME mutex # "free" PROVE WalkInv'
    BY <1>0 DEF WalkInv
  <2>1. /\ walk'.start = walk.start
        /\ walk'.busy = walk.busy \cup Used(elements')
        /\ walk'.idle = walk.idle \cup (DOMAIN elements' \ Used(elements'))
    BY <1>0 DEF TypeOK
  <2> QED
    BY <1>0, <1>1, <1>2, <1>4, <2>1 DEF WalkInv, At, InWalk
<1> QED
  BY <1>5, <1>6, <1>7, <1>8, <1>9, <1>10, <1>11

\* One more thread uses the element, one more is counted.
LEMMA AddCountUsersInvariance ==
    ASSUME IInv, ~crashed, NEW t \in Threads, AddCountUsers(t) PROVE IInv'
BY CountInvariance DEF AddCountUsers

\* And one less.
LEMMA MinusCountUsersInvariance ==
    ASSUME IInv, ~crashed, NEW t \in Threads, MinusCountUsers(t) PROVE IInv'
BY CountInvariance DEF MinusCountUsers

\* A new element at the end of the list; whoever was in the walk is out of it.
LEMMA PushBackInvariance ==
    ASSUME IInv, ~crashed, NEW t \in Threads, PushBack(t),
           thread[t].pc \in InWalk \cup {"add"}, mutex \in {"free", t}
    PROVE  IInv'
<1> USE DEF IInv
<1> DEFINE L == Len(elements)
           R == [key : Keys, length : Nat, users : Int, known : Nat]
           new == NewCashElement(t)
<1>0. /\ elements' = Append(elements, new) /\ listCash' = Append(listCash, L + 1)
      /\ thread' = [thread EXCEPT ![t].cash = L + 1, ![t].pc = "download"]
      /\ mutex' = "free" /\ walk' = NoWalk /\ UNCHANGED <<crashed, base>>
      /\ byteInCash' = byteInCash + thread[t].dataSize
  BY DEF PushBack
<1>2. L \in Nat /\ elements \in Seq(R) /\ DOMAIN elements = 1..L
  BY DEF TypeOK
<1>1. new \in R /\ new.key = thread[t].key /\ new.users = 0 /\ new.known = thread[t].known
  <2>1. thread[t].key \in Keys
    BY DEF PlaceInv, PlaceAt, At, InWalk
  <2> QED
    <3>1. thread[t].known \in Nat
      BY ThreadType, <1>2
    <3> QED
      BY <2>1, <3>1 DEF NewCashElement
<1> HIDE DEF new, R
<1>3. /\ elements' \in Seq(R) /\ Len(elements') = L + 1 /\ DOMAIN elements' = 1..(L + 1)
      /\ \A e \in 1..L : elements'[e] = elements[e]
      /\ elements'[L + 1] = new
  BY <1>0, <1>1, <1>2
<1> HIDE DEF L
<1>4. L + 1 \notin ToSet(listCash) /\ ToSet(listCash) \subseteq 1..L
  BY <1>2, ListedType
<1>5. /\ listCash' \in Seq(DOMAIN elements') /\ ToSet(listCash') = ToSet(listCash) \cup {L + 1}
      /\ IsInjective(listCash')
  <2>1. listCash \in Seq(1..(L + 1)) /\ L + 1 \in 1..(L + 1)
    <3>1. listCash \in Seq(1..L) /\ 1..L \subseteq 1..(L + 1) /\ L + 1 \in 1..(L + 1)
      BY <1>2 DEF TypeOK
    <3> QED
      BY <3>1, SeqMonotonic
  <2>2. listCash' \in Seq(1..(L + 1))
    BY <1>0, <2>1
  <2>3. ToSet(listCash') = ToSet(listCash) \cup {L + 1} /\ IsInjective(listCash')
    BY <1>0, <1>4, <2>1, AppendSet DEF ListInv
  <2> QED
    BY <1>3, <2>2, <2>3
<1>6. /\ \A u \in Threads : u # t => thread'[u] = thread[u]
      /\ thread'[t].pc = "download" /\ thread'[t].cash = L + 1 /\ thread'[t].key = thread[t].key
  BY <1>0 DEF TypeOK
<1>7. TypeOK'
  <2> DEFINE r == [thread[t] EXCEPT !.cash = L + 1, !.pc = "download"]
             Q == [pc : Places, key : Keys \cup {NoKey}, dataSize : Nat,
                   cash : 0..(L + 1), it : Nat, lost : BOOLEAN, known : 0..(L + 1)]
  <2>1. thread' = [thread EXCEPT ![t] = r]
    BY <1>0 DEF TypeOK
  <2>2. \A u \in Threads : thread[u] \in Q
    <3> SUFFICES ASSUME NEW u \in Threads PROVE thread[u] \in Q
      OBVIOUS
    <3>1. thread[u] \in [pc : Places, key : Keys \cup {NoKey}, dataSize : Nat,
                         cash : 0..L, it : Nat, lost : BOOLEAN, known : 0..L]
      BY DEF TypeOK, L
    <3>2. 0..L \subseteq 0..(L + 1)
      BY <1>2
    <3> QED
      BY <3>1, <3>2
  <2>3. r \in Q
    <3>1. thread[t] \in Q /\ L + 1 \in 0..(L + 1)
      BY <1>2, <2>2
    <3> QED
      BY <3>1 DEF Places
  <2>4. DOMAIN thread = Threads
    BY DEF TypeOK
  <2> HIDE DEF r, Q
  <2>5. thread' \in [Threads -> Q]
    <3>1. thread \in [Threads -> Q]
      BY <2>2, <2>4 DEF TypeOK
    <3> QED
      BY <2>1, <2>3, <3>1
  <2>6. walk' \in [start : SUBSET DOMAIN elements', busy : SUBSET DOMAIN elements',
                   idle : SUBSET DOMAIN elements', erased : Nat]
    BY <1>0 DEF NoWalk
  <2>7. byteInCash' \in Int
    BY <1>0, ThreadType DEF TypeOK
  <2> QED
    BY <1>0, <1>3, <1>5, <2>5, <2>6, <2>7 DEF TypeOK, Q, R
<1>8. \A u \in Threads : u # t => thread[u].pc \notin InWalk
  BY DEF PlaceInv, PlaceAt
<1>9. PlaceInv'
  <2>1. \A u \in Threads : u # t => PlaceAt(u)'
    <3> SUFFICES ASSUME NEW u \in Threads, u # t PROVE PlaceAt(u)'
      OBVIOUS
    <3>1. PlaceAt(u) /\ thread'[u] = thread[u] /\ thread[u].pc \notin InWalk
      BY <1>6, <1>8 DEF PlaceInv
    <3>2. DOMAIN elements \subseteq DOMAIN elements'
      BY <1>2, <1>3
    <3> QED
      BY <1>0, <3>1, <3>2 DEF PlaceAt, At, InWalk
  <2>2. PlaceAt(t)'
    <3>1. L + 1 \in DOMAIN elements' /\ thread[t].key \in Keys
      BY <1>2, <1>3 DEF PlaceInv, PlaceAt, At, InWalk
    <3> QED
      BY <1>0, <1>6, <3>1 DEF PlaceAt, At, InWalk
  <2> QED
    BY <2>1, <2>2 DEF PlaceInv
<1>10. \A e \in ToSet(listCash) : elements'[e] = elements[e]
  BY <1>3, <1>4
<1>11. FindInv'
  <2>1. \A k : Listed(k) => Listed(k)'
    BY <1>5, <1>10 DEF Listed
  <2> QED
    BY <1>6, <2>1 DEF FindInv, FindAt, At
<1>12. KnownInv'
  <2> SUFFICES ASSUME NEW u \in Threads, thread'[u].pc \in InWalk \cup {"add"},
                      NEW e \in ToSet(listCash'), elements'[e].key = thread'[u].key
               PROVE  thread'[u].known < e
    BY DEF KnownInv, KnownAt
  <2>1. u # t /\ thread'[u] = thread[u]
    BY <1>6 DEF InWalk
  <2>2. CASE e \in ToSet(listCash)
    BY <1>10, <2>1, <2>2 DEF KnownInv, KnownAt
  <2>3. CASE e = L + 1
    <3>1. thread[u].known \in 0..L
      BY ThreadType DEF L
    <3> QED
      BY <2>1, <2>3, <3>1, <1>2
  <2> QED
    BY <1>5, <2>2, <2>3
<1>13. UsersInv'
  <2>1. \A e : UsersOf(e)' = UsersOf(e)
    BY <1>6 DEF UsersOf, At, InWalk
  <2>2. \A u \in Threads : At(u, "use") => thread[u].cash \in 1..L
    BY <1>2 DEF PlaceInv, PlaceAt, At, Holders
  <2>3. UsersOf(L + 1) = {}
    BY <1>2, <2>2 DEF UsersOf
  <2>4. IsFiniteSet(UsersOf(L + 1)) /\ Cardinality(UsersOf(L + 1)) = 0
    BY <2>3, FS_EmptySet
  <2>5. \A e \in 1..(L + 1) : e \in 1..L \/ e = L + 1
    BY <1>2
  <2> QED
    BY <1>1, <1>2, <1>3, <2>1, <2>4, <2>5 DEF UsersInv
<1>14. PassedInv' /\ WalkInv'
  BY <1>0, <1>9 DEF PassedInv, PassedAt, PlaceInv, PlaceAt, InWalk, WalkInv
<1>15. ListInv' /\ NullOnlyAfterEviction'
  BY <1>0, <1>5 DEF ListInv, NullOnlyAfterEviction
<1>16. DuplicatesRaced'
  <2> SUFFICES ASSUME NEW e \in ToSet(listCash'), NEW f \in ToSet(listCash'), e < f,
                      elements'[e].key = elements'[f].key
               PROVE  elements'[f].known < e
    BY DEF DuplicatesRaced
  <2>1. CASE f \in ToSet(listCash)
    <3>1. f \in 1..L
      BY <1>4, <2>1
    <3>2. e \in ToSet(listCash)
      BY <1>2, <1>5, <3>1
    <3> QED
      BY <1>10, <2>1, <3>2 DEF DuplicatesRaced
  <2>2. CASE f = L + 1
    <3>1. e \in ToSet(listCash)
      BY <1>5, <2>2, <1>2
    <3>2. elements[e].key = thread[t].key
      BY <1>1, <1>3, <1>10, <2>2, <3>1
    <3>3. thread[t].known < e
      BY <3>1, <3>2 DEF KnownInv, KnownAt
    <3> QED
      BY <1>1, <1>3, <2>2, <3>3
  <2> QED
    BY <1>5, <2>1, <2>2
<1> QED
  BY <1>7, <1>9, <1>11, <1>12, <1>13, <1>14, <1>15, <1>16

\* Refused, added at once, or after a walk.
LEMMA AddStringToCashInvariance ==
    ASSUME IInv, ~crashed, NEW t \in Threads, AddStringToCash(t) PROVE IInv'
BY RefuseInvariance, PushBackInvariance, StartWalkInvariance DEF AddStringToCash, At

\* After the walk: refused or added.
LEMMA EndOfWalkInvariance ==
    ASSUME IInv, ~crashed, NEW t \in Threads, EndOfWalk(t) PROVE IInv'
<1>1. thread[t].pc \in InWalk /\ mutex = t
  BY DEF EndOfWalk, WalkIsOver, At, InWalk, IInv, PlaceInv, PlaceAt
<1> QED
  BY <1>1, RefuseInvariance, PushBackInvariance DEF EndOfWalk, At, InWalk

\* What the iterator of t is past.
LEMMA PassedFinite ==
    ASSUME TypeOK, NEW t \in Threads
    PROVE  /\ IsFiniteSet(Passed(t) \ walk.busy)
           /\ Cardinality(Passed(t) \ walk.busy) \in Nat
<1>1. Passed(t) \ walk.busy \in SUBSET ToSet(listCash)
  BY DEF Passed, ToSet
<1> QED
  BY <1>1, ListedType, FS_Subset, FS_CardinalityType

\* The test leaves an unused element to be erased or passes over a used one.
LEMMA EvictTestInvariance ==
    ASSUME IInv, ~crashed, NEW t \in Threads, EvictTest(t) PROVE IInv'
<1> USE DEF IInv
<1> DEFINE i == thread[t].it
           c == listCash[i]
           R == [pc : Places, key : Keys \cup {NoKey}, dataSize : Nat,
                 cash : 0..Len(elements), it : Nat, lost : BOOLEAN, known : 0..Len(elements)]
<1>0. /\ thread[t].pc = "evict" /\ mutex = t
      /\ UNCHANGED <<listCash, elements, byteInCash, mutex, crashed, base, walk>>
      /\ i \in DOMAIN listCash /\ i \in Nat
  BY ListedType, ThreadType DEF EvictTest, At, PlaceInv, PlaceAt, InWalk
<1>1. c \in DOMAIN elements /\ elements[c].users \in Int
  BY <1>0, ListedType, ElementType
<1>2. \A u \in Threads : u # t => thread'[u] = thread[u] /\ thread[u].pc \notin InWalk
  BY <1>0 DEF EvictTest, TypeOK, PlaceInv, PlaceAt
<1>3. /\ thread'[t].key = thread[t].key /\ thread'[t].known = thread[t].known
      /\ \/ elements[c].users <= 0 /\ thread'[t].pc = "erase" /\ thread'[t].it = i
         \/ elements[c].users > 0 /\ thread'[t].pc = "evict" /\ thread'[t].it = i + 1
      /\ thread'[t] \in R
      /\ thread' = [thread EXCEPT ![t] = thread'[t]]
  <2>1. CASE elements[c].users <= 0
    <3>1. thread' = [thread EXCEPT ![t].pc = "erase"]
      BY <2>1 DEF EvictTest
    <3>2. thread[t] \in R
      BY DEF TypeOK
    <3> QED
      BY <2>1, <3>1, <3>2 DEF TypeOK, Places
  <2>2. CASE ~(elements[c].users <= 0)
    <3> DEFINE r == [thread[t] EXCEPT !.it = i + 1]
    <3>1. thread' = [thread EXCEPT ![t] = r]
      BY <2>2 DEF EvictTest
    <3>2. thread[t] \in R /\ thread \in [Threads -> R] /\ i + 1 \in Nat
      <4>1. thread \in [Threads -> R]
        BY DEF TypeOK
      <4> HIDE DEF R
      <4> QED
        BY <1>0, <4>1
    <3>3. r \in R /\ r.it = i + 1 /\ r.pc = thread[t].pc /\ r.key = thread[t].key /\ r.known = thread[t].known
      BY <3>2
    <3> HIDE DEF r, R
    <3>4. thread'[t] = r /\ thread' = [thread EXCEPT ![t] = thread'[t]]
      BY <3>1, <3>2
    <3>5. elements[c].users > 0
      BY <1>1, <2>2
    <3> QED
      BY <1>0, <3>3, <3>4, <3>5
  <2> QED
    BY <2>1, <2>2
<1> HIDE DEF c
<1>4. TypeOK'
  <2>1. thread \in [Threads -> R]
    BY DEF TypeOK
  <2> HIDE DEF R
  <2>2. thread' \in [Threads -> R]
    BY <1>3, <2>1
  <2> QED
    BY <1>0, <2>2 DEF TypeOK, R
<1> HIDE DEF R
<1>5. PlaceInv'
  <2>1. \A u \in Threads : u # t => PlaceAt(u)'
    BY <1>0, <1>2 DEF PlaceInv, PlaceAt, At
  <2>2. PlaceAt(t)'
    BY <1>0, <1>3 DEF PlaceInv, PlaceAt, At, InWalk, Holders
  <2> QED
    BY <2>1, <2>2 DEF PlaceInv
<1>6. FindInv'
  BY <1>0, <1>2, <1>3 DEF FindInv, FindAt, At, Listed
<1>7. KnownInv'
  BY <1>0, <1>2, <1>3 DEF KnownInv, KnownAt, InWalk
<1>8. UsersInv'
  <2>1. \A e : UsersOf(e)' = UsersOf(e)
    BY <1>0, <1>2, <1>3 DEF UsersOf, At
  <2> QED
    BY <1>0, <2>1 DEF UsersInv
<1>9. ListInv' /\ DuplicatesRaced' /\ NullOnlyAfterEviction'
  BY <1>0 DEF ListInv, DuplicatesRaced, NullOnlyAfterEviction
<1>10. WalkInv'
  <2>1. mutex # "free"
    BY <1>0
  <2>2. elements[c].users <= 0 => c \in walk.idle
    BY <1>1, <2>1 DEF WalkInv, Used
  <2> QED
    BY <1>0, <1>2, <1>3, <2>1, <2>2 DEF WalkInv, At, Used, InWalk, c
<1>11. PassedInv'
  <2>1. \A u \in Threads : u # t => PassedAt(u)'
    BY <1>2 DEF PassedAt, InWalk
  <2>2. PassedAt(t)'
    <3>1. PassedAt(t) /\ thread[t].pc = "evict"
      BY <1>0 DEF PassedInv
    <3>2. CASE thread'[t].it = i
      <4>1. Passed(t)' = Passed(t)
        BY <1>0, <3>2 DEF Passed
      <4> QED
        BY <1>0, <3>1, <4>1 DEF PassedAt
    <3>3. CASE elements[c].users > 0 /\ thread'[t].it = i + 1
      <4>1. \A m \in DOMAIN listCash : m < i + 1 <=> m < i \/ m = i
        BY <1>0, ListedType
      <4>2. Passed(t)' = Passed(t) \cup {c}
        BY <1>0, <3>3, <4>1 DEF Passed, c
      <4>3. c \in walk.busy
        BY <1>0, <1>1, <3>3 DEF WalkInv, Used
      <4>4. Passed(t)' \ walk'.busy = Passed(t) \ walk.busy
        BY <1>0, <4>2, <4>3
      <4> QED
        BY <1>0, <3>1, <4>4 DEF PassedAt
    <3> QED
      BY <1>3, <3>2, <3>3
  <2> QED
    BY <2>1, <2>2 DEF PassedInv
<1> QED
  BY <1>4, <1>5, <1>6, <1>7, <1>8, <1>9, <1>10, <1>11

\* The erased element was unused at its test; the iterator skips at most one.
LEMMA EvictEraseInvariance ==
    ASSUME IInv, ~crashed, NEW t \in Threads, EvictErase(t) PROVE IInv'
<1> USE DEF IInv
<1> DEFINE i == thread[t].it
           c == listCash[i]
           rest == RemoveAt(listCash, i)
           R == [pc : Places, key : Keys \cup {NoKey}, dataSize : Nat,
                 cash : 0..Len(elements), it : Nat, lost : BOOLEAN, known : 0..Len(elements)]
<1>0. /\ thread[t].pc = "erase" /\ mutex = t /\ thread[t].key \in Keys
      /\ i \in DOMAIN listCash /\ i \in 1..Len(listCash) /\ i \in Nat
      /\ UNCHANGED <<elements, mutex, crashed, base>>
      /\ listCash' = rest /\ walk' = [walk EXCEPT !.erased = @ + 1]
      /\ byteInCash' = byteInCash - elements[c].length - HeadingSize
  BY ListedType, ThreadType DEF EvictErase, At, PlaceInv, PlaceAt, InWalk
<1>1. c \in DOMAIN elements /\ elements[c].length \in Nat /\ c \in walk.idle
  BY <1>0, ListedType, ElementType DEF WalkInv, At
<1>2. /\ rest \in Seq(DOMAIN elements) /\ Len(rest) = Len(listCash) - 1
      /\ \A m \in 1..(Len(listCash) - 1) : rest[m] = IF m < i THEN listCash[m] ELSE listCash[m + 1]
      /\ ToSet(rest) = ToSet(listCash) \ {c} /\ IsInjective(rest)
  <2>1. listCash \in Seq(DOMAIN elements) /\ IsInjective(listCash) /\ i \in 1..Len(listCash)
    BY <1>0 DEF TypeOK, ListInv
  <2> QED
    BY <2>1, RemoveAtFacts, RemoveAtSet
<1>3. \A u \in Threads : u # t =>
        /\ thread[u].pc \notin InWalk
        /\ thread'[u] = [thread[u] EXCEPT !.lost = @ \/ (At(u, "find") /\ thread[u].key = elements[c].key)]
  BY <1>0 DEF EvictErase, PlaceInv, PlaceAt
<1>4. thread'[t] = [thread[t] EXCEPT !.it = AfterErase(@, Len(rest)),
                                   !.pc = IF Fits(t, byteInCash') THEN "walked" ELSE "evict"]
  BY DEF EvictErase
<1> HIDE DEF c, rest
<1>5. Len(rest) \in Nat /\ AfterErase(i, Len(rest)) \in {1, i + 1}
  BY <1>0, <1>2, ListedType DEF AfterErase
<1>6. /\ \A u \in Threads : thread'[u] \in R
      /\ \A u \in Threads : u # t =>
           /\ thread'[u].pc = thread[u].pc /\ thread'[u].key = thread[u].key
           /\ thread'[u].cash = thread[u].cash /\ thread'[u].known = thread[u].known
           /\ thread'[u].it = thread[u].it
           /\ thread'[u].lost = (thread[u].lost \/ (At(u, "find") /\ thread[u].key = elements[c].key))
      /\ thread'[t].pc \in {"walked", "evict"} /\ thread'[t].it = AfterErase(i, Len(rest))
      /\ thread'[t].key = thread[t].key /\ thread'[t].known = thread[t].known
  <2>1. \A u \in Threads : thread[u] \in R
    BY DEF TypeOK
  <2>2. ASSUME NEW u \in Threads, u # t
        PROVE  /\ thread'[u] \in R
               /\ thread'[u].pc = thread[u].pc /\ thread'[u].key = thread[u].key
               /\ thread'[u].cash = thread[u].cash /\ thread'[u].known = thread[u].known
               /\ thread'[u].it = thread[u].it
               /\ thread'[u].lost = (thread[u].lost \/ (At(u, "find") /\ thread[u].key = elements[c].key))
    <3> DEFINE gone == thread[u].lost \/ (At(u, "find") /\ thread[u].key = elements[c].key)
    <3>1. gone \in BOOLEAN
      OBVIOUS
    <3>2. thread'[u] = [thread[u] EXCEPT !.lost = gone]
      BY <1>3, <2>2
    <3> HIDE DEF gone
    <3>3. /\ thread'[u] \in R
          /\ thread'[u].pc = thread[u].pc /\ thread'[u].key = thread[u].key
          /\ thread'[u].cash = thread[u].cash /\ thread'[u].known = thread[u].known
          /\ thread'[u].it = thread[u].it
      BY <2>1, <3>1, <3>2
    <3>4. thread'[u].lost = gone
      BY <2>1, <3>2
    <3> QED
      BY <3>3, <3>4 DEF gone
  <2>3. AfterErase(i, Len(rest)) \in Nat
    BY <1>0, <1>5
  <2>4. thread'[t] \in R
    BY <1>4, <2>1, <2>3 DEF Places
  <2>6. /\ thread'[t].pc \in {"walked", "evict"} /\ thread'[t].it = AfterErase(i, Len(rest))
        /\ thread'[t].key = thread[t].key /\ thread'[t].known = thread[t].known
    BY <1>4, <2>1
  <2> HIDE DEF R
  <2>7. \A u \in Threads : thread'[u] \in R
    BY <2>2, <2>4
  <2> QED
    BY <2>2, <2>6, <2>7
<1>7. TypeOK'
  <2>1. thread' \in [Threads -> R]
    <3>1. DOMAIN thread' = Threads /\ thread' = [u \in Threads |-> thread'[u]]
      BY DEF EvictErase
    <3> HIDE DEF R
    <3> QED
      BY <1>6, <3>1
  <2>2. byteInCash' \in Int
    <3>1. byteInCash \in Int /\ elements[c].length \in Int /\ HeadingSize \in Int
      BY <1>1, SizeAssumption DEF TypeOK
    <3> QED
      BY <1>0, <3>1
  <2>3. walk' \in [start : SUBSET DOMAIN elements, busy : SUBSET DOMAIN elements,
                   idle : SUBSET DOMAIN elements, erased : Nat]
    <3>1. /\ walk \in [start : SUBSET DOMAIN elements, busy : SUBSET DOMAIN elements,
                        idle : SUBSET DOMAIN elements, erased : Nat]
          /\ walk.erased + 1 \in Nat
      BY DEF TypeOK
    <3> HIDE DEF R
    <3> QED
      BY <1>0, <3>1
  <2> QED
    BY <1>0, <1>2, <2>1, <2>2, <2>3 DEF TypeOK
<1> HIDE DEF R
<1>8. PlaceInv'
  <2>1. \A u \in Threads : u # t => PlaceAt(u)'
    BY <1>0, <1>3, <1>6 DEF PlaceInv, PlaceAt, At, InWalk
  <2>2. PlaceAt(t)'
    BY <1>0, <1>5, <1>6 DEF PlaceAt, At, InWalk, Holders
  <2> QED
    BY <2>1, <2>2 DEF PlaceInv
<1>9. FindInv'
  <2> SUFFICES ASSUME NEW u \in Threads, thread'[u].pc = "find"
               PROVE  (\E e \in ToSet(listCash') : elements'[e].key = thread'[u].key) \/ thread'[u].lost
    BY DEF FindInv, FindAt, At, Listed
  <2>1. u # t /\ At(u, "find") /\ thread'[u].key = thread[u].key
    BY <1>6 DEF At
  <2>2. Listed(thread[u].key) \/ thread[u].lost
    BY <2>1 DEF FindInv, FindAt
  <2>3. CASE thread[u].key = elements[c].key \/ thread[u].lost
    BY <1>6, <2>1, <2>3
  <2>4. CASE Listed(thread[u].key) /\ thread[u].key # elements[c].key
    <3>1. PICK f \in ToSet(listCash) : elements[f].key = thread[u].key
      BY <2>4 DEF Listed
    <3>2. f \in ToSet(rest) /\ elements' = elements
      BY <1>0, <1>2, <2>4, <3>1
    <3> QED
      BY <1>0, <2>1, <3>1, <3>2
  <2> QED
    BY <2>2, <2>3, <2>4
<1>10. KnownInv'
  <2>1. ToSet(listCash') \subseteq ToSet(listCash)
    BY <1>0, <1>2
  <2> QED
    BY <1>0, <1>6, <2>1 DEF KnownInv, KnownAt, InWalk
<1>11. UsersInv'
  <2>1. \A e : UsersOf(e)' = UsersOf(e)
    BY <1>0, <1>6 DEF UsersOf, At
  <2> QED
    BY <1>0, <2>1 DEF UsersInv
<1>12. ListInv' /\ DuplicatesRaced' /\ NullOnlyAfterEviction'
  BY <1>0, <1>2 DEF ListInv, DuplicatesRaced, NullOnlyAfterEviction
<1>13. WalkInv'
  <2>1. mutex # "free" /\ walk'.start = walk.start /\ walk'.idle = walk.idle /\ walk'.busy = walk.busy
    BY <1>0 DEF TypeOK
  <2>2. \A u \in Threads : thread'[u].pc # "erase"
    <3>1. \A u \in Threads : u # t => thread'[u].pc = thread[u].pc /\ thread[u].pc # "erase"
      BY <1>3, <1>6 DEF InWalk
    <3>2. thread'[t].pc # "erase"
      BY <1>6
    <3> QED
      BY <3>1, <3>2
  <2> QED
    BY <1>0, <1>1, <1>2, <2>1, <2>2 DEF WalkInv, At, Used
<1>14. PassedInv'
  <2>1. \A u \in Threads : u # t => PassedAt(u)'
    <3>1. ASSUME NEW u \in Threads, u # t PROVE thread'[u].pc \notin {"evict", "erase"}
      <4>1. thread[u].pc \notin InWalk
        BY <1>3, <3>1
      <4>2. thread'[u].pc = thread[u].pc
        BY <1>6, <3>1
      <4> QED
        BY <4>1, <4>2 DEF InWalk
    <3> QED
      BY <3>1 DEF PassedAt
  <2>2. PassedAt(t)'
    <3>0. walk'.erased = walk.erased + 1 /\ walk.erased \in Nat /\ walk'.busy = walk.busy
      BY <1>0 DEF TypeOK
    <3>1. CASE thread'[t].it = 1
      <4>1. Passed(t)' = {}
        BY <1>0, <1>2, <3>1 DEF Passed
      <4>2. Cardinality(Passed(t)' \ walk'.busy) = 0
        BY <4>1, FS_EmptySet
      <4> QED
        BY <3>0, <4>2 DEF PassedAt
    <3>2. CASE thread'[t].it = i + 1
      <4>1. Passed(t)' \subseteq Passed(t) \cup {rest[i]}
        <5> SUFFICES ASSUME NEW m \in DOMAIN rest, m < i + 1 PROVE rest[m] \in Passed(t) \cup {rest[i]}
          BY <1>0, <3>2 DEF Passed
        <5>1. m \in 1..(Len(listCash) - 1) /\ m \in DOMAIN listCash
          BY <1>2, ListedType
        <5>2. CASE m < i
          BY <1>2, <5>1, <5>2 DEF Passed
        <5>3. CASE m = i
          BY <5>3
        <5> QED
          BY <1>0, <5>1, <5>2, <5>3
      <4>2. Passed(t)' \ walk'.busy \in SUBSET ((Passed(t) \ walk.busy) \cup {rest[i]})
        BY <3>0, <4>1
      <4> DEFINE P == Passed(t) \ walk.busy
      <4>3. IsFiniteSet(P) /\ Cardinality(P) \in Nat
        BY PassedFinite
      <4>4. Cardinality(P) <= walk.erased
        BY <1>0 DEF PassedInv, PassedAt
      <4> HIDE DEF P
      <4>5. /\ IsFiniteSet(P \cup {rest[i]}) /\ Cardinality(P \cup {rest[i]}) <= Cardinality(P) + 1
            /\ Cardinality(P \cup {rest[i]}) \in Nat
        <5> DEFINE x == rest[i]
        <5> HIDE DEF x
        <5>1. IsFiniteSet(P \cup {x}) /\ Cardinality(P \cup {x}) \in {Cardinality(P), Cardinality(P) + 1}
          BY <4>3, FS_AddElement
        <5> QED
          BY <4>3, <5>1 DEF x
      <4>6. /\ Cardinality(Passed(t)' \ walk'.busy) <= Cardinality(P \cup {rest[i]})
            /\ Cardinality(Passed(t)' \ walk'.busy) \in Nat
        <5>1. Passed(t)' \ walk'.busy \in SUBSET (P \cup {rest[i]})
          BY <4>2 DEF P
        <5> QED
          BY <4>5, <5>1, FS_Subset, FS_CardinalityType
      <4> QED
        BY <3>0, <4>3, <4>4, <4>5, <4>6 DEF PassedAt
    <3> QED
      BY <1>5, <1>6, <3>1, <3>2
  <2> QED
    BY <2>1, <2>2 DEF PassedInv
<1> QED
  BY <1>7, <1>8, <1>9, <1>10, <1>11, <1>12, <1>13, <1>14

\* An element grows: nothing but its length changes.
LEMMA AppendStringFacts ==
    ASSUME IInv, NEW t \in Threads, AppendStringToCash(t)
    PROVE  /\ thread[t].cash \in DOMAIN elements
           /\ Len(elements') = Len(elements) /\ DOMAIN elements' = DOMAIN elements
           /\ elements' \in Seq([key : Keys, length : Nat, users : Int, known : Nat])
           /\ \A e \in DOMAIN elements :
                /\ elements'[e].key = elements[e].key /\ elements'[e].known = elements[e].known
                /\ elements'[e].users = elements[e].users
                /\ elements'[e].length = IF e = thread[t].cash THEN elements[e].length + 1
                                                              ELSE elements[e].length
<1> DEFINE c == thread[t].cash
           x == [elements[c] EXCEPT !.length = @ + 1]
           R == [key : Keys, length : Nat, users : Int, known : Nat]
<1>1. elements' = [elements EXCEPT ![c] = x]
  BY DEF AppendStringToCash
<1>2. elements \in Seq(R) /\ c \in 1..Len(elements) /\ c \in DOMAIN elements
  BY DEF IInv, TypeOK, PlaceInv, PlaceAt, AppendStringToCash, At, Holders
<1>3. elements[c] \in R
  BY <1>2, ElementOfSeq
<1>4. /\ x \in R /\ x.key = elements[c].key /\ x.known = elements[c].known
      /\ x.users = elements[c].users /\ x.length = elements[c].length + 1
  BY <1>3
<1> HIDE DEF x, R, c
<1>5. elements' \in Seq(R) /\ Len(elements') = Len(elements)
      /\ \A e \in 1..Len(elements) : elements'[e] = IF e = c THEN x ELSE elements[e]
  BY <1>1, <1>2, <1>4, ExceptSeq
<1>6. DOMAIN elements = 1..Len(elements) /\ DOMAIN elements' = 1..Len(elements')
  BY <1>2, <1>5
<1> QED
  BY <1>2, <1>4, <1>5, <1>6 DEF R, c

\* The length of an element is nothing the invariant is about.
LEMMA AppendStringInvariance ==
    ASSUME IInv, ~crashed, NEW t \in Threads, AppendStringToCash(t) PROVE IInv'
<1> USE DEF IInv
<1>0. UNCHANGED <<listCash, byteInCash, mutex, thread, crashed, base, walk>>
  BY DEF AppendStringToCash
<1>1. /\ Len(elements') = Len(elements) /\ DOMAIN elements' = DOMAIN elements
      /\ elements' \in Seq([key : Keys, length : Nat, users : Int, known : Nat])
      /\ \A e \in DOMAIN elements :
           /\ elements'[e].key = elements[e].key /\ elements'[e].known = elements[e].known
           /\ elements'[e].users = elements[e].users
  BY AppendStringFacts
<1>2. \A e \in ToSet(listCash) : elements'[e].key = elements[e].key /\ elements'[e].known = elements[e].known
  BY <1>1, ListedType
<1>3. TypeOK'
  BY <1>0, <1>1 DEF TypeOK
<1>4. PlaceInv' /\ UsersInv'
  <2>1. \A e : UsersOf(e)' = UsersOf(e)
    BY <1>0 DEF UsersOf, At
  <2> QED
    BY <1>0, <1>1, <2>1 DEF PlaceInv, PlaceAt, At, UsersInv
<1>5. FindInv' /\ KnownInv'
  BY <1>0, <1>2 DEF FindInv, FindAt, KnownInv, KnownAt, At, Listed
<1>6. ListInv' /\ DuplicatesRaced' /\ NullOnlyAfterEviction'
  BY <1>0, <1>2 DEF ListInv, DuplicatesRaced, NullOnlyAfterEviction
<1>7. WalkInv'
  <2>1. Used(elements') = Used(elements)
    BY <1>1 DEF Used
  <2> QED
    BY <1>0, <1>1, <2>1 DEF WalkInv, At
<1>8. PassedInv'
  BY <1>0 DEF PassedInv, PassedAt, Passed
<1> QED
  BY <1>3, <1>4, <1>5, <1>6, <1>7, <1>8

\* IInv holds throughout: one case for each action of a thread.
THEOREM Invariance == Spec => []IInv
<1>1. IInv /\ [Next]_vars => IInv'
  <2> SUFFICES ASSUME IInv, [Next]_vars PROVE IInv'
    OBVIOUS
  <2>1. CASE Next
    <3>1. PICK t \in Threads : Step(t)
      BY <2>1 DEF Next
    <3>2. ~crashed
      BY <2>1 DEF Next
    <3>3. CASE IsElementInCash(t)
      BY <3>2, <3>3, IsElementInCashInvariance
    <3>4. CASE FindResponseInCash(t)
      BY <3>2, <3>4, FindResponseInCashInvariance
    <3>5. CASE AddCountUsers(t)
      BY <3>2, <3>5, CountInvariance DEF AddCountUsers
    <3>6. CASE MinusCountUsers(t)
      BY <3>2, <3>6, CountInvariance DEF MinusCountUsers
    <3>7. CASE CheckBeforeAdd(t)
      BY <3>2, <3>7, CheckBeforeAddInvariance
    <3>8. CASE AddStringToCash(t)
      BY <3>2, <3>8, AddStringToCashInvariance
    <3>9. CASE EvictTest(t)
      BY <3>2, <3>9, EvictTestInvariance
    <3>10. CASE EvictErase(t)
      BY <3>2, <3>10, EvictEraseInvariance
    <3>11. CASE EndOfWalk(t)
      BY <3>2, <3>11, EndOfWalkInvariance
    <3>12. CASE AppendStringToCash(t)
      BY <3>2, <3>12, AppendStringInvariance
    <3>13. CASE EndDownload(t)
      BY <3>2, <3>13, EndDownloadInvariance
    <3> QED
      BY <3>1, <3>3, <3>4, <3>5, <3>6, <3>7, <3>8, <3>9, <3>10, <3>11, <3>12, <3>13 DEF Step
  <2>2. CASE UNCHANGED vars
    <3>1. UNCHANGED <<listCash, elements, byteInCash, mutex, thread, crashed, base, walk>>
      BY <2>2 DEF vars
    <3>2. TypeOK' /\ PlaceInv' /\ FindInv' /\ KnownInv'
      BY <3>1 DEF IInv, TypeOK, PlaceInv, PlaceAt, FindInv, FindAt, KnownInv, KnownAt, At, Listed
    <3>3. UsersInv'
      BY <3>1 DEF IInv, UsersInv, UsersOf, At
    <3>4. ListInv' /\ WalkInv' /\ DuplicatesRaced' /\ NullOnlyAfterEviction'
      BY <3>1 DEF IInv, ListInv, WalkInv, DuplicatesRaced, NullOnlyAfterEviction, At, Used
    <3>5. PassedInv'
      BY <3>1 DEF IInv, PassedInv, PassedAt, Passed
    <3> QED
      BY <3>2, <3>3, <3>4, <3>5 DEF IInv
  <2> QED
    BY <2>1, <2>2
<1> QED
  BY <1>1, InitInv, PTL DEF Spec

\* The variables keep their types; in particular the cache lists elements that exist.
THEOREM TypeCorrect == Spec => []TypeOK
BY Invariance, PTL DEF IInv

\* findResponseInCash returns nullptr (which the handler then uses) only to a
\* thread whose key was evicted after isElementInCash told it of the key.
THEOREM NullIsEvicted == Spec => []NullOnlyAfterEviction
BY Invariance, PTL DEF IInv

\* A key is listed twice only by two misses that were in flight together.
THEOREM DuplicatesAreRaces == Spec => []DuplicatesRaced
BY Invariance, PTL DEF IInv

\* The walk of addStringToCash evicts no element that was in use throughout it.
THEOREM UsersKeepTheirElement == Spec => []UsersKeepElement
<1>1. IInv => UsersKeepElement
  BY DEF IInv, WalkInv, UsersKeepElement
<1> QED
  BY <1>1, Invariance, PTL

\* A walk that reached the end of the list left at most as many elements that
\* were unused all along as it erased: an erasure makes it skip one at most.
THEOREM WalkExhausts == Spec => []Exhausted
<1>1. IInv => Exhausted
  <2> SUFFICES ASSUME IInv, NEW t \in Threads, At(t, "evict"), WalkIsOver(t)
               PROVE  Cardinality(ToSet(listCash) \ walk.busy) <= walk.erased
    BY DEF Exhausted
  <2>1. PassedAt(t) /\ thread[t].it > Len(listCash)
    BY DEF IInv, PassedInv, WalkIsOver, At
  <2>2. /\ DOMAIN listCash = 1..Len(listCash) /\ Len(listCash) \in Nat /\ thread[t].it \in Nat
        /\ ToSet(listCash) = {listCash[n] : n \in DOMAIN listCash}
    BY ListedType, ThreadType DEF IInv, ToSet
  <2>3. Passed(t) = ToSet(listCash)
    BY <2>1, <2>2 DEF Passed
  <2> QED
    BY <2>1, <2>3 DEF PassedAt, At
<1> QED
  BY <1>1, Invariance, PTL

-----------------------------------------------------------------------------
(* The account.                                                            *)

\* What is reserved for an element that is downloaded, and for one that is not.
LEMMA ReservedFacts ==
    ASSUME NEW th, NEW es, NEW e, OneDownload(th)
    PROVE  /\ \A t \in Threads : Downloads(th, t, e) => ReservedIn(th, es, e) = th[t].dataSize
           /\ (\A t \in Threads : ~Downloads(th, t, e)) => ReservedIn(th, es, e) = es[e].length + HeadingSize
<1>1. ASSUME NEW t \in Threads, Downloads(th, t, e) PROVE ReservedIn(th, es, e) = th[t].dataSize
  <2> DEFINE u == CHOOSE u \in Threads : Downloads(th, u, e)
  <2>1. u \in Threads /\ Downloads(th, u, e)
    BY <1>1
  <2>2. u = t
    BY <1>1, <2>1 DEF OneDownload
  <2> QED
    BY <1>1, <2>2 DEF ReservedIn
<1>2. ASSUME \A t \in Threads : ~Downloads(th, t, e)
      PROVE  ReservedIn(th, es, e) = es[e].length + HeadingSize
  BY <1>2 DEF ReservedIn
<1> QED
  BY <1>1, <1>2

\* What is reserved is a number, and covers what the element holds.
LEMMA ReservedType ==
    ASSUME TypeOK, PlaceInv, DownloadInv, NEW e \in DOMAIN elements
    PROVE  Reserved(e) \in Nat /\ elements[e].length + HeadingSize <= Reserved(e)
<1>1. elements[e].length + HeadingSize \in Nat
  <2>1. elements[e].length \in Nat /\ HeadingSize \in Nat
    BY ElementType
  <2> QED
    BY <2>1
<1>2. CASE \E t \in Threads : Downloads(thread, t, e)
  <2>1. PICK t \in Threads : Downloads(thread, t, e)
    BY <1>2
  <2>2. Reserved(e) = thread[t].dataSize
    BY <2>1, ReservedFacts DEF DownloadInv, Reserved
  <2> QED
    BY <2>1, <2>2, ThreadType DEF DownloadInv, Downloads, At
<1>3. CASE \A t \in Threads : ~Downloads(thread, t, e)
  <2>1. Reserved(e) = elements[e].length + HeadingSize
    BY <1>3, ReservedFacts DEF DownloadInv, Reserved
  <2> QED
    BY <1>1, <2>1
<1> QED
  BY <1>2, <1>3

\* The weights are numbers, one for each listed element.
LEMMA WeightsType == TypeOK /\ PlaceInv /\ DownloadInv => WeightsOk
<1> SUFFICES ASSUME TypeOK, PlaceInv, DownloadInv PROVE WeightsOk
  OBVIOUS
<1>1. /\ DOMAIN listCash = 1..Len(listCash) /\ Len(listCash) \in Nat
      /\ \A n \in DOMAIN listCash : Reserved(listCash[n]) \in Int /\ listCash[n] \in DOMAIN elements
  BY ListedType, ReservedType
<1>2. Weights = [n \in 1..Len(listCash) |-> Reserved(listCash[n])]
  BY <1>1 DEF Weights
<1> QED
  BY <1>1, <1>2 DEF WeightsOk

\* The same of the state after a step.
LEMMA WeightsTypeNext == TypeOK' /\ PlaceInv' /\ DownloadInv' => WeightsOk'
BY WeightsType, PTL

\* The account after a step that changes neither the list nor the account.
LEMMA AccountKept ==
    ASSUME IInv, BudgetInv, IInv', DownloadInv', UNCHANGED <<listCash, byteInCash, base>>,
           \A e \in DOMAIN elements : Reserved(e)' <= Reserved(e)
    PROVE  AccountInv'
<1>1. WeightsOk /\ WeightsOk'
  BY WeightsType, WeightsTypeNext DEF IInv, BudgetInv
<1> DEFINE v == Weights
           w == Weights'
<1>2. /\ v \in Seq(Int) /\ w \in Seq(Int) /\ Len(v) = Len(w)
      /\ \A n \in 1..Len(v) : w[n] <= v[n]
  BY <1>1 DEF WeightsOk
<1>3. Total(v) <= byteInCash - base /\ Total(v) \in Int /\ Total(w) \in Int /\ byteInCash \in Int /\ base \in Int
  BY <1>2, TotalType DEF BudgetInv, AccountInv, IInv, TypeOK
<1> HIDE DEF v, w
<1>4. Total(w) <= Total(v)
  BY <1>2, TotalMonotone
<1>5. Total(w) <= byteInCash - base
  BY <1>3, <1>4
<1> QED
  BY <1>5 DEF BudgetInv, AccountInv, w

\* No download starts: what is reserved only falls.
LEMMA ReservedFalls ==
    ASSUME IInv, DownloadInv, IInv',
           DOMAIN elements' = DOMAIN elements,
           \A e \in DOMAIN elements : elements'[e].length = elements[e].length,
           \A t \in Threads :
             /\ thread'[t].pc = "download" => /\ thread[t].pc = "download" /\ thread'[t].cash = thread[t].cash
                                              /\ thread'[t].dataSize = thread[t].dataSize
             /\ thread'[t].pc \in InWalk \cup {"add"} => HeadingSize <= thread'[t].dataSize
    PROVE  DownloadInv' /\ \A e \in DOMAIN elements : Reserved(e)' <= Reserved(e)
<1>1. DownloadInv'
  <2>1. OneDownload(thread')
    BY DEF DownloadInv, OneDownload, Downloads
  <2>2. ASSUME NEW t \in Threads, thread'[t].pc = "download"
        PROVE  elements'[thread'[t].cash].length + HeadingSize <= thread'[t].dataSize
    <3>1. thread[t].cash \in DOMAIN elements
      BY <2>2 DEF IInv, PlaceInv, PlaceAt, Holders
    <3> QED
      BY <2>2, <3>1 DEF DownloadInv, At
  <2> QED
    BY <2>1, <2>2 DEF DownloadInv, At
<1>2. ASSUME NEW e \in DOMAIN elements PROVE Reserved(e)' <= Reserved(e)
  <2>1. Reserved(e) \in Nat /\ elements[e].length + HeadingSize <= Reserved(e)
    BY ReservedType DEF IInv
  <2>2. CASE \E t \in Threads : Downloads(thread', t, e)
    <3>1. PICK t \in Threads : Downloads(thread', t, e)
      BY <2>2
    <3>2. Downloads(thread, t, e) /\ thread'[t].dataSize = thread[t].dataSize
      BY <3>1 DEF Downloads
    <3>3. ReservedIn(thread', elements', e) = thread'[t].dataSize
      BY <1>1, <3>1, ReservedFacts DEF DownloadInv
    <3>4. ReservedIn(thread, elements, e) = thread[t].dataSize
      BY <3>2, ReservedFacts DEF DownloadInv
    <3> QED
      BY <2>1, <3>2, <3>3, <3>4 DEF Reserved
  <2>3. CASE \A t \in Threads : ~Downloads(thread', t, e)
    <3>1. ReservedIn(thread', elements', e) = elements'[e].length + HeadingSize
      BY <1>1, <2>3, ReservedFacts DEF DownloadInv
    <3> QED
      BY <2>1, <3>1 DEF Reserved
  <2> QED
    BY <2>2, <2>3
<1> QED
  BY <1>1, <1>2

\* A step of t that touches neither the list nor the account nor what elements hold.
LEMMA QuietStep ==
    ASSUME IInv, BudgetInv, IInv', NEW t \in Threads, UNCHANGED <<listCash, byteInCash, base>>,
           DOMAIN elements' = DOMAIN elements,
           \A e \in DOMAIN elements : elements'[e].length = elements[e].length,
           \A u \in Threads : u # t => thread'[u] = thread[u],
           thread'[t].pc # "download",
           thread'[t].pc \in InWalk \cup {"add"} => HeadingSize <= thread'[t].dataSize
    PROVE  BudgetInv'
<1>1. \A u \in Threads :
        /\ thread'[u].pc = "download" => /\ thread[u].pc = "download" /\ thread'[u].cash = thread[u].cash
                                         /\ thread'[u].dataSize = thread[u].dataSize
        /\ thread'[u].pc \in InWalk \cup {"add"} => HeadingSize <= thread'[u].dataSize
  BY DEF BudgetInv, DownloadInv
<1>2. DownloadInv' /\ \A e \in DOMAIN elements : Reserved(e)' <= Reserved(e)
  BY <1>1, ReservedFalls DEF BudgetInv
<1> QED
  BY <1>2, AccountKept DEF BudgetInv

\* The counters of users leave the lengths alone.
LEMMA CountKeepsBudget ==
    ASSUME IInv, BudgetInv, IInv', NEW t \in Threads, NEW change \in {1, -1}, CountUsers(t, change),
           thread[t].cash \in DOMAIN elements,
           \A u \in Threads : u # t => thread'[u] = thread[u],
           thread'[t].pc \in {"use", "idle"}
    PROVE  BudgetInv'
<1> DEFINE c == thread[t].cash
<1>1. DOMAIN elements = 1..Len(elements) /\ Len(elements) \in Nat
  BY DEF IInv, TypeOK
<1>2. elements' = [elements EXCEPT ![c] = [elements[c] EXCEPT !.users = @ + change]]
  BY DEF CountUsers
<1>3. DOMAIN elements' = DOMAIN elements
  BY <1>2
<1>4. ASSUME NEW e \in DOMAIN elements PROVE elements'[e].length = elements[e].length
  <2>1. elements[e] \in [key : Keys, length : Nat, users : Int, known : Nat]
    BY <1>1, ElementOfSeq DEF IInv, TypeOK
  <2> QED
    BY <1>2, <2>1
<1>5. UNCHANGED <<listCash, byteInCash, base>>
  BY DEF CountUsers
<1>6. thread'[t].pc # "download" /\ thread'[t].pc \notin InWalk \cup {"add"}
  BY DEF InWalk
<1> QED
  BY <1>3, <1>4, <1>5, <1>6, QuietStep

\* The steps that only move their thread.
LEMMA OwnStepKeepsBudget ==
    ASSUME IInv, BudgetInv, IInv', NEW t \in Threads,
           \/ IsElementInCash(t) \/ CheckBeforeAdd(t) \/ EvictTest(t) \/ EndDownload(t)
           \/ Refuse(t) \/ (StartWalk(t) /\ At(t, "add"))
    PROVE  BudgetInv'
<1>0. HeadingSize \in Nat /\ thread[t].dataSize \in Nat /\ DOMAIN thread = Threads
      /\ (thread[t].pc \in {"add", "evict"} => HeadingSize <= thread[t].dataSize)
  BY ThreadType DEF IInv, TypeOK, BudgetInv, DownloadInv, InWalk
<1>1. UNCHANGED <<listCash, byteInCash, base, elements>>
  BY DEF IsElementInCash, CheckBeforeAdd, EvictTest, EndDownload, Refuse, StartWalk
<1>2. ASSUME NEW u \in Threads, u # t PROVE thread'[u] = thread[u]
  <2>1. Leave(t) => thread'[u] = thread[u]
    BY <1>0, <1>2 DEF Leave
  <2>2. IsElementInCash(t) => thread'[u] = thread[u]
    BY <1>0, <1>2 DEF IsElementInCash
  <2>3. CheckBeforeAdd(t) => thread'[u] = thread[u]
    BY <1>0, <1>2, <2>1 DEF CheckBeforeAdd
  <2>4. EvictTest(t) => thread'[u] = thread[u]
    BY <1>0, <1>2 DEF EvictTest
  <2>5. StartWalk(t) => thread'[u] = thread[u]
    BY <1>0, <1>2 DEF StartWalk
  <2> QED
    BY <2>1, <2>2, <2>3, <2>4, <2>5 DEF EndDownload, Refuse
<1> DEFINE Goal == /\ thread'[t].pc # "download"
                   /\ thread'[t].pc \in InWalk \cup {"add"} => HeadingSize <= thread'[t].dataSize
<1>3. thread[t] \in [pc : Places, key : Keys \cup {NoKey}, dataSize : Nat,
                     cash : 0..Len(elements), it : Nat, lost : BOOLEAN, known : 0..Len(elements)]
  BY DEF IInv, TypeOK
<1>4. Leave(t) => Goal
  BY <1>0 DEF Leave, NewThread, InWalk
<1>5. IsElementInCash(t) => Goal
  <2> SUFFICES ASSUME IsElementInCash(t) PROVE Goal
    OBVIOUS
  <2>1. PICK k \in Keys :
          thread' = [thread EXCEPT ![t].key = k, ![t].pc = IF Listed(k) THEN "find" ELSE "miss"]
    BY DEF IsElementInCash
  <2>2. thread'[t].pc \in {"find", "miss"}
    BY <1>0, <1>3, <2>1
  <2> QED
    BY <2>2 DEF InWalk
<1>6. CheckBeforeAdd(t) => Goal
  <2> SUFFICES ASSUME CheckBeforeAdd(t), ~Leave(t) PROVE Goal
    BY <1>4
  <2>1. PICK n \in Lengths :
          thread' = [thread EXCEPT ![t].dataSize = n + HeadingSize,
                                   ![t].known = Len(elements), ![t].pc = "add"]
    BY DEF CheckBeforeAdd
  <2>2. n \in Nat
    BY SizeAssumption
  <2>3. thread'[t].pc = "add" /\ thread'[t].dataSize = n + HeadingSize
    BY <1>0, <1>3, <2>1
  <2> QED
    BY <1>0, <2>2, <2>3
<1>7. EvictTest(t) => Goal
  <2> SUFFICES ASSUME EvictTest(t) PROVE Goal
    OBVIOUS
  <2>1. \/ thread' = [thread EXCEPT ![t].pc = "erase"]
        \/ thread' = [thread EXCEPT ![t].it = @ + 1]
    BY DEF EvictTest
  <2>2. thread'[t].pc \in {"evict", "erase"} /\ thread'[t].dataSize = thread[t].dataSize
    BY <1>0, <1>3, <2>1 DEF EvictTest, At
  <2>3. thread[t].pc = "evict"
    BY DEF EvictTest, At
  <2> QED
    BY <1>0, <2>2, <2>3
<1>8. StartWalk(t) /\ At(t, "add") => Goal
  <2> SUFFICES ASSUME StartWalk(t), At(t, "add") PROVE Goal
    OBVIOUS
  <2>1. thread'[t].pc = "evict" /\ thread'[t].dataSize = thread[t].dataSize
    BY <1>0, <1>3 DEF StartWalk
  <2> QED
    BY <1>0, <2>1 DEF At
<1>9. Goal
  BY <1>4, <1>5, <1>6, <1>7, <1>8 DEF EndDownload, Refuse
<1> QED
  BY <1>1, <1>2, <1>9, QuietStep

\* The download goes on within what was reserved for it.
LEMMA AppendKeepsBudget ==
    ASSUME Overrun = 0, IInv, BudgetInv, IInv', NEW t \in Threads, AppendStringToCash(t)
    PROVE  BudgetInv'
<1> DEFINE c == thread[t].cash
<1>1. /\ thread' = thread /\ listCash' = listCash /\ byteInCash' = byteInCash /\ base' = base
      /\ At(t, "download") /\ elements[c].length < thread[t].dataSize - HeadingSize
      /\ c \in DOMAIN elements /\ DOMAIN elements' = DOMAIN elements
      /\ \A e \in DOMAIN elements :
           elements'[e].length = IF e = c THEN elements[e].length + 1 ELSE elements[e].length
  <2>1. elements[c].length \in Nat /\ thread[t].dataSize \in Nat /\ HeadingSize \in Nat
    BY ElementType, ThreadType, AppendStringFacts DEF IInv
  <2>2. UNCHANGED <<listCash, byteInCash, mutex, thread, crashed, base, walk>> /\ At(t, "download")
        /\ elements[c].length < thread[t].dataSize - HeadingSize + Overrun
    BY DEF AppendStringToCash
  <2>3. elements[c].length < thread[t].dataSize - HeadingSize
    BY <2>1, <2>2
  <2>4. /\ c \in DOMAIN elements /\ DOMAIN elements' = DOMAIN elements
        /\ \A e \in DOMAIN elements :
             elements'[e].length = IF e = c THEN elements[e].length + 1 ELSE elements[e].length
    BY AppendStringFacts
  <2> QED
    BY <2>2, <2>3, <2>4
<1>2. elements[c].length \in Nat /\ thread[t].dataSize \in Nat /\ HeadingSize \in Nat
  BY <1>1, ElementType, ThreadType DEF IInv
<1>3. elements'[c].length + HeadingSize <= thread[t].dataSize
  BY <1>1, <1>2
<1>4. OneDownload(thread) /\ Downloads(thread, t, c)
  BY <1>1 DEF BudgetInv, DownloadInv, Downloads, At
<1> HIDE DEF c
<1>5. DownloadInv'
  <2>1. ASSUME NEW u \in Threads, At(u, "download")
        PROVE  elements'[thread[u].cash].length + HeadingSize <= thread[u].dataSize
    <3>1. CASE u = t
      BY <1>3, <3>1 DEF c
    <3>2. CASE u # t
      <4>1. thread[u].cash # c
        BY <1>4, <2>1, <3>2 DEF OneDownload, Downloads, At
      <4>2. thread[u].cash \in DOMAIN elements
        BY <2>1 DEF IInv, PlaceInv, PlaceAt, At, Holders
      <4> QED
        BY <1>1, <2>1, <4>1, <4>2 DEF BudgetInv, DownloadInv
    <3> QED
      BY <3>1, <3>2
  <2> QED
    BY <1>1, <2>1 DEF BudgetInv, DownloadInv, At
<1>6. ASSUME NEW e \in DOMAIN elements PROVE Reserved(e)' <= Reserved(e)
  <2>1. Reserved(e) \in Nat
    BY ReservedType DEF IInv, BudgetInv
  <2>2. Reserved(e)' = ReservedIn(thread, elements', e)
    BY <1>1 DEF Reserved
  <2>3. CASE \E u \in Threads : Downloads(thread, u, e)
    <3>1. PICK u \in Threads : Downloads(thread, u, e)
      BY <2>3
    <3>2. Reserved(e)' = thread[u].dataSize /\ Reserved(e) = thread[u].dataSize
      BY <1>4, <2>2, <3>1, ReservedFacts DEF Reserved
    <3> QED
      BY <2>1, <3>2
  <2>4. CASE \A u \in Threads : ~Downloads(thread, u, e)
    <3>1. e # c
      BY <1>4, <2>4
    <3>2. Reserved(e)' = elements'[e].length + HeadingSize /\ Reserved(e) = elements[e].length + HeadingSize
      BY <1>4, <2>2, <2>4, ReservedFacts DEF Reserved
    <3> QED
      BY <1>1, <2>1, <3>1, <3>2
  <2> QED
    BY <2>3, <2>4
<1> QED
  BY <1>1, <1>5, <1>6, AccountKept DEF BudgetInv

\* The sum when the entry at i is taken out and the others do not grow.
LEMMA SumWithout ==
    ASSUME NEW v \in Seq(Int), NEW w \in Seq(Int), NEW i \in 1..Len(v), Len(w) = Len(v) - 1,
           \A m \in 1..(Len(v) - 1) : w[m] <= IF m < i THEN v[m] ELSE v[m + 1]
    PROVE  Total(w) <= Total(v) - v[i]
<1> DEFINE x == RemoveAt(v, i)
<1>1. /\ x \in Seq(Int) /\ Len(x) = Len(v) - 1
      /\ \A m \in 1..(Len(v) - 1) : x[m] = IF m < i THEN v[m] ELSE v[m + 1]
  BY RemoveAtFacts
<1>2. Total(x) = Total(v) - v[i]
  BY TotalRemoveAt
<1> HIDE DEF x
<1>3. Total(w) <= Total(x)
  <2>1. Len(w) = Len(x) /\ \A m \in 1..Len(x) : w[m] <= x[m]
    BY <1>1
  <2> QED
    BY <1>1, <2>1, TotalMonotone
<1> QED
  BY <1>2, <1>3

\* The sum when the entry at i goes to the end and none grows.
LEMMA SumMoved ==
    ASSUME NEW v \in Seq(Int), NEW w \in Seq(Int), NEW i \in 1..Len(v), Len(w) = Len(v),
           \A m \in 1..(Len(v) - 1) : w[m] <= IF m < i THEN v[m] ELSE v[m + 1],
           w[Len(v)] <= v[i]
    PROVE  Total(w) <= Total(v)
<1> DEFINE L == Len(v)
           x == RemoveAt(v, i)
           y == Append(x, v[i])
<1>0. v[i] \in Int /\ L \in Nat /\ 1 <= L /\ Len(w) = L
  OBVIOUS
<1>1. /\ x \in Seq(Int) /\ Len(x) = L - 1
      /\ \A m \in 1..(L - 1) : x[m] = IF m < i THEN v[m] ELSE v[m + 1]
  BY RemoveAtFacts
<1>2. Total(x) = Total(v) - v[i]
  BY TotalRemoveAt
<1> HIDE DEF x
<1>3. Total(y) = Total(x) + v[i]
  BY <1>0, <1>1, TotalAppend
<1>4. y \in Seq(Int) /\ Len(y) = L /\ y[L] = v[i] /\ \A m \in 1..(L - 1) : y[m] = x[m]
  BY <1>0, <1>1
<1> HIDE DEF y
<1>5. \A m \in 1..L : w[m] <= y[m]
  <2>1. ASSUME NEW m \in 1..L PROVE w[m] <= y[m]
    <3>1. CASE m = L
      BY <1>4, <3>1
    <3>2. CASE m \in 1..(L - 1)
      BY <1>1, <1>4, <3>2
    <3> QED
      BY <1>0, <3>1, <3>2
  <2> QED
    BY <2>1
<1>6. Total(w) <= Total(y)
  BY <1>0, <1>4, <1>5, TotalMonotone
<1>7. Total(v) \in Int
  BY TotalType
<1> QED
  BY <1>0, <1>2, <1>3, <1>6, <1>7

\* What a step leaves reserved, and the weights before and after it.
LEMMA WeightsOfStep ==
    ASSUME IInv, BudgetInv, IInv', DownloadInv',
           \A e \in DOMAIN elements : Reserved(e)' <= Reserved(e)
    PROVE  /\ Weights \in Seq(Int) /\ Weights' \in Seq(Int)
           /\ Len(Weights) = Len(listCash) /\ Len(Weights') = Len(listCash') /\ Len(listCash) \in Nat
           /\ \A n \in 1..Len(listCash) :
                listCash[n] \in DOMAIN elements /\ Weights[n] = ReservedIn(thread, elements, listCash[n])
           /\ \A n \in 1..Len(listCash') : Weights'[n] = ReservedIn(thread', elements', listCash'[n])
           /\ \A e \in DOMAIN elements :
                /\ ReservedIn(thread', elements', e) <= ReservedIn(thread, elements, e)
                /\ ReservedIn(thread, elements, e) \in Nat
                /\ elements[e].length + HeadingSize <= ReservedIn(thread, elements, e)
           /\ Total(Weights) \in Int /\ Total(Weights') \in Int
<1>1. WeightsOk /\ WeightsOk'
  BY WeightsType, WeightsTypeNext DEF IInv, BudgetInv
<1>2. \A e \in DOMAIN elements : /\ ReservedIn(thread', elements', e) <= ReservedIn(thread, elements, e)
                                 /\ ReservedIn(thread, elements, e) \in Nat
                                 /\ elements[e].length + HeadingSize <= ReservedIn(thread, elements, e)
  BY ReservedType DEF Reserved, IInv, BudgetInv
<1>3. Weights \in Seq(Int) /\ Weights' \in Seq(Int)
      /\ Len(Weights) = Len(listCash) /\ Len(Weights') = Len(listCash') /\ Len(listCash) \in Nat
  BY <1>1 DEF WeightsOk
<1>4. \A n \in 1..Len(listCash) :
        listCash[n] \in DOMAIN elements /\ Weights[n] = ReservedIn(thread, elements, listCash[n])
  BY <1>1 DEF WeightsOk, Reserved
<1>5. \A n \in 1..Len(listCash') : Weights'[n] = ReservedIn(thread', elements', listCash'[n])
  BY <1>1 DEF WeightsOk, Reserved
<1>6. Total(Weights) \in Int /\ Total(Weights') \in Int
  BY <1>3, TotalType
<1> QED
  BY <1>2, <1>3, <1>4, <1>5, <1>6

\* A hit moves its element to the end of the list: the sum is the same.
LEMMA FindKeepsBudget ==
    ASSUME IInv, BudgetInv, IInv', NEW t \in Threads, FindResponseInCash(t), Listed(thread[t].key)
    PROVE  BudgetInv'
<1> DEFINE k == thread[t].key
           n == SelectInSeq(listCash, LAMBDA e : elements[e].key = k)
           c == listCash[n]
           L == Len(listCash)
<1>1. n \in 1..L
  <2>1. TypeOK /\ Listed(k)
    BY DEF IInv
  <2> HIDE DEF k
  <2>2. n \in 1..Len(listCash) /\ elements[listCash[n]].key = k
    BY <2>1, FirstOfKey
  <2> QED
    BY <2>2
<1>2. /\ listCash' = Append(RemoveAt(listCash, n), c)
      /\ thread' = [thread EXCEPT ![t].cash = c, ![t].pc = "count"]
      /\ UNCHANGED <<elements, byteInCash, base>>
  BY DEF FindResponseInCash
<1> HIDE DEF n
<1>3. /\ \A u \in Threads : u # t => thread'[u] = thread[u]
      /\ thread'[t].pc = "count"
  <2>1. thread[t] \in [pc : Places, key : Keys \cup {NoKey}, dataSize : Nat,
                     cash : 0..Len(elements), it : Nat, lost : BOOLEAN, known : 0..Len(elements)]
        /\ DOMAIN thread = Threads
    BY DEF IInv, TypeOK
  <2> QED
    BY <1>2, <2>1
<1>4. DownloadInv' /\ \A e \in DOMAIN elements : Reserved(e)' <= Reserved(e)
  <2>1. \A u \in Threads :
          /\ thread'[u].pc = "download" => /\ thread[u].pc = "download" /\ thread'[u].cash = thread[u].cash
                                           /\ thread'[u].dataSize = thread[u].dataSize
          /\ thread'[u].pc \in InWalk \cup {"add"} => HeadingSize <= thread'[u].dataSize
    BY <1>3 DEF BudgetInv, DownloadInv, InWalk
  <2> QED
    BY <1>2, <2>1, ReservedFalls DEF BudgetInv
<1> DEFINE v == Weights
           w == Weights'
           R(e) == ReservedIn(thread, elements, e)
           N(e) == ReservedIn(thread', elements', e)
<1>5. /\ v \in Seq(Int) /\ w \in Seq(Int)
      /\ Len(v) = L /\ Len(w) = Len(listCash') /\ L \in Nat
      /\ \A m \in 1..L : listCash[m] \in DOMAIN elements /\ v[m] = R(listCash[m])
      /\ \A m \in 1..Len(listCash') : w[m] = N(listCash'[m])
      /\ \A e \in DOMAIN elements : N(e) <= R(e)
      /\ Total(v) \in Int /\ Total(w) \in Int
  BY <1>4, WeightsOfStep
<1>6. /\ Len(listCash') = L /\ listCash'[L] = c
      /\ \A m \in 1..(L - 1) : listCash'[m] = IF m < n THEN listCash[m] ELSE listCash[m + 1]
  <2> DEFINE rest == RemoveAt(listCash, n)
  <2>1. /\ rest \in Seq(DOMAIN elements) /\ Len(rest) = L - 1
        /\ \A m \in 1..(L - 1) : rest[m] = IF m < n THEN listCash[m] ELSE listCash[m + 1]
    <3>1. listCash \in Seq(DOMAIN elements)
      BY DEF IInv, TypeOK
    <3> QED
      BY <1>1, <3>1, RemoveAtFacts
  <2>2. listCash' = Append(rest, c) /\ L \in Nat
    BY <1>2, <1>5
  <2> HIDE DEF rest, c
  <2>3. /\ Len(listCash') = L /\ listCash'[L] = c
        /\ \A m \in 1..(L - 1) : listCash'[m] = rest[m]
    BY <2>1, <2>2
  <2> QED
    BY <2>1, <2>3
<1> HIDE DEF v, w, R, N
<1>7. ASSUME NEW m \in 1..(L - 1) PROVE w[m] <= IF m < n THEN v[m] ELSE v[m + 1]
  <2> DEFINE j == IF m < n THEN m ELSE m + 1
  <2>1. j \in 1..L /\ m \in 1..L
    BY <1>5
  <2>2. listCash'[m] = listCash[j]
    BY <1>6
  <2>3. w[m] = N(listCash[j]) /\ v[j] = R(listCash[j]) /\ listCash[j] \in DOMAIN elements
    BY <1>5, <1>6, <2>1, <2>2
  <2>4. w[m] <= v[j]
    BY <1>5, <2>3
  <2> QED
    BY <2>4
<1>8. w[L] <= v[n]
  <2>1. L \in 1..L
    BY <1>1, <1>5
  <2> QED
    BY <1>1, <1>5, <1>6, <2>1
<1>9. Total(w) <= Total(v)
  BY <1>1, <1>5, <1>6, <1>7, <1>8, SumMoved
<1>10. Total(v) <= byteInCash - base /\ byteInCash \in Int /\ base \in Int
  BY DEF BudgetInv, AccountInv, IInv, TypeOK, v
<1>11. Total(w) <= byteInCash' - base'
  BY <1>2, <1>5, <1>9, <1>10
<1> QED
  BY <1>2, <1>4, <1>11 DEF BudgetInv, AccountInv, w

\* An erasure gives back no more than the element was counted for.
LEMMA EraseKeepsBudget ==
    ASSUME IInv, BudgetInv, IInv', NEW t \in Threads, EvictErase(t)
    PROVE  BudgetInv'
<1> DEFINE n == thread[t].it
           c == listCash[n]
           L == Len(listCash)
<1>1. n \in 1..L /\ thread[t].pc = "erase"
  BY ListedType DEF IInv, PlaceInv, PlaceAt, EvictErase, At
<1>2. /\ listCash' = RemoveAt(listCash, n) /\ byteInCash' = byteInCash - elements[c].length - HeadingSize
      /\ UNCHANGED <<elements, base>>
  BY DEF EvictErase
<1>3. /\ \A u \in Threads : u # t => /\ thread'[u].pc = thread[u].pc /\ thread'[u].cash = thread[u].cash
                                     /\ thread'[u].dataSize = thread[u].dataSize
      /\ thread'[t].pc \in {"walked", "evict"} /\ thread'[t].dataSize = thread[t].dataSize
  <2>1. \A u \in Threads : thread[u] \in [pc : Places, key : Keys \cup {NoKey}, dataSize : Nat,
                     cash : 0..Len(elements), it : Nat, lost : BOOLEAN, known : 0..Len(elements)]
    BY DEF IInv, TypeOK
  <2>2. thread'[t] = [thread[t] EXCEPT !.it = AfterErase(@, Len(RemoveAt(listCash, n))),
                                      !.pc = IF Fits(t, byteInCash') THEN "walked" ELSE "evict"]
    BY DEF EvictErase
  <2>3. ASSUME NEW u \in Threads, u # t
        PROVE  thread'[u].pc = thread[u].pc /\ thread'[u].cash = thread[u].cash
               /\ thread'[u].dataSize = thread[u].dataSize
    <3> DEFINE gone == thread[u].lost \/ (At(u, "find") /\ thread[u].key = elements[c].key)
    <3>1. thread'[u] = [thread[u] EXCEPT !.lost = gone]
      BY <2>3 DEF EvictErase
    <3> HIDE DEF gone
    <3> QED
      BY <2>1, <3>1
  <2> QED
    BY <2>1, <2>2, <2>3
<1>4. DownloadInv' /\ \A e \in DOMAIN elements : Reserved(e)' <= Reserved(e)
  <2>1. \A u \in Threads :
          /\ thread'[u].pc = "download" => /\ thread[u].pc = "download" /\ thread'[u].cash = thread[u].cash
                                           /\ thread'[u].dataSize = thread[u].dataSize
          /\ thread'[u].pc \in InWalk \cup {"add"} => HeadingSize <= thread'[u].dataSize
    BY <1>1, <1>3 DEF BudgetInv, DownloadInv, InWalk
  <2> QED
    BY <1>2, <2>1, ReservedFalls DEF BudgetInv
<1> DEFINE v == Weights
           w == Weights'
           R(e) == ReservedIn(thread, elements, e)
           N(e) == ReservedIn(thread', elements', e)
<1>5. /\ v \in Seq(Int) /\ w \in Seq(Int)
      /\ Len(v) = L /\ Len(w) = Len(listCash') /\ L \in Nat
      /\ \A m \in 1..L : listCash[m] \in DOMAIN elements /\ v[m] = R(listCash[m])
      /\ \A m \in 1..Len(listCash') : w[m] = N(listCash'[m])
      /\ \A e \in DOMAIN elements : /\ N(e) <= R(e) /\ R(e) \in Nat
                                    /\ elements[e].length + HeadingSize <= R(e)
      /\ Total(v) \in Int /\ Total(w) \in Int
  BY <1>4, WeightsOfStep
<1>6. /\ Len(listCash') = L - 1
      /\ \A m \in 1..(L - 1) : listCash'[m] = IF m < n THEN listCash[m] ELSE listCash[m + 1]
  <2>1. listCash \in Seq(DOMAIN elements)
    BY DEF IInv, TypeOK
  <2> HIDE DEF n
  <2> QED
    BY <1>1, <1>2, <2>1, RemoveAtFacts
<1>7. c \in DOMAIN elements /\ elements[c].length \in Nat /\ HeadingSize \in Nat
  <2>1. c \in DOMAIN elements
    BY <1>1, <1>5
  <2> QED
    BY <2>1, ElementType DEF IInv
<1> HIDE DEF n, v, w, R, N
<1>8. ASSUME NEW m \in 1..(L - 1) PROVE w[m] <= IF m < n THEN v[m] ELSE v[m + 1]
  <2> DEFINE j == IF m < n THEN m ELSE m + 1
  <2>1. j \in 1..L /\ m \in 1..L
    BY <1>1, <1>5
  <2>2. listCash'[m] = listCash[j]
    BY <1>6
  <2>3. w[m] = N(listCash[j]) /\ v[j] = R(listCash[j]) /\ listCash[j] \in DOMAIN elements
    BY <1>5, <1>6, <2>1, <2>2
  <2>4. w[m] <= v[j]
    BY <1>5, <2>3
  <2> QED
    BY <2>4
<1>9. Total(w) <= Total(v) - v[n]
  BY <1>1, <1>5, <1>6, <1>8, SumWithout
<1>10. v[n] \in Int /\ elements[c].length + HeadingSize <= v[n]
  BY <1>1, <1>5, <1>7
<1>11. Total(v) <= byteInCash - base /\ byteInCash \in Int /\ base \in Int
       /\ (base < MaxCashSize => byteInCash < MaxCashSize)
  BY DEF BudgetInv, AccountInv, IInv, TypeOK, v
<1> HIDE DEF c
<1>12. Total(w) <= byteInCash' - base'
  <2> DEFINE T == Total(v)
             U == Total(w)
             x == v[n]
             d == elements[c].length
  <2>1. T \in Int /\ U \in Int /\ x \in Int /\ d \in Nat /\ HeadingSize \in Nat
        /\ U <= T - x /\ d + HeadingSize <= x /\ T <= byteInCash - base
        /\ byteInCash \in Int /\ base \in Int
        /\ byteInCash' = byteInCash - d - HeadingSize /\ base' = base
    BY <1>2, <1>5, <1>7, <1>9, <1>10, <1>11
  <2> HIDE DEF T, U, x, d
  <2>2. U <= byteInCash' - base'
    BY <2>1
  <2> QED
    BY <2>2 DEF U
<1>13. base' < MaxCashSize => byteInCash' < MaxCashSize
  BY <1>2, <1>7, <1>11, SizeAssumption
<1> QED
  BY <1>4, <1>12, <1>13 DEF BudgetInv, AccountInv, w

\* What is added is charged in full before a byte of it is there.
LEMMA PushKeepsBudget ==
    ASSUME IInv, BudgetInv, IInv', NEW t \in Threads, PushBack(t), Fits(t, byteInCash),
           thread[t].pc \in InWalk \cup {"add"}
    PROVE  BudgetInv'
<1> DEFINE L == Len(elements)
           M == Len(listCash)
           d == thread[t].dataSize
           R(e) == ReservedIn(thread, elements, e)
           N(e) == ReservedIn(thread', elements', e)
<1>1. /\ L \in Nat /\ DOMAIN elements = 1..L /\ elements \in Seq([key : Keys, length : Nat, users : Int, known : Nat])
      /\ M \in Nat /\ listCash \in Seq(DOMAIN elements) /\ byteInCash \in Int /\ base \in Int
      /\ d \in Nat /\ HeadingSize \in Nat /\ HeadingSize <= d
  <2>1. TypeOK /\ HeadingSize <= d
    BY DEF IInv, BudgetInv, DownloadInv
  <2>2. /\ elements \in Seq([key : Keys, length : Nat, users : Int, known : Nat])
        /\ listCash \in Seq(DOMAIN elements) /\ byteInCash \in Int /\ base \in Int
    BY <2>1 DEF TypeOK
  <2>3. d \in Nat /\ HeadingSize \in Nat
    BY <2>1, ThreadType, SizeAssumption
  <2>4. L \in Nat /\ DOMAIN elements = 1..L /\ M \in Nat
    BY <2>2
  <2> QED
    BY <2>1, <2>2, <2>3, <2>4
<1>2. /\ byteInCash' = byteInCash + d /\ base' = base
      /\ elements' = Append(elements, NewCashElement(t)) /\ listCash' = Append(listCash, L + 1)
      /\ thread' = [thread EXCEPT ![t].cash = L + 1, ![t].pc = "download"]
  BY DEF PushBack
<1>3. /\ \A u \in Threads : u # t => thread'[u] = thread[u]
      /\ thread'[t].pc = "download" /\ thread'[t].cash = L + 1 /\ thread'[t].dataSize = d
  <2>1. thread[t] \in [pc : Places, key : Keys \cup {NoKey}, dataSize : Nat,
                     cash : 0..Len(elements), it : Nat, lost : BOOLEAN, known : 0..Len(elements)]
        /\ DOMAIN thread = Threads
    BY DEF IInv, TypeOK
  <2> QED
    BY <1>2, <2>1
<1>4. elements'[L + 1].length = 0 /\ \A e \in DOMAIN elements : elements'[e] = elements[e]
  <2> DEFINE x == NewCashElement(t)
  <2>1. x.length = 0
    BY DEF NewCashElement
  <2> HIDE DEF x
  <2>2. elements'[L + 1] = x /\ \A e \in 1..L : elements'[e] = elements[e]
    BY <1>1, <1>2 DEF x
  <2> QED
    BY <1>1, <2>1, <2>2
<1>5. \A u \in Threads : At(u, "download") => u # t /\ thread[u].cash \in 1..L /\ thread[u].cash # L + 1
  <2> SUFFICES ASSUME NEW u \in Threads, At(u, "download")
               PROVE  u # t /\ thread[u].cash \in 1..L /\ thread[u].cash # L + 1
    OBVIOUS
  <2>1. u # t
    BY DEF At, InWalk
  <2>2. thread[u].cash \in 1..L
    BY <1>1 DEF IInv, PlaceInv, PlaceAt, At, Holders
  <2> QED
    BY <1>1, <2>1, <2>2
<1>6. DownloadInv'
  <2>1. OneDownload(thread')
    BY <1>3, <1>5 DEF BudgetInv, DownloadInv, OneDownload, Downloads, At
  <2>2. ASSUME NEW u \in Threads, thread'[u].pc = "download"
        PROVE  elements'[thread'[u].cash].length + HeadingSize <= thread'[u].dataSize
    <3>1. CASE u = t
      BY <1>1, <1>3, <1>4, <3>1
    <3>2. CASE u # t
      <4>1. At(u, "download") /\ thread'[u] = thread[u] /\ thread[u].cash \in DOMAIN elements
        BY <1>1, <1>3, <1>5, <2>2, <3>2 DEF At
      <4> QED
        BY <1>4, <4>1 DEF BudgetInv, DownloadInv
    <3> QED
      BY <3>1, <3>2
  <2>3. \A u \in Threads : thread'[u].pc \in InWalk \cup {"add"} => HeadingSize <= thread'[u].dataSize
    BY <1>1, <1>3 DEF BudgetInv, DownloadInv
  <2> QED
    BY <2>1, <2>2, <2>3 DEF DownloadInv, At
<1>7. ASSUME NEW e \in DOMAIN elements PROVE N(e) <= R(e)
  <2>0. R(e) \in Nat /\ e # L + 1
    BY <1>1, ReservedType DEF Reserved, IInv, BudgetInv
  <2>1. CASE \E u \in Threads : Downloads(thread, u, e)
    <3>1. PICK u \in Threads : Downloads(thread, u, e)
      BY <2>1
    <3>2. Downloads(thread', u, e) /\ thread'[u].dataSize = thread[u].dataSize
      BY <1>3, <1>5, <3>1 DEF Downloads, At
    <3>3. N(e) = thread'[u].dataSize
      BY <1>6, <3>2, ReservedFacts DEF DownloadInv
    <3>4. R(e) = thread[u].dataSize
      BY <3>1, ReservedFacts DEF BudgetInv, DownloadInv
    <3> QED
      BY <2>0, <3>2, <3>3, <3>4
  <2>2. CASE \A u \in Threads : ~Downloads(thread, u, e)
    <3>1. \A u \in Threads : ~Downloads(thread', u, e)
      BY <1>3, <2>0, <2>2 DEF Downloads
    <3>2. N(e) = elements'[e].length + HeadingSize
      BY <1>6, <3>1, ReservedFacts DEF DownloadInv
    <3>3. R(e) = elements[e].length + HeadingSize
      BY <2>2, ReservedFacts DEF BudgetInv, DownloadInv
    <3> QED
      BY <1>4, <2>0, <3>2, <3>3
  <2> QED
    BY <2>1, <2>2
<1>8. N(L + 1) = d
  <2>1. Downloads(thread', t, L + 1)
    BY <1>3 DEF Downloads
  <2> QED
    BY <1>3, <1>6, <2>1, ReservedFacts DEF DownloadInv
<1> DEFINE v == Weights
           w == Weights'
           y == Append(v, d)
<1>9. /\ v \in Seq(Int) /\ w \in Seq(Int)
      /\ Len(v) = M /\ Len(w) = Len(listCash')
      /\ \A m \in 1..M : listCash[m] \in DOMAIN elements /\ v[m] = R(listCash[m])
      /\ \A m \in 1..Len(listCash') : w[m] = N(listCash'[m])
      /\ Total(v) \in Int /\ Total(w) \in Int
  <2>1. \A e \in DOMAIN elements : Reserved(e)' <= Reserved(e)
    BY <1>7 DEF Reserved
  <2> QED
    BY <1>6, <2>1, WeightsOfStep
<1>10. Len(listCash') = M + 1 /\ listCash'[M + 1] = L + 1 /\ \A m \in 1..M : listCash'[m] = listCash[m]
  BY <1>1, <1>2
<1> HIDE DEF v, w, R, N, d, L
<1>11. y \in Seq(Int) /\ Len(y) = M + 1 /\ y[M + 1] = d /\ \A m \in 1..M : y[m] = v[m]
  BY <1>1, <1>9
<1>12. Total(y) = Total(v) + d
  BY <1>1, <1>9, TotalAppend
<1> HIDE DEF y
<1>13. ASSUME NEW m \in 1..(M + 1) PROVE w[m] <= y[m]
  <2>1. CASE m = M + 1
    <3>1. w[m] = d /\ y[m] = d /\ d \in Nat
      BY <1>1, <1>8, <1>9, <1>10, <1>11, <2>1
    <3> QED
      BY <3>1
  <2>2. CASE m \in 1..M
    <3>1. w[m] = N(listCash[m]) /\ y[m] = R(listCash[m]) /\ listCash[m] \in DOMAIN elements
      BY <1>9, <1>10, <1>11, <2>2
    <3> QED
      BY <1>7, <3>1
  <2> QED
    BY <1>1, <2>1, <2>2
<1>14. Total(w) <= Total(y)
  BY <1>9, <1>10, <1>11, <1>13, TotalMonotone
<1>15. Total(v) <= byteInCash - base /\ byteInCash + d < MaxCashSize
  BY DEF BudgetInv, AccountInv, v, Fits, d
<1>16. Total(w) <= byteInCash' - base'
  <2> DEFINE T == Total(v)
             U == Total(w)
  <2>1. /\ T \in Int /\ U \in Int /\ d \in Nat /\ U <= T + d /\ T <= byteInCash - base
        /\ byteInCash \in Int /\ base \in Int /\ byteInCash' = byteInCash + d /\ base' = base
    BY <1>1, <1>2, <1>9, <1>12, <1>14, <1>15
  <2> HIDE DEF T, U
  <2>2. U <= byteInCash' - base'
    BY <2>1
  <2> QED
    BY <2>2 DEF U
<1>17. byteInCash' < MaxCashSize
  BY <1>2, <1>15
<1> QED
  BY <1>6, <1>16, <1>17 DEF BudgetInv, AccountInv, w

\* Each action keeps the account, given IInv; the bound on what origins send matters to one.
LEMMA BudgetInductive == Overrun = 0 /\ IInv /\ BudgetInv /\ [Next]_vars /\ IInv' => BudgetInv'
<1> SUFFICES ASSUME Overrun = 0, IInv, BudgetInv, [Next]_vars, IInv' PROVE BudgetInv'
  OBVIOUS
<1>1. CASE Next
  <2>1. PICK t \in Threads : Step(t)
    BY <1>1 DEF Next
  <2>2. CASE IsElementInCash(t) \/ CheckBeforeAdd(t) \/ EvictTest(t) \/ EndDownload(t)
    BY <2>2, OwnStepKeepsBudget
  <2>3. CASE FindResponseInCash(t)
    <3>1. CASE Listed(thread[t].key)
      BY <2>3, <3>1, FindKeepsBudget
    <3>2. CASE ~Listed(thread[t].key)
      <4>1. UNCHANGED <<listCash, elements, byteInCash, base, thread>> /\ At(t, "find")
        BY <2>3, <3>2 DEF FindResponseInCash
      <4> QED
        BY <4>1, QuietStep DEF At, InWalk
    <3> QED
      BY <3>1, <3>2
  <2>4. CASE AddCountUsers(t) \/ MinusCountUsers(t)
    <3>1. /\ thread[t].cash \in DOMAIN elements /\ thread'[t].pc \in {"use", "idle"}
          /\ \A u \in Threads : u # t => thread'[u] = thread[u]
      <4>1. thread[t] \in [pc : Places, key : Keys \cup {NoKey}, dataSize : Nat,
                         cash : 0..Len(elements), it : Nat, lost : BOOLEAN, known : 0..Len(elements)]
            /\ DOMAIN thread = Threads
        BY DEF IInv, TypeOK
      <4>2. thread[t].cash \in DOMAIN elements
        BY <2>4 DEF IInv, PlaceInv, PlaceAt, Holders, At, AddCountUsers, MinusCountUsers
      <4>3. thread' = [thread EXCEPT ![t].pc = "use"] \/ thread' = [thread EXCEPT ![t] = NewThread]
        BY <2>4 DEF AddCountUsers, MinusCountUsers, Leave
      <4>4. thread'[t].pc \in {"use", "idle"}
        BY <4>1, <4>3 DEF NewThread
      <4> QED
        BY <4>1, <4>2, <4>3, <4>4
    <3> QED
      BY <2>4, <3>1, CountKeepsBudget DEF AddCountUsers, MinusCountUsers
  <2>5. CASE AddStringToCash(t)
    <3>1. thread[t].pc \in InWalk \cup {"add"} /\ At(t, "add")
      BY <2>5 DEF AddStringToCash, At
    <3>2. Refuse(t) \/ (Fits(t, byteInCash) /\ PushBack(t)) \/ StartWalk(t)
      BY <2>5 DEF AddStringToCash
    <3> QED
      BY <3>1, <3>2, OwnStepKeepsBudget, PushKeepsBudget
  <2>6. CASE EvictErase(t)
    BY <2>6, EraseKeepsBudget
  <2>7. CASE EndOfWalk(t)
    <3>1. thread[t].pc \in InWalk \cup {"add"}
      BY <2>7 DEF EndOfWalk, WalkIsOver, At, InWalk
    <3>2. Refuse(t) \/ (Fits(t, byteInCash) /\ PushBack(t))
      BY <2>7 DEF EndOfWalk
    <3> QED
      BY <3>1, <3>2, OwnStepKeepsBudget, PushKeepsBudget
  <2>8. CASE AppendStringToCash(t)
    BY <2>8, AppendKeepsBudget
  <2> QED
    BY <2>1, <2>2, <2>3, <2>4, <2>5, <2>6, <2>7, <2>8 DEF Step
<1>2. CASE UNCHANGED vars
  <2>1. UNCHANGED <<listCash, elements, byteInCash, base, thread>>
    BY <1>2 DEF vars
  <2>2. DownloadInv' /\ Weights' = Weights
    BY <2>1 DEF BudgetInv, DownloadInv, At, Weights, Reserved
  <2> QED
    BY <2>1, <2>2 DEF BudgetInv, AccountInv
<1> QED
  BY <1>1, <1>2

\* Nothing is listed, nothing is charged.
LEMMA InitBudget == Init => BudgetInv
<1> SUFFICES ASSUME Init PROVE BudgetInv
  OBVIOUS
<1>1. /\ listCash = <<>> /\ thread = [t \in Threads |-> NewThread] /\ base = byteInCash /\ byteInCash \in Int
  BY DEF Init
<1>2. DownloadInv
  BY <1>1 DEF DownloadInv, OneDownload, Downloads, At, NewThread, InWalk
<1>3. Weights = <<>>
  <2>1. DOMAIN listCash = {}
    BY <1>1
  <2> QED
    BY <2>1 DEF Weights
<1>4. Total(Weights) = 0
  BY <1>3, TotalEmpty
<1> QED
  BY <1>1, <1>2, <1>4 DEF BudgetInv, AccountInv

\* What the listed elements hold is within the account and below MAX_CASH_SIZE, as long
\* as no origin sends more than it declared (Overrun = 0; appendStringToCash does not
\* check): evictions in the middle of a download and late additions included.
THEOREM Budget == Overrun = 0 => (Spec => []WithinBudget)
<1> SUFFICES ASSUME Overrun = 0 PROVE Spec => []WithinBudget
  OBVIOUS
<1>1. IInv /\ BudgetInv => WithinBudget
  <2> SUFFICES ASSUME IInv, BudgetInv PROVE WithinBudget
    OBVIOUS
  <2> DEFINE h == [n \in DOMAIN listCash |-> elements[listCash[n]].length + HeadingSize]
  <2>1. /\ WeightsOk /\ Total(Weights) <= byteInCash - base /\ byteInCash \in Int /\ base \in Int
        /\ (base < MaxCashSize => byteInCash < MaxCashSize)
    BY WeightsType DEF IInv, TypeOK, BudgetInv, AccountInv
  <2>2. ASSUME NEW n \in 1..Len(listCash)
        PROVE  h[n] \in Int /\ h[n] <= Weights[n]
    <3>1. listCash[n] \in DOMAIN elements /\ Weights[n] = Reserved(listCash[n]) /\ n \in DOMAIN listCash
      BY <2>1 DEF WeightsOk
    <3>2. elements[listCash[n]].length \in Nat /\ HeadingSize \in Nat
      BY <3>1, ElementType DEF IInv
    <3>3. elements[listCash[n]].length + HeadingSize <= Reserved(listCash[n])
      BY <3>1, ReservedType DEF IInv, BudgetInv
    <3> QED
      BY <3>1, <3>2, <3>3
  <2>3. h \in Seq(Int) /\ Len(h) = Len(Weights)
    BY <2>1, <2>2 DEF WeightsOk
  <2> HIDE DEF h
  <2>4. Total(h) <= Total(Weights) /\ Total(h) \in Int /\ Total(Weights) \in Int
    BY <2>1, <2>2, <2>3, TotalMonotone, TotalType DEF WeightsOk
  <2>5. Holdings = Total(h)
    BY DEF Holdings, h
  <2> QED
    BY <2>1, <2>4, <2>5, SizeAssumption DEF WithinBudget
<1>2. IInv /\ BudgetInv /\ [Next]_vars /\ IInv' => BudgetInv'
  BY BudgetInductive
<1> QED
  BY <1>1, <1>2, InitBudget, Invariance, PTL DEF Spec
=============================================================================
