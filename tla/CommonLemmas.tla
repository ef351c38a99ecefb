---------------------------- MODULE CommonLemmas ----------------------------
(***************************************************************************)
(* Facts about numbers and sequences that several of the proofs use: a set *)
(* of numbers up to a bound has a least member, what an interval inherits  *)
(* from its start, and what erasing from a list leaves.                    *)
(***************************************************************************)
EXTENDS Integers, SequencesExt, Functions, SequenceTheorems, FiniteSetTheorems, WellFoundedInduction, TLAPS

\* The intervals from 0 to the members are well-founded by inclusion.
LEMMA LeastMember ==
    ASSUME NEW N \in Nat, NEW T \in SUBSET (0..N), T # {}
    PROVE  \E x \in T : \A y \in T : x <= y
<1> DEFINE Down == {0..x : x \in T}
<1>1. IsWellFoundedOn(StrictSubsetOrdering(0..N), SUBSET (0..N))
  <2>1. IsFiniteSet(0..N)
    BY FS_Interval
  <2>2. FiniteSubsetsOf(0..N) = SUBSET (0..N)
    BY <2>1, FS_FiniteSubsetsOfFinite
  <2>3. IsWellFoundedOn(StrictSubsetOrdering(0..N), FiniteSubsetsOf(0..N))
    BY FS_StrictSubsetOrderingWellFounded
  <2> QED
    BY <2>2, <2>3, Zenon
<1>2. Down \subseteq SUBSET (0..N) /\ Down # {}
  <2>1. \A x \in T : 0..x \subseteq 0..N
    OBVIOUS
  <2> QED
    BY <2>1, Zenon
<1>3. \E d \in Down : \A e \in Down : <<e, d>> \notin StrictSubsetOrdering(0..N)
  <2> HIDE DEF Down
  <2> QED
    BY <1>1, <1>2, WFMin
<1>4. PICK x \in T : \A e \in Down : <<e, 0..x>> \notin StrictSubsetOrdering(0..N)
  BY <1>3
<1>5. ASSUME NEW y \in T, y < x PROVE FALSE
  <2>1. 0..y \in Down /\ 0..x \in Down
    OBVIOUS
  <2>2. 0..y \subseteq 0..x /\ x \in 0..x /\ x \notin 0..y
    BY <1>5
  <2>3. <<0..y, 0..x>> \in StrictSubsetOrdering(0..N)
    BY <2>1, <2>2, <1>2 DEF StrictSubsetOrdering
  <2> QED
    BY <2>1, <2>3, <1>4
<1> QED
  BY <1>5

\* What every step of an interval keeps, its end has from its start.
LEMMA Carried ==
    ASSUME NEW N \in Nat, NEW T \in SUBSET (0..N), 0 \in T,
           \A n \in 1..N : n - 1 \in T => n \in T
    PROVE  T = 0..N
<1> SUFFICES ASSUME T # 0..N PROVE FALSE
  OBVIOUS
<1> DEFINE R == (0..N) \ T
<1>1. PICK x \in R : \A y \in R : x <= y
  <2>1. R \in SUBSET (0..N) /\ R # {}
    OBVIOUS
  <2> HIDE DEF R
  <2> QED
    BY <2>1, LeastMember
<1>2. x \in 1..N /\ x - 1 \in 0..N /\ x - 1 \notin R
  BY <1>1
<1> QED
  BY <1>1, <1>2

\* What std::list::erase leaves, entry by entry.
LEMMA RemoveAtFacts ==
    ASSUME NEW S, NEW s \in Seq(S), NEW i \in 1..Len(s)
    PROVE  /\ RemoveAt(s, i) \in Seq(S)
           /\ Len(RemoveAt(s, i)) = Len(s) - 1
           /\ \A n \in 1..(Len(s) - 1) : RemoveAt(s, i)[n] = IF n < i THEN s[n] ELSE s[n + 1]
<1> DEFINE a == SubSeq(s, 1, i - 1)
           c == SubSeq(s, i + 1, Len(s))
<1>1. a \in Seq(S) /\ Len(a) = i - 1 /\ \A n \in 1..(i - 1) : a[n] = s[n]
  OBVIOUS
<1>2. c \in Seq(S) /\ Len(c) = Len(s) - i /\ \A n \in 1..(Len(s) - i) : c[n] = s[i + n]
  OBVIOUS
<1> HIDE DEF a, c
<1>3. /\ a \o c \in Seq(S) /\ Len(a \o c) = Len(s) - 1
      /\ \A n \in 1..(Len(s) - 1) : (a \o c)[n] = IF n < i THEN a[n] ELSE c[n - (i - 1)]
  <2>1. /\ a \o c \in Seq(S) /\ Len(a \o c) = Len(a) + Len(c)
        /\ \A n \in 1..(Len(a) + Len(c)) : (a \o c)[n] = IF n <= Len(a) THEN a[n] ELSE c[n - Len(a)]
    BY <1>1, <1>2, ConcatProperties
  <2>2. Len(a) + Len(c) = Len(s) - 1 /\ Len(a) = i - 1
    BY <1>1, <1>2
  <2> QED
    BY <2>1, <2>2
<1>4. \A n \in 1..(Len(s) - 1) : (a \o c)[n] = IF n < i THEN s[n] ELSE s[n + 1]
  BY <1>1, <1>2, <1>3
<1> QED
  BY <1>3, <1>4 DEF RemoveAt, a, c

\* Erasing from a list without duplicates takes the entry from its set.
LEMMA RemoveAtSet ==
    ASSUME NEW S, NEW s \in Seq(S), NEW i \in 1..Len(s), IsInjective(s)
    PROVE  /\ ToSet(RemoveAt(s, i)) = ToSet(s) \ {s[i]}
           /\ IsInjective(RemoveAt(s, i))
<1> DEFINE v == RemoveAt(s, i)
           L == Len(s)
<1>1. /\ v \in Seq(S) /\ Len(v) = L - 1 /\ L \in Nat /\ i \in Nat
      /\ \A n \in 1..(L - 1) : v[n] = IF n < i THEN s[n] ELSE s[n + 1]
  <2>1. L \in Nat /\ i \in Nat
    OBVIOUS
  <2>2. /\ v \in Seq(S) /\ Len(v) = L - 1
        /\ \A n \in 1..(L - 1) : v[n] = IF n < i THEN s[n] ELSE s[n + 1]
    BY RemoveAtFacts
  <2> QED
    BY <2>1, <2>2
<1>2. DOMAIN s = 1..L /\ DOMAIN v = 1..(L - 1)
  BY <1>1
<1>3. \A a, b \in 1..L : s[a] = s[b] => a = b
  BY <1>2 DEF IsInjective
<1>6. i \in 1..L
  BY DEF L
<1> HIDE DEF v, L
<1>4. ASSUME NEW n \in 1..(L - 1) PROVE \E m \in (1..L) \ {i} : v[n] = s[m]
  BY <1>1
<1>5. ASSUME NEW m \in (1..L) \ {i} PROVE \E n \in 1..(L - 1) : v[n] = s[m]
  <2>1. CASE m < i
    <3>1. m \in 1..(L - 1) /\ v[m] = s[m]
      BY <1>1, <1>6, <2>1
    <3> QED
      BY <3>1
  <2>2. CASE m > i
    <3>1. m - 1 \in 1..(L - 1) /\ ~(m - 1 < i) /\ (m - 1) + 1 = m
      BY <1>1, <2>2
    <3> QED
      BY <1>1, <3>1
  <2> QED
    BY <2>1, <2>2
<1>7. ToSet(v) = ToSet(s) \ {s[i]}
  <2>1. ToSet(v) \subseteq ToSet(s) \ {s[i]}
    BY <1>2, <1>3, <1>4, <1>6 DEF ToSet
  <2>2. ToSet(s) \ {s[i]} \subseteq ToSet(v)
    BY <1>2, <1>5 DEF ToSet
  <2> QED
    BY <2>1, <2>2
<1>8. IsInjective(v)
  <2> SUFFICES ASSUME NEW a \in 1..(L - 1), NEW b \in 1..(L - 1), v[a] = v[b] PROVE a = b
    BY <1>2 DEF IsInjective
  <2> DEFINE up(n) == IF n < i THEN n ELSE n + 1
  <2>1. up(a) \in 1..L /\ up(b) \in 1..L /\ s[up(a)] = s[up(b)]
    <3>1. ASSUME NEW n \in 1..(L - 1) PROVE up(n) \in 1..L
      BY <1>1
    <3>2. ASSUME NEW n \in 1..(L - 1) PROVE v[n] = s[up(n)]
      <4>1. v[n] = IF n < i THEN s[n] ELSE s[n + 1]
        BY <1>1
      <4> QED
        BY <4>1
    <3> HIDE DEF up
    <3> QED
      BY <3>1, <3>2
  <2>2. up(a) = up(b)
    BY <1>3, <2>1
  <2> QED
    BY <1>1, <2>2
<1> QED
  BY <1>7, <1>8 DEF v

\* A sequence is one of its own entries.
LEMMA OwnEntries ==
    ASSUME NEW S, NEW s \in Seq(S)
    PROVE  s \in Seq(ToSet(s)) /\ ToSet(s) \subseteq S
<1>1. Len(s) \in Nat /\ DOMAIN s = 1..Len(s) /\ s = [n \in 1..Len(s) |-> s[n]]
  OBVIOUS
<1>2. \A n \in 1..Len(s) : s[n] \in S /\ s[n] \in ToSet(s)
  BY <1>1 DEF ToSet
<1>3. ToSet(s) \subseteq S
  BY <1>1, <1>2 DEF ToSet
<1>4. s \in [1..Len(s) -> ToSet(s)]
  BY <1>1, <1>2
<1>5. s \in Seq(ToSet(s))
  BY <1>1, <1>4
<1> QED
  BY <1>3, <1>5

\* What push_back adds.
LEMMA AppendSet ==
    ASSUME NEW S, NEW s \in Seq(S), NEW x
    PROVE  /\ ToSet(Append(s, x)) = ToSet(s) \cup {x}
           /\ IsInjective(s) /\ x \notin ToSet(s) => IsInjective(Append(s, x))
<1> DEFINE v == Append(s, x)
           L == Len(s)
<1>1. /\ L \in Nat /\ DOMAIN s = 1..L /\ DOMAIN v = 1..(L + 1)
      /\ \A n \in 1..L : v[n] = s[n]
      /\ v[L + 1] = x
  OBVIOUS
<1> HIDE DEF v, L
<1>2. ToSet(v) = ToSet(s) \cup {x}
  <2>1. \A n \in 1..(L + 1) : n \in 1..L \/ n = L + 1
    BY <1>1
  <2>2. 1..L \subseteq 1..(L + 1) /\ L + 1 \in 1..(L + 1)
    BY <1>1
  <2> QED
    BY <1>1, <2>1, <2>2 DEF ToSet
<1>3. ASSUME IsInjective(s), x \notin ToSet(s) PROVE IsInjective(v)
  <2>1. \A n \in 1..L : s[n] # x
    BY <1>1, <1>3 DEF ToSet
  <2>2. \A a, b \in 1..L : s[a] = s[b] => a = b
    BY <1>1, <1>3 DEF IsInjective
  <2>3. \A n \in 1..(L + 1) : n \in 1..L \/ n = L + 1
    BY <1>1
  <2> QED
    BY <1>1, <2>1, <2>2, <2>3 DEF IsInjective
<1> QED
  BY <1>2, <1>3 DEF v
=============================================================================
