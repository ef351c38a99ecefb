----------------------------- MODULE LabsProofs -----------------------------
(***************************************************************************)
(* The programs of labs 1 to 14 for every value of the constants: an       *)
(* inductive invariant and its theorems for each (CJ, CP, SS and PS of     *)
(* MCLabs, Ring, Pair and Two of MCPrinters), and what each of the two     *)
(* compositions keeps whichever of its programs runs.                      *)
(***************************************************************************)
EXTENDS MCLabs, MCPrinters, TLAPS

-----------------------------------------------------------------------------
(***************************************************************************)
(* lab8 for every number of threads and of terms: which terms the sum has, *)
(* and that no thread outlives the arrays it uses.  The sum after the      *)
(* first joins has the quotients of the threads joined and the seams       *)
(* between them; a thread that was not created is a number not computed.   *)
(***************************************************************************)

Term(holds) == IF holds THEN 1 ELSE 0

Quot(c) == NUM_OF_STEPS \div c
Rem(c) == NUM_OF_STEPS % c

\* How often a term is in the sum after n joins of c threads.
SumAfter(n, j, c) ==
    Term(j < n * Quot(c)) + Term(\E w \in 1..Rem(c) : w <= n /\ j = w * Quot(c))

TermsOf(w) == PS!ArgsOf(w).start..(PS!ArgsOf(w).end - 1)

SumsTypeOK ==
    /\ main \in {"input", "create", "join", "returned", "gone", "crashed", "hangs"}
    /\ k \in Nat
    /\ count \in 0..MaxWorkers
    /\ worker \in [PS!Ids -> {"none", "running", "done", "cut"}]
    /\ failed \in BOOLEAN /\ garbage \in BOOLEAN
    /\ args = [w \in PS!Ids |-> args[w]]
    /\ result \in [PS!Ids -> SUBSET Int]
    /\ sum \in [PS!Steps -> Int]

\* What a thread works on, and what it has computed.
SumsWorkInv ==
    \A w \in PS!Ids :
        /\ worker[w] # "none" => w < count /\ args[w] = PS!ArgsOf(w)
        /\ worker[w] = "done" => result[w] = TermsOf(w)

\* Before the joins.
SumsCreateInv ==
    main \in {"input", "create"} =>
        /\ ~failed /\ ~garbage
        /\ k <= count
        /\ sum = [j \in PS!Steps |-> 0]
        /\ \A w \in PS!Ids : worker[w] # "cut" /\ (worker[w] # "none" <=> w < k)
        /\ main = "input" => count = 0
        /\ main = "create" => count > 0

\* During the joins.
SumsJoinInv ==
    main = "join" =>
        /\ count > 0 /\ k <= count
        /\ \A w \in PS!Ids : worker[w] # "cut" /\ (w < k => worker[w] # "running")
        /\ garbage <=> \E w \in 0..(k - 1) : worker[w] = "none"
        /\ failed <=> \E w \in 0..(count - 1) : worker[w] = "none"
        /\ ~failed => \A j \in PS!Steps : sum[j] = SumAfter(k, j, count)

\* After them.
SumsEndInv ==
    main \in {"returned", "gone"} =>
        /\ \A w \in PS!Ids : worker[w] \notin {"running", "cut"}
        /\ count > 0 => (garbage <=> failed)
        /\ count > 0 /\ ~failed => \A j \in PS!Steps : sum[j] = SumAfter(count, j, count)

SumsIInv == SumsTypeOK /\ SumsWorkInv /\ SumsCreateInv /\ SumsJoinInv /\ SumsEndInv

-----------------------------------------------------------------------------
LEMMA Division ==
    ASSUME NEW n \in Nat, NEW c \in Nat \ {0}, c <= n
    PROVE  n \div c \in Nat \ {0} /\ n % c \in 0..(c - 1)
<1>1. n % c \in 0..(c - 1)
  OBVIOUS
<1>2. n \div c \in Int
  OBVIOUS
<1>3. n \div c > 0
  OBVIOUS
<1> QED
  BY <1>1, <1>2, <1>3

LEMMA Multiples ==
    ASSUME NEW a \in Nat, NEW b \in Nat, a <= b, NEW q \in Nat
    PROVE  a * q <= b * q
<1>1. b * q = a * q + (b - a) * q
  OBVIOUS
<1>2. (b - a) * q >= 0
  OBVIOUS
<1> QED
  BY <1>1, <1>2

\* The terms of the next thread are those the sum lacks after the joins before it.
LEMMA NextTerms ==
    ASSUME NEW n \in 0..(count - 1), NEW j \in Int, count \in 1..MaxWorkers
    PROVE  SumAfter(n + 1, j, count) = SumAfter(n, j, count) + Term(j \in TermsOf(n))
<1> DEFINE q == Quot(count)
           r == Rem(count)
           a == n * q
<1>1. q \in Nat \ {0} /\ r \in 0..(count - 1) /\ n \in Nat
  <2>1. NUM_OF_STEPS \in Nat /\ count \in Nat \ {0} /\ count <= NUM_OF_STEPS
    BY StepsAssumption, WorkersAssumption
  <2>2. Quot(count) \in Nat \ {0} /\ Rem(count) \in 0..(count - 1)
    BY <2>1, Division DEF Quot, Rem
  <2> QED
    BY <2>1, <2>2
<1>2. /\ PS!ArgsOf(n).start = a
      /\ PS!ArgsOf(n).end = a + q + (IF n < r THEN 1 ELSE 0)
  BY DEF PS!ArgsOf, Quot, Rem
<1> HIDE DEF q, r
<1>3. (n + 1) * q = a + q /\ a \in Nat
  BY <1>1
<1>4. \A w \in 1..r : w <= n => w * q <= a
  BY <1>1, Multiples
<1> HIDE DEF a
<1>5. Term(j < a + q) = Term(j < a) + Term(j \in a..(a + q - 1))
  BY <1>1, <1>3 DEF Term
<1>6. (\E w \in 1..r : w <= n + 1 /\ j = w * q)
        <=> (\E w \in 1..r : w <= n /\ j = w * q) \/ (n < r /\ j = a + q)
  <2>1. \A w \in 1..r : w <= n + 1 <=> w <= n \/ (w = n + 1 /\ n < r)
    BY <1>1
  <2>2. n < r => n + 1 \in 1..r
    BY <1>1
  <2> QED
    BY <2>1, <2>2, <1>3, <1>1
<1>7. ~((\E w \in 1..r : w <= n /\ j = w * q) /\ j = a + q)
  BY <1>1, <1>3, <1>4
<1>8. Term(\E w \in 1..r : w <= n + 1 /\ j = w * q)
        = Term(\E w \in 1..r : w <= n /\ j = w * q) + Term(n < r /\ j = a + q)
  BY <1>6, <1>7 DEF Term
<1>9. Term(j \in TermsOf(n)) = Term(j \in a..(a + q - 1)) + Term(n < r /\ j = a + q)
  BY <1>1, <1>2, <1>3 DEF Term, TermsOf
<1> QED
  BY <1>3, <1>5, <1>8, <1>9 DEF SumAfter, Term, q, r, a

LEMMA NothingSummed ==
    ASSUME count \in 1..MaxWorkers, NEW j \in PS!Steps PROVE SumAfter(0, j, count) = 0
BY Division, StepsAssumption, WorkersAssumption DEF SumAfter, Term, Quot, Rem, PS!Steps

-----------------------------------------------------------------------------
USE WorkersAssumption, StepsAssumption

LEMMA SumsInitInv == PS!Init => SumsIInv
<1> SUFFICES ASSUME PS!Init PROVE SumsIInv
  OBVIOUS
<1> USE DEF PS!Init, PS!InitWorkers
<1>1. SumsTypeOK
  <2>1. args = [w \in PS!Ids |-> args[w]]
    BY Zenon
  <2>2. result \in [PS!Ids -> SUBSET Int] /\ sum \in [PS!Steps -> Int]
    OBVIOUS
  <2>3. k \in Nat /\ count \in 0..MaxWorkers
    BY WorkersAssumption
  <2>4. main = "input" /\ worker \in [PS!Ids -> {"none", "running", "done", "cut"}]
    OBVIOUS
  <2>5. failed \in BOOLEAN /\ garbage \in BOOLEAN
    OBVIOUS
  <2> HIDE DEF PS!Init, PS!InitWorkers
  <2> QED
    BY <2>1, <2>2, <2>3, <2>4, <2>5 DEF SumsTypeOK
<1>2. SumsWorkInv /\ SumsCreateInv /\ SumsJoinInv /\ SumsEndInv
  BY DEF SumsWorkInv, SumsCreateInv, SumsJoinInv, SumsEndInv, PS!Ids
<1> QED
  BY <1>1, <1>2 DEF SumsIInv

LEMMA SumsInputInvariance == SumsIInv /\ PS!is_valid_input => SumsIInv'
<1> SUFFICES ASSUME SumsIInv, PS!is_valid_input PROVE SumsIInv'
  OBVIOUS
<1>1. \A w \in PS!Ids : worker[w] = "none"
  BY DEF PS!is_valid_input, SumsIInv, SumsTypeOK, SumsCreateInv, PS!Ids
<1> QED
  BY <1>1 DEF PS!is_valid_input, PS!sumVars, SumsIInv, SumsTypeOK, SumsWorkInv, SumsCreateInv,
     SumsJoinInv, SumsEndInv, PS!Ids, PS!Steps

\* The loop that creates: complete, or cut short by a failure.
LEMMA SumsCreateInvariance == SumsIInv /\ PS!create_threads_for_partial_sum => SumsIInv'
<1> SUFFICES ASSUME SumsIInv, PS!create_threads_for_partial_sum PROVE SumsIInv'
  OBVIOUS
<1> USE DEF SumsIInv
<1>1. CASE PS!CreateNext /\ PS!SetArgs
  <2>1. k \in PS!Ids /\ k < count
    BY <1>1 DEF PS!CreateNext, SumsTypeOK, PS!Ids
  <2>2. /\ worker' = [worker EXCEPT ![k] = "running"]
        /\ args' = [args EXCEPT ![k] = PS!ArgsOf(k)]
        /\ k' = k + 1
        /\ UNCHANGED <<main, count, failed, result, sum, garbage>> /\ main = "create"
    BY <1>1 DEF PS!CreateNext, PS!SetArgs
  <2>3. \A w \in PS!Ids : PS!ArgsOf(w)' = PS!ArgsOf(w) /\ TermsOf(w)' = TermsOf(w)
    BY <2>2 DEF PS!ArgsOf, TermsOf
  <2>4. SumsTypeOK'
    BY <2>1, <2>2 DEF SumsTypeOK
  <2>5. SumsWorkInv'
    BY <2>1, <2>2, <2>3 DEF SumsTypeOK, SumsWorkInv
  <2>6. SumsCreateInv'
    BY <2>1, <2>2 DEF SumsTypeOK, SumsCreateInv, PS!Ids
  <2> QED
    BY <2>2, <2>4, <2>5, <2>6 DEF SumsJoinInv, SumsEndInv
<1>2. CASE PS!CreateFails("join") /\ PS!SetArgs
  <2>1. k \in 0..(count - 1) /\ k \in PS!Ids /\ worker[k] = "none" /\ count > 0
    BY <1>2 DEF PS!CreateFails, SumsTypeOK, SumsCreateInv, PS!Ids
  <2>2. /\ args' = [args EXCEPT ![k] = PS!ArgsOf(k)]
        /\ main = "create" /\ main' = "join" /\ k' = 0 /\ failed' = TRUE
        /\ UNCHANGED <<count, worker, result, sum, garbage>>
    BY <1>2 DEF PS!CreateFails, PS!SetArgs
  <2>3. \A w \in PS!Ids : PS!ArgsOf(w)' = PS!ArgsOf(w) /\ TermsOf(w)' = TermsOf(w)
    BY <2>2 DEF PS!ArgsOf, TermsOf
  <2>4. SumsTypeOK'
    BY <2>1, <2>2 DEF SumsTypeOK
  <2>5. SumsWorkInv'
    BY <2>1, <2>2, <2>3 DEF SumsTypeOK, SumsWorkInv
  <2>6. SumsJoinInv'
    BY <2>1, <2>2 DEF SumsTypeOK, SumsCreateInv, SumsJoinInv, PS!Ids
  <2> QED
    BY <2>2, <2>4, <2>5, <2>6 DEF SumsCreateInv, SumsEndInv
<1>3. CASE PS!CreatedAll("join") /\ UNCHANGED PS!sumVars
  <2>1. /\ main = "create" /\ main' = "join" /\ k = count /\ k' = 0
        /\ UNCHANGED <<count, worker, failed, args, result, sum, garbage>>
    BY <1>3 DEF PS!CreatedAll, PS!LeaveLoop, PS!sumVars
  <2>2. \A w \in PS!Ids : PS!ArgsOf(w)' = PS!ArgsOf(w) /\ TermsOf(w)' = TermsOf(w)
    BY <2>1 DEF PS!ArgsOf, TermsOf
  <2>3. count \in 1..MaxWorkers
    BY <2>1 DEF SumsTypeOK, SumsCreateInv
  <2>4. SumsTypeOK'
    BY <2>1 DEF SumsTypeOK
  <2>5. SumsWorkInv'
    BY <2>1, <2>2 DEF SumsWorkInv
  <2>6. \A j \in PS!Steps : sum[j] = SumAfter(0, j, count)
    BY <2>1, <2>3, NothingSummed DEF SumsCreateInv
  <2>7. \A w \in 0..(count - 1) : w \in PS!Ids /\ worker[w] # "none"
    BY <2>1, <2>3 DEF SumsCreateInv, PS!Ids
  <2>8. SumsJoinInv'
    BY <2>1, <2>3, <2>6, <2>7 DEF SumsCreateInv, SumsJoinInv, PS!Ids
  <2> QED
    BY <2>1, <2>4, <2>5, <2>8 DEF SumsCreateInv, SumsEndInv
<1> QED
  BY <1>1, <1>2, <1>3 DEF PS!create_threads_for_partial_sum

\* A round of the joins adds the terms of its thread, or a number nobody computed.
LEMMA SumsAddInvariance == SumsIInv /\ PS!AddResult => SumsIInv'
<1> SUFFICES ASSUME SumsIInv, PS!AddResult PROVE SumsIInv'
  OBVIOUS
<1> USE DEF SumsIInv
<1>1. /\ main = "join" /\ k < count /\ k' = k + 1
      /\ worker[k] \in {"none", "done"}
      /\ UNCHANGED <<main, count, worker, failed, args, result>>
  BY DEF PS!AddResult, PS!JoinNext, PS!JoinRefused
<1>2. k \in 0..(count - 1) /\ k \in PS!Ids /\ count \in 1..MaxWorkers
  BY <1>1 DEF SumsTypeOK, PS!Ids
<1>3. \A w \in PS!Ids : PS!ArgsOf(w)' = PS!ArgsOf(w) /\ TermsOf(w)' = TermsOf(w)
  BY <1>1 DEF PS!ArgsOf, TermsOf
<1>5. SumsWorkInv'
  BY <1>1, <1>3 DEF SumsWorkInv
<1>6. CASE worker[k] = "none"
  <2>1. garbage' = TRUE /\ UNCHANGED sum /\ failed = TRUE
    BY <1>1, <1>2, <1>6 DEF PS!AddResult, SumsJoinInv, SumsTypeOK
  <2>2. k \in 0..(k' - 1)
    BY <1>1, <1>2
  <2>3. \A w \in PS!Ids : w < k' => worker'[w] # "running"
    BY <1>1, <1>2, <1>6 DEF SumsJoinInv, PS!Ids
  <2>4. SumsJoinInv'
    BY <1>1, <1>2, <1>6, <2>1, <2>2, <2>3 DEF SumsJoinInv
  <2> QED
    BY <1>1, <1>2, <1>5, <2>1, <2>4 DEF SumsTypeOK, SumsCreateInv, SumsEndInv
<1>7. CASE worker[k] = "done"
  <2>1. /\ garbage' = garbage
        /\ sum' = [j \in PS!Steps |-> sum[j] + (IF j \in result[k] THEN 1 ELSE 0)]
    BY <1>7 DEF PS!AddResult
  <2>2. result[k] = TermsOf(k)
    BY <1>2, <1>7 DEF SumsWorkInv
  <2>3. ASSUME ~failed, NEW j \in PS!Steps PROVE sum'[j] = SumAfter(k + 1, j, count)
    <3>1. SumAfter(k + 1, j, count) = SumAfter(k, j, count) + Term(j \in TermsOf(k))
      BY <1>2, NextTerms DEF PS!Steps
    <3>2. sum[j] = SumAfter(k, j, count)
      BY <1>1, <2>3 DEF SumsJoinInv
    <3> QED
      BY <2>1, <2>2, <3>1, <3>2 DEF Term
  <2>4. 0..(k' - 1) = 0..(k - 1) \cup {k} /\ \A w \in PS!Ids : w < k' => w < k \/ w = k
    BY <1>1, <1>2 DEF PS!Ids
  <2>5. SumsTypeOK'
    BY <1>1, <2>1 DEF SumsTypeOK
  <2>6. SumsJoinInv'
    BY <1>1, <1>2, <1>7, <2>1, <2>3, <2>4 DEF SumsJoinInv
  <2> QED
    BY <1>1, <1>5, <2>5, <2>6 DEF SumsCreateInv, SumsEndInv
<1> QED
  BY <1>1, <1>6, <1>7

\* The ends of main.
LEMMA SumsEndInvariance ==
    SumsIInv /\ (PS!JoinLost \/ PS!PrintPi \/ PS!EndProcess) /\ UNCHANGED PS!sumVars => SumsIInv'
<1> SUFFICES ASSUME SumsIInv, PS!JoinLost \/ PS!PrintPi \/ PS!EndProcess, UNCHANGED PS!sumVars
             PROVE  SumsIInv'
  OBVIOUS
<1> USE DEF SumsIInv
<1>1. UNCHANGED <<count, failed, args, result, sum, garbage>>
  BY DEF PS!JoinLost, PS!PrintPi, PS!JoinedAll, PS!LeaveLoop, PS!EndProcess, PS!sumVars
<1>2. \A w \in PS!Ids : PS!ArgsOf(w)' = PS!ArgsOf(w) /\ TermsOf(w)' = TermsOf(w)
  BY <1>1 DEF PS!ArgsOf, TermsOf
<1>4. CASE PS!JoinLost
  BY <1>1, <1>2, <1>4 DEF PS!JoinLost, SumsTypeOK, SumsWorkInv, SumsCreateInv, SumsJoinInv,
     SumsEndInv
<1>5. CASE PS!PrintPi
  <2>1. main = "join" /\ main' = "returned" /\ k = count /\ k' = 0 /\ UNCHANGED worker
    BY <1>5 DEF PS!PrintPi, PS!JoinedAll, PS!LeaveLoop
  <2>2. \A w \in PS!Ids : worker[w] \notin {"running", "cut"}
    BY <2>1 DEF SumsJoinInv, SumsWorkInv, PS!Ids, SumsTypeOK
  <2>3. count > 0 => (garbage <=> failed)
    BY <2>1 DEF SumsJoinInv
  <2>4. ~failed => \A j \in PS!Steps : sum[j] = SumAfter(count, j, count)
    BY <2>1 DEF SumsJoinInv
  <2>5. SumsEndInv'
    BY <1>1, <2>1, <2>2, <2>3, <2>4 DEF SumsEndInv
  <2> QED
    BY <1>1, <1>2, <2>1, <2>5 DEF SumsTypeOK, SumsWorkInv, SumsCreateInv, SumsJoinInv
<1>6. CASE PS!EndProcess
  <2>1. main = "returned" /\ main' = "gone" /\ UNCHANGED k
    BY <1>6 DEF PS!EndProcess, SumsTypeOK
  <2>2. worker' = worker
    BY <1>6, <2>1 DEF PS!EndProcess, SumsEndInv, PS!Running, SumsTypeOK
  <2>3. SumsEndInv'
    BY <1>1, <2>1, <2>2 DEF SumsEndInv
  <2> QED
    BY <1>1, <1>2, <2>1, <2>2, <2>3 DEF SumsTypeOK, SumsWorkInv, SumsCreateInv, SumsJoinInv
<1> QED
  BY <1>4, <1>5, <1>6

\* A thread ends: it was not joined yet.
LEMMA SumsThreadInvariance ==
    ASSUME SumsIInv, NEW w \in PS!Ids, PS!calc_partial_sum(w)
    PROVE  SumsIInv'
<1> USE DEF SumsIInv
<1>1. /\ worker[w] = "running" /\ worker' = [worker EXCEPT ![w] = "done"]
      /\ result' = [result EXCEPT ![w] = args[w].start..(args[w].end - 1)]
      /\ UNCHANGED <<main, k, count, failed, args, sum, garbage>>
  BY DEF PS!calc_partial_sum, PS!Finish, PS!Running
<1>2. \A v \in PS!Ids : PS!ArgsOf(v)' = PS!ArgsOf(v) /\ TermsOf(v)' = TermsOf(v)
  BY <1>1 DEF PS!ArgsOf, TermsOf
<1>4. args[w].start..(args[w].end - 1) = TermsOf(w)
  BY <1>1 DEF SumsWorkInv, TermsOf
<1>5. SumsTypeOK'
  BY <1>1 DEF SumsTypeOK
<1>6. SumsWorkInv'
  BY <1>1, <1>2, <1>4 DEF SumsTypeOK, SumsWorkInv
<1>7. SumsCreateInv'
  BY <1>1 DEF SumsCreateInv, SumsTypeOK
<1>8. SumsJoinInv'
  BY <1>1 DEF SumsJoinInv, SumsTypeOK, PS!Ids
<1>9. SumsEndInv'
  BY <1>1 DEF SumsEndInv
<1> QED
  BY <1>5, <1>6, <1>7, <1>8, <1>9

\* Arguments, results and the sum agree in every reachable state.
THEOREM SumsInvariance == PS!Spec => []SumsIInv
<1>1. SumsIInv /\ [PS!Next]_(PS!vars) => SumsIInv'
  <2> SUFFICES ASSUME SumsIInv, [PS!Next]_(PS!vars) PROVE SumsIInv'
    OBVIOUS
  <2>1. CASE UNCHANGED PS!vars
    BY <2>1 DEF PS!vars, PS!workersVars, PS!sumVars, SumsIInv, SumsTypeOK, SumsWorkInv,
       SumsCreateInv, SumsJoinInv, SumsEndInv,
       PS!ArgsOf, TermsOf
  <2>2. CASE PS!MainStep
    BY <2>2, SumsInputInvariance, SumsCreateInvariance, SumsAddInvariance, SumsEndInvariance
       DEF PS!MainStep, PS!calculate_pi, PS!join_threads_with_partial_sum, PS!PrintPi
  <2> QED
    BY <2>1, <2>2, SumsThreadInvariance DEF PS!Next, PS!ThreadStep
<1> QED
  BY SumsInitInv, <1>1, PTL DEF PS!Spec

\* lab8, lines 58-97: every term is summed once but for the first of the second thread and
\* of the next ones, as many as the remainder, which are summed twice, and the last, as
\* many, which are not; a number nobody computed is added exactly if a thread is missing.
THEOREM SumIsKnown == PS!Spec => []PS!TermsSummed
<1>1. SumsIInv => PS!TermsSummed
  <2> SUFFICES ASSUME SumsIInv, main \in {"returned", "gone"}, count > 0
               PROVE  /\ garbage <=> failed
                      /\ ~failed => \A j \in PS!Steps :
                           sum[j] = (IF j < count * PS!Quotient THEN 1 ELSE 0)
                                      + (IF j \in PS!Seams THEN 1 ELSE 0)
    BY DEF PS!TermsSummed
  <2>1. count \in Nat \ {0} /\ count <= NUM_OF_STEPS
    BY DEF SumsIInv, SumsTypeOK
  <2>2. PS!Remainder \in 0..(count - 1)
    BY <2>1, Division DEF PS!Remainder
  <2>3. \A j \in PS!Steps : j \in PS!Seams
         <=> \E w \in 1..PS!Remainder : w <= count /\ j = w * PS!Quotient
    BY <2>1, <2>2 DEF PS!Seams
  <2> QED
    BY <2>3 DEF SumsIInv, SumsEndInv, SumAfter, Term, Quot, Rem, PS!Quotient, PS!Remainder
<1> QED
  BY <1>1, SumsInvariance, PTL

\* Where the number of threads divides the number of terms, every term is summed once.
THEOREM SumIsWhole ==
    PS!Spec => [](main = "returned" /\ count > 0 /\ ~failed /\ PS!Remainder = 0
                 => \A j \in PS!Steps : sum[j] = 1)
<1>1. SumsIInv /\ PS!TermsSummed =>
        (main = "returned" /\ count > 0 /\ ~failed /\ PS!Remainder = 0
           => \A j \in PS!Steps : sum[j] = 1)
  <2> SUFFICES ASSUME SumsIInv, PS!TermsSummed, main = "returned", count > 0, ~failed,
                      PS!Remainder = 0,
                      NEW j \in PS!Steps
               PROVE  sum[j] = 1
    OBVIOUS
  <2>1. count \in Nat \ {0}
    BY DEF SumsIInv, SumsTypeOK
  <2>2. count * PS!Quotient = NUM_OF_STEPS
    BY <2>1 DEF PS!Quotient, PS!Remainder
  <2>3. PS!Seams = {}
    BY DEF PS!Seams
  <2> QED
    BY <2>2, <2>3 DEF PS!TermsSummed, PS!Steps
<1> QED
  BY <1>1, SumsInvariance, SumIsKnown, PTL

\* lab8, lines 116-138: no thread runs on, or is ended, when its arguments go with calculate_pi.
THEOREM SumsThreadsAreJoined == PS!Spec => []PS!NobodyCutOff
<1>1. SumsIInv => PS!NobodyCutOff
  BY DEF SumsIInv, SumsEndInv, PS!NobodyCutOff, PS!OutlivesThreads
<1> QED
  BY <1>1, SumsInvariance, PTL

-----------------------------------------------------------------------------
(***************************************************************************)
(* labs 1 to 3: what became of a thread follows from where main stands and *)
(* from its loop variable.                                                 *)
(***************************************************************************)

JoinTypeOK ==
    /\ lab \in 1..3
    /\ main \in {"create", "join", "print", "exited", "returned", "gone"}
    /\ k \in Nat
    /\ count = IF lab = 3 THEN 4 ELSE 1
    /\ worker \in [CJ!Ids -> {"none", "running", "done", "cut"}]
    /\ failed \in BOOLEAN
    /\ lines \in [CJ!Ids \cup {CJ!Parent} -> Int]

\* In the loops, and in lab2 behind them.
JoinLoopInv ==
    /\ main # "gone" => \A w \in CJ!Ids : worker[w] # "cut"
    /\ main = "create" => k <= count /\ ~failed /\ \A w \in CJ!Ids : w >= k => worker[w] = "none"
    /\ main = "join" => lab # 1 /\ \A w \in CJ!Ids : w < k => worker[w] = "done"
    /\ main \in {"join", "print", "exited"} => \A w \in CJ!Ids : w >= count => worker[w] = "none"
    /\ lab = 2 /\ main = "print" => worker[0] = "done"

\* When main has returned, and in lab2 once the parent prints.
JoinEndInv ==
    /\ main = "returned" => (lab = 3 /\ failed) \/ \A w \in CJ!Ids : worker[w] # "running"
    /\ main = "gone" => (lab = 3 /\ failed) \/ \A w \in CJ!Ids : worker[w] \notin {"running", "cut"}
    /\ main \in {"create", "join"} => lines[CJ!Parent] = 0
    /\ lab = 2 /\ lines[CJ!Parent] > 0 => worker[0] = "done"

JoinIInv == JoinTypeOK /\ JoinLoopInv /\ JoinEndInv

LEMMA JoinInitInv == CJ!Init => JoinIInv
<1> SUFFICES ASSUME CJ!Init PROVE JoinIInv
  OBVIOUS
<1>1. /\ lab \in 1..3 /\ main = "create" /\ k = 0 /\ failed = FALSE
      /\ count = IF lab = 3 THEN 4 ELSE 1
      /\ worker = [w \in CJ!Ids |-> "none"]
      /\ lines = [p \in CJ!Ids \cup {CJ!Parent} |-> 0]
  BY DEF CJ!Init, CJ!InitWorkers
<1>2. JoinTypeOK
  <2>1. worker \in [CJ!Ids -> {"none", "running", "done", "cut"}]
    BY <1>1
  <2>2. lines \in [CJ!Ids \cup {CJ!Parent} -> Int]
    BY <1>1
  <2>3. k \in Nat /\ failed \in BOOLEAN
    BY <1>1
  <2> QED
    BY <1>1, <2>1, <2>2, <2>3 DEF JoinTypeOK
<1>3. JoinLoopInv /\ JoinEndInv
  BY <1>1 DEF JoinLoopInv, JoinEndInv, CJ!Ids, CJ!Parent
<1> QED
  BY <1>2, <1>3 DEF JoinIInv

\* main creates, joins and returns, or leaves.
LEMMA JoinMainInvariance == JoinIInv /\ CJ!MainStep => JoinIInv'
<1> SUFFICES ASSUME JoinIInv, CJ!MainStep PROVE JoinIInv'
  OBVIOUS
<1> USE DEF JoinIInv, JoinTypeOK, JoinLoopInv, JoinEndInv, CJ!Ids, CJ!Parent
<1>1. CASE CJ!PrintParent
  BY <1>1 DEF CJ!PrintParent, CJ!PrintOne, CJ!workersVars
<1>2. CASE CJ!CreateNext /\ UNCHANGED <<lab, lines>>
  <2>1. /\ main = "create" /\ k < count /\ k' = k + 1
        /\ worker' = [worker EXCEPT ![k] = "running"]
        /\ UNCHANGED <<main, count, failed, lab, lines>>
    BY <1>2 DEF CJ!CreateNext
  <2>2. JoinTypeOK'
    <3>1. worker' \in [CJ!Ids -> {"none", "running", "done", "cut"}]
      BY <2>1
    <3> QED
      BY <2>1, <3>1
  <2>3. JoinLoopInv'
    BY <2>1
  <2>4. JoinEndInv'
    BY <2>1
  <2> QED
    BY <2>2, <2>3, <2>4
<1>3. CASE CJ!CreateFails("returned") /\ UNCHANGED <<lab, lines>>
  BY <1>3 DEF CJ!CreateFails
<1>4. CASE CJ!CreatedAll("print") /\ lab = 1 /\ UNCHANGED <<lab, lines>>
  BY <1>4 DEF CJ!CreatedAll, CJ!LeaveLoop
<1>5. CASE CJ!CreatedAll("join") /\ lab # 1 /\ UNCHANGED <<lab, lines>>
  BY <1>5 DEF CJ!CreatedAll, CJ!LeaveLoop
<1>6. CASE CJ!JoinNext /\ UNCHANGED <<lab, lines>>
  BY <1>6 DEF CJ!JoinNext
<1>7. CASE CJ!JoinedAll("print") /\ lab = 2 /\ UNCHANGED <<lab, lines>>
  BY <1>7 DEF CJ!JoinedAll, CJ!LeaveLoop
<1>8. CASE CJ!JoinedAll("exited") /\ lab = 3 /\ UNCHANGED <<lab, lines>>
  BY <1>8 DEF CJ!JoinedAll, CJ!LeaveLoop
<1>9. CASE CJ!ParentPrinted /\ lab # 3 /\ UNCHANGED <<lab, lines>>
  BY <1>9 DEF CJ!ParentPrinted
<1>10. CASE CJ!EndProcess /\ UNCHANGED <<lab, lines>>
  BY <1>10 DEF CJ!EndProcess, CJ!Running
<1> QED
  BY <1>1, <1>2, <1>3, <1>4, <1>5, <1>6, <1>7, <1>8, <1>9, <1>10
     DEF CJ!MainStep, CJ!MainOfLab1, CJ!MainOfLab2, CJ!MainOfLab3

\* A thread prints, or has printed all its lines.
LEMMA JoinThreadInvariance == ASSUME JoinIInv, NEW w \in CJ!Ids, CJ!ThreadStep(w) PROVE JoinIInv'
<1> USE DEF JoinIInv, JoinTypeOK, JoinLoopInv, JoinEndInv, CJ!Ids, CJ!Parent
<1>1. CASE CJ!ThreadPrints(w)
  BY <1>1 DEF CJ!ThreadPrints, CJ!PrintOne, CJ!workersVars
<1>2. CASE CJ!ThreadEnds(w)
  <2>1. /\ worker[w] = "running" /\ main # "gone"
        /\ worker' = [worker EXCEPT ![w] = "done"]
        /\ UNCHANGED <<main, k, count, failed, lab, lines>>
    BY <1>2 DEF CJ!ThreadEnds, CJ!Finish, CJ!Running, CJ!Alive
  <2>2. JoinTypeOK'
    BY <2>1
  <2>3. JoinLoopInv'
    BY <2>1
  <2>4. JoinEndInv'
    BY <2>1
  <2> QED
    BY <2>2, <2>3, <2>4
<1> QED
  BY <1>1, <1>2 DEF CJ!ThreadStep

\* Threads, loop variable and place in main agree in every reachable state of labs 1 to 3.
THEOREM JoinInvariance == CJ!Spec => []JoinIInv
<1>1. JoinIInv /\ [CJ!Next]_(CJ!vars) => JoinIInv'
  <2> SUFFICES ASSUME JoinIInv, [CJ!Next]_(CJ!vars) PROVE JoinIInv'
    OBVIOUS
  <2>1. CASE UNCHANGED CJ!vars
    BY <2>1 DEF CJ!vars, CJ!workersVars, JoinIInv, JoinTypeOK, JoinLoopInv, JoinEndInv
  <2> QED
    BY <2>1, JoinMainInvariance, JoinThreadInvariance DEF CJ!Next
<1> QED
  BY JoinInitInv, <1>1, PTL DEF CJ!Spec

\* labs 1 to 3: no thread is cut off by the end of main, but those of lab3 when a later
\* creation fails; and in lab2 main prints nothing before the thread is done.
THEOREM JoinNobodyCutOff == CJ!Spec => []CJ!NobodyCutOff
<1>1. JoinIInv => CJ!NobodyCutOff
  BY DEF JoinIInv, JoinLoopInv, JoinEndInv, CJ!NobodyCutOff, CJ!OutlivesThreads
<1> QED
  BY <1>1, JoinInvariance, PTL

-----------------------------------------------------------------------------
(***************************************************************************)
(* labs 4 and 5: the thread is done exactly if it left at its test, where  *)
(* it may be cancelled.                                                    *)
(***************************************************************************)

CancelTypeOK ==
    /\ lab \in {4, 5}
    /\ main \in {"create", "sleep", "join", "returned", "gone"}
    /\ k \in Nat /\ count = 1
    /\ worker \in [CP!Ids -> {"none", "running", "done", "cut"}]
    /\ failed \in BOOLEAN /\ canceled \in BOOLEAN

\* Only one thread is ever created.
CancelThreadInv ==
    /\ \A w \in CP!Ids : w # 0 => worker[w] = "none"
    /\ main # "gone" => worker[0] # "cut"
    /\ at = "ended" <=> worker[0] = "done"
    /\ at = "ended" => ~disabled /\ (handled <=> lab = 5)

CancelMainInv ==
    /\ main = "create" => k <= 1 /\ (k = 0 => worker[0] = "none")
    /\ main = "sleep" => k = 0
    /\ main = "join" => k <= 1 /\ (k = 1 => worker[0] = "done")
    /\ main \in {"create", "sleep", "join"} => ~failed
    /\ main \in {"returned", "gone"} =>
         IF failed THEN worker[0] = "none" ELSE worker[0] = "done" /\ canceled

CancelIInv == CancelTypeOK /\ CancelThreadInv /\ CancelMainInv

LEMMA CancelInitInv == CP!Init => CancelIInv
<1> SUFFICES ASSUME CP!Init PROVE CancelIInv
  OBVIOUS
<1>1. /\ lab \in {4, 5} /\ main = "create" /\ k = 0 /\ count = 1 /\ failed = FALSE
      /\ worker = [w \in CP!Ids |-> "none"]
      /\ at = "test" /\ canceled = FALSE
  BY DEF CP!Init, CP!InitWorkers
<1>2. 0 \in CP!Ids
  BY DEF CP!Ids
<1>3. CancelTypeOK
  <2>1. worker \in [CP!Ids -> {"none", "running", "done", "cut"}]
    BY <1>1
  <2>2. failed \in BOOLEAN /\ canceled \in BOOLEAN /\ k \in Nat
    BY <1>1
  <2> QED
    BY <1>1, <2>1, <2>2 DEF CancelTypeOK
<1> QED
  BY <1>1, <1>2, <1>3 DEF CancelIInv, CancelThreadInv, CancelMainInv

\* main creates the thread, cancels it and joins it.
LEMMA CancelMainInvariance == CancelIInv /\ CP!MainStep => CancelIInv'
<1> SUFFICES ASSUME CancelIInv, CP!MainStep PROVE CancelIInv'
  OBVIOUS
<1>0. 0 \in CP!Ids
  BY DEF CP!Ids
<1>1. UNCHANGED <<lab, at, disabled, handled>>
  BY DEF CP!MainStep, CP!threadVars
<1> USE <1>0, <1>1 DEF CancelIInv, CancelTypeOK, CancelThreadInv, CancelMainInv
<1>2. CASE CP!CreateNext /\ UNCHANGED <<pending, canceled>>
  <2>0. main = "create" /\ k = 0
    BY <1>2 DEF CP!CreateNext
  <2>1. /\ k' = 1 /\ worker' = [worker EXCEPT ![0] = "running"]
        /\ UNCHANGED <<main, count, failed, canceled>>
    BY <1>2, <2>0 DEF CP!CreateNext
  <2> QED
    BY <2>0, <2>1
<1>3. CASE CP!CreateFails("returned") /\ UNCHANGED <<pending, canceled>>
  BY <1>3 DEF CP!CreateFails
<1>4. CASE CP!CreatedAll("sleep") /\ UNCHANGED <<pending, canceled>>
  BY <1>4 DEF CP!CreatedAll, CP!LeaveLoop
<1>5. CASE CP!Cancel
  BY <1>5 DEF CP!Cancel
<1>6. CASE CP!JoinNext /\ UNCHANGED <<pending, canceled>>
  BY <1>6 DEF CP!JoinNext
<1>7. CASE CP!ReadResult
  BY <1>7 DEF CP!ReadResult, CP!JoinedAll, CP!LeaveLoop
<1>8. CASE CP!EndProcess /\ UNCHANGED <<pending, canceled>>
  BY <1>8 DEF CP!EndProcess, CP!Running
<1> QED
  BY <1>2, <1>3, <1>4, <1>5, <1>6, <1>7, <1>8 DEF CP!MainStep

\* The thread goes round its loop, or ends at the test.
LEMMA CancelThreadInvariance == CancelIInv /\ CP!ThreadStep => CancelIInv'
<1> SUFFICES ASSUME CancelIInv, CP!ThreadStep PROVE CancelIInv'
  OBVIOUS
<1>0. 0 \in CP!Ids
  BY DEF CP!Ids
<1> USE <1>0 DEF CancelIInv, CancelTypeOK, CancelThreadInv, CancelMainInv, CP!MainStays
<1>1. CASE CP!EndAtTest
  <2>1. /\ worker[0] = "running" /\ ~disabled /\ main # "gone"
        /\ worker' = [worker EXCEPT ![0] = "done"]
        /\ at' = "ended" /\ handled' = (lab = 5)
        /\ UNCHANGED <<main, k, count, failed, lab, canceled, disabled>>
    BY <1>1 DEF CP!EndAtTest, CP!AtLoop, CP!Finish, CP!Running, CP!Alive, CP!ThreadStep
  <2> QED
    BY <2>1
<1>2. CASE ~CP!EndAtTest
  <2>1. /\ worker[0] = "running" /\ at' # "ended"
        /\ UNCHANGED <<main, k, count, worker, failed, lab, canceled>>
    BY <1>2 DEF CP!ThreadStep, CP!TestCancel, CP!SetCancelState, CP!PrintSymbol, CP!Enable,
       CP!AtLoop, CP!Running, CP!workersVars
  <2> QED
    BY <2>1
<1> QED
  BY <1>1, <1>2

\* Thread and main agree in every reachable state of labs 4 and 5.
THEOREM CancelInvariance == CP!Spec => []CancelIInv
<1>1. CancelIInv /\ [CP!Next]_(CP!vars) => CancelIInv'
  <2> SUFFICES ASSUME CancelIInv, [CP!Next]_(CP!vars) PROVE CancelIInv'
    OBVIOUS
  <2>1. CASE UNCHANGED CP!vars
    BY <2>1 DEF CP!vars, CP!workersVars, CP!threadVars, CancelIInv, CancelTypeOK, CancelThreadInv,
       CancelMainInv
  <2> QED
    BY <2>1, CancelMainInvariance, CancelThreadInvariance DEF CP!Next
<1> QED
  BY CancelInitInv, <1>1, PTL DEF CP!Spec

\* labs 4 and 5: main returns after the thread was cancelled at its test, not in its
\* printing, and after lab5's handler has run.
THEOREM CancelNobodyCutOff == CP!Spec => []CP!NobodyCutOff
<1>1. CancelIInv => CP!NobodyCutOff
  <2> SUFFICES ASSUME CancelIInv, main \in {"returned", "gone"}
               PROVE  /\ \A w \in CP!Ids : worker[w] \notin {"running", "cut"}
                      /\ ~failed => canceled /\ ~disabled /\ (handled <=> lab = 5)
    BY DEF CP!NobodyCutOff, CP!OutlivesThreads
  <2> QED
    BY DEF CancelIInv, CancelThreadInv, CancelMainInv
<1> QED
  BY <1>1, CancelInvariance, PTL

-----------------------------------------------------------------------------
(***************************************************************************)
(* lab6: a thread that sleeps is never overdue, so that each one that      *)
(* prints is due later than those that have printed.                       *)
(***************************************************************************)

SleepTypeOK ==
    /\ main \in {"read", "alloc", "create", "join", "cleanup", "returned", "gone",
                 "crashed", "hangs"}
    /\ k \in Nat /\ count \in Nat
    /\ worker \in [SS!Ids -> {"none", "running", "done", "cut"}]
    /\ lengths \in Seq(Nat) /\ Len(lengths) <= MaxWorkers
    /\ now \in Int /\ due \in [SS!Ids -> Int]
    /\ output \in Seq(SS!Ids)

\* The strings are freed when nobody uses them any more.
SleepMainInv ==
    /\ freed => main \in {"returned", "gone"}
    /\ main \in {"alloc", "create"} => count = Len(lengths)
    /\ main \in {"read", "alloc"} => k = 0 /\ \A w \in SS!Ids : worker[w] = "none"
    /\ main = "create" => k <= count /\ \A w \in SS!Ids : w >= k => worker[w] = "none"
    /\ main = "join" => \A w \in SS!Ids : (w < k \/ w >= count) => worker[w] # "running"
    /\ \A w \in SS!Ids : worker[w] # "cut" /\ (worker[w] # "none" => w < Len(lengths))
    /\ main \in {"cleanup", "returned", "gone"} => \A w \in SS!Ids : worker[w] # "running"

SleepTimeInv ==
    /\ \A w \in SS!Ids : worker[w] = "running" => now <= due[w]
    /\ \A p \in 1..Len(output) : worker[output[p]] = "done" /\ due[output[p]] <= now
    /\ \A p, q \in 1..Len(output) : p < q => due[output[p]] <= due[output[q]]

SleepIInv == SleepTypeOK /\ SleepMainInv /\ SleepTimeInv

LEMMA SleepInitInv == SS!Init => SleepIInv
<1> SUFFICES ASSUME SS!Init PROVE SleepIInv
  OBVIOUS
<1>1. /\ main = "read" /\ k = 0 /\ count = 0 /\ worker = [w \in SS!Ids |-> "none"]
      /\ lengths = <<>> /\ freed = FALSE /\ now = 0 /\ due = [w \in SS!Ids |-> 0] /\ output = <<>>
  BY DEF SS!Init, SS!InitWorkers
<1>2. SleepTypeOK
  <2>1. worker \in [SS!Ids -> {"none", "running", "done", "cut"}] /\ due \in [SS!Ids -> Int]
    BY <1>1
  <2>2. k \in Nat /\ count \in Nat /\ now \in Int /\ lengths \in Seq(Nat) /\ output \in Seq(SS!Ids)
        /\ Len(lengths) <= MaxWorkers
    BY <1>1
  <2> QED
    BY <1>1, <2>1, <2>2 DEF SleepTypeOK
<1> QED
  BY <1>1, <1>2 DEF SleepIInv, SleepMainInv, SleepTimeInv

\* main reads, creates, joins and frees.
LEMMA SleepMainInvariance == SleepIInv /\ SS!MainStep => SleepIInv'
<1> SUFFICES ASSUME SleepIInv, SS!MainStep PROVE SleepIInv'
  OBVIOUS
<1> USE LengthAssumption DEF SleepIInv, SleepTypeOK, SleepMainInv, SleepTimeInv
<1>1. CASE SS!ReadString
  BY <1>1 DEF SS!ReadString, SS!workersVars, SS!timeVars
<1>2. CASE SS!ReadFails
  BY <1>2 DEF SS!ReadFails, SS!timeVars
<1>3. CASE SS!ReadAll
  BY <1>3 DEF SS!ReadAll, SS!stringVars, SS!timeVars
<1>4. CASE SS!AllocThreads
  BY <1>4 DEF SS!AllocThreads, SS!timeVars
<1>5. CASE SS!CreateThread
  <2>1. /\ main = "create" /\ k < count /\ k' = k + 1
        /\ worker' = [worker EXCEPT ![k] = "running"]
        /\ due' = [due EXCEPT ![k] = now + lengths[k + 1]]
        /\ UNCHANGED <<main, count, lengths, freed, now, output>>
    BY <1>5 DEF SS!CreateThread, SS!CreateNext, SS!stringVars
  <2>2. k \in SS!Ids /\ lengths[k + 1] \in Nat /\ worker[k] = "none"
    BY <2>1 DEF SS!Ids
  <2>3. SleepTypeOK'
    BY <2>1, <2>2
  <2>4. SleepMainInv'
    BY <2>1, <2>2 DEF SS!Ids
  <2>5. \A p \in 1..Len(output) : output[p] \in SS!Ids /\ output[p] # k
    BY <2>2
  <2>6. SleepTimeInv'
    BY <2>1, <2>2, <2>5
  <2> QED
    BY <2>3, <2>4, <2>6
<1>6. CASE SS!CreateAndJoin
  <2>1. UNCHANGED <<count, worker, lengths, freed, now, due, output>>
    BY <1>6 DEF SS!CreateAndJoin, SS!CreateFails, SS!CreatedAll, SS!JoinNext, SS!JoinRefused,
       SS!JoinLost, SS!JoinedAll, SS!LeaveLoop, SS!stringVars, SS!timeVars
  <2>2. CASE SS!CreateFails("join")
    BY <2>1, <2>2 DEF SS!CreateFails, SS!Ids
  <2>3. CASE SS!CreatedAll("join")
    BY <2>1, <2>3 DEF SS!CreatedAll, SS!LeaveLoop, SS!Ids
  <2>4. CASE SS!JoinNext \/ SS!JoinRefused
    <3>1. main = "join" /\ main' = "join" /\ k' = k + 1 /\ worker[k] # "running"
      BY <2>4 DEF SS!JoinNext, SS!JoinRefused
    <3>2. \A w \in SS!Ids : w < k + 1 => w < k \/ w = k
      BY DEF SS!Ids
    <3> QED
      BY <2>1, <3>1, <3>2
  <2>5. CASE SS!JoinLost
    BY <2>1, <2>5 DEF SS!JoinLost
  <2>6. CASE SS!JoinedAll("cleanup")
    BY <2>1, <2>6 DEF SS!JoinedAll, SS!LeaveLoop, SS!Ids
  <2> QED
    BY <1>6, <2>2, <2>3, <2>4, <2>5, <2>6 DEF SS!CreateAndJoin
<1>7. CASE SS!doCleanUp
  BY <1>7 DEF SS!doCleanUp, SS!timeVars
<1>8. CASE SS!EndProcess /\ UNCHANGED <<SS!stringVars, SS!timeVars>>
  BY <1>8 DEF SS!EndProcess, SS!Running, SS!stringVars, SS!timeVars
<1> QED
  BY <1>1, <1>2, <1>3, <1>4, <1>5, <1>6, <1>7, <1>8 DEF SS!MainStep, SS!readStrings

\* A thread that is due prints; time passes if nobody is.
LEMMA SleepThreadInvariance == SleepIInv /\ SS!ThreadStep => SleepIInv'
<1> SUFFICES ASSUME SleepIInv, SS!ThreadStep PROVE SleepIInv'
  OBVIOUS
<1> USE DEF SleepIInv, SleepTypeOK, SleepMainInv, SleepTimeInv
<1>1. CASE SS!Tick
  BY <1>1 DEF SS!Tick, SS!Asleep, SS!Running, SS!workersVars, SS!stringVars
<1>2. ASSUME NEW w \in SS!Ids, SS!printString(w) PROVE SleepIInv'
  <2>1. /\ worker[w] = "running" /\ due[w] = now
        /\ worker' = [worker EXCEPT ![w] = "done"]
        /\ output' = Append(output, w)
        /\ UNCHANGED <<main, k, count, lengths, freed, now, due>>
    BY <1>2 DEF SS!printString, SS!Finish, SS!Running, SS!stringVars
  <2>2. /\ output' \in Seq(SS!Ids) /\ Len(output') = Len(output) + 1
        /\ \A p \in 1..Len(output) : output'[p] = output[p]
        /\ output'[Len(output) + 1] = w
    BY <2>1
  <2>3. SleepTypeOK'
    BY <2>1, <2>2
  <2>4. SleepMainInv'
    BY <2>1
  <2>5. \A p \in 1..Len(output') : p \in 1..Len(output) \/ p = Len(output) + 1
    BY <2>2
  <2>6. \A p \in 1..Len(output) : output[p] \in SS!Ids
    OBVIOUS
  <2>7. SleepTimeInv'
    BY <2>1, <2>2, <2>5, <2>6
  <2> QED
    BY <2>3, <2>4, <2>7
<1> QED
  BY <1>1, <1>2 DEF SS!ThreadStep

\* Strings, threads and time agree in every reachable state of lab6.
THEOREM SleepInvariance == SS!Spec => []SleepIInv
<1>1. SleepIInv /\ [SS!Next]_(SS!vars) => SleepIInv'
  <2> SUFFICES ASSUME SleepIInv, [SS!Next]_(SS!vars) PROVE SleepIInv'
    OBVIOUS
  <2>1. CASE UNCHANGED SS!vars
    BY <2>1 DEF SS!vars, SS!workersVars, SS!stringVars, SS!timeVars, SleepIInv, SleepTypeOK,
       SleepMainInv, SleepTimeInv
  <2> QED
    BY <2>1, SleepMainInvariance, SleepThreadInvariance DEF SS!Next
<1> QED
  BY SleepInitInv, <1>1, PTL DEF SS!Spec

\* lab6: no thread reads a string that is freed, whatever fails.
THEOREM SleepNobodyCutOff == SS!Spec => []SS!NobodyCutOff
<1>1. SleepIInv => SS!NobodyCutOff
  BY DEF SleepIInv, SleepMainInv, SS!NobodyCutOff, SS!OutlivesThreads, SS!Running
<1> QED
  BY <1>1, SleepInvariance, PTL

\* lab6: the strings come out in the order of their lengths, but for those that were
\* created late.
THEOREM SleepSorted == SS!Spec => []SS!Sorted
<1>1. SleepIInv => SS!Sorted
  <2> SUFFICES ASSUME SleepIInv, NEW p \in 1..Len(output), NEW q \in 1..Len(output), p < q
               PROVE  SS!Created(output[q]) - SS!Created(output[p])
                        >= lengths[output[p] + 1] - lengths[output[q] + 1]
    BY DEF SS!Sorted
  <2>1. \A r \in 1..Len(output) : output[r] \in SS!Ids /\ output[r] + 1 \in 1..Len(lengths)
    <3>1. \A r \in 1..Len(output) : output[r] \in SS!Ids /\ worker[output[r]] = "done"
      BY DEF SleepIInv, SleepTypeOK, SleepTimeInv
    <3>2. \A w \in SS!Ids : worker[w] = "done" => w \in Nat /\ w < Len(lengths)
      BY DEF SleepIInv, SleepMainInv, SS!Ids
    <3>3. Len(lengths) \in Nat
      BY DEF SleepIInv, SleepTypeOK
    <3> QED
      BY <3>1, <3>2, <3>3
  <2>2. \A r \in 1..Len(output) : lengths[output[r] + 1] \in Int /\ due[output[r]] \in Int
    BY <2>1 DEF SleepIInv, SleepTypeOK
  <2>3. due[output[p]] <= due[output[q]]
    BY DEF SleepIInv, SleepTimeInv
  <2> QED
    BY <2>2, <2>3 DEF SS!Created
<1> QED
  BY <1>1, SleepInvariance, PTL

-----------------------------------------------------------------------------
(* The composition of labs 1 to 6 and 8.                                    *)

\* A run of the composition that starts as one of labs 1 to 3 is a run of it.
THEOREM RunsJoin == Spec /\ program = "join" => CJ!Spec /\ [](program = "join")
<1>1. Init /\ program = "join" => CJ!Init
  BY DEF Init
<1>2. program = "join" /\ [Next]_vars => (program = "join")' /\ [CJ!Next]_(CJ!vars)
  BY DEF Next, MainStep, ThreadStep, vars, workersVars, joinVars, Ids, CJ!Ids, CJ!Next, CJ!vars,
     CJ!workersVars
<1> QED
  BY <1>1, <1>2, PTL DEF Spec, CJ!Spec

\* One that starts as lab4 or lab5 is a run of it.
THEOREM RunsCancel == Spec /\ program = "cancel" => CP!Spec /\ [](program = "cancel")
<1>1. Init /\ program = "cancel" => CP!Init
  BY DEF Init
<1>2. program = "cancel" /\ [Next]_vars => (program = "cancel")' /\ [CP!Next]_(CP!vars)
  BY DEF Next, MainStep, ThreadStep, vars, workersVars, cancelVars, CP!Next, CP!vars,
     CP!workersVars, CP!threadVars
<1> QED
  BY <1>1, <1>2, PTL DEF Spec, CP!Spec

\* One that starts as lab6 is a run of lab6.
THEOREM RunsSleep == Spec /\ program = "sleep" => SS!Spec /\ [](program = "sleep")
<1>1. Init /\ program = "sleep" => SS!Init
  BY DEF Init
<1>2. program = "sleep" /\ [Next]_vars => (program = "sleep")' /\ [SS!Next]_(SS!vars)
  BY DEF Next, MainStep, ThreadStep, vars, workersVars, sleepVars, SS!Next, SS!vars,
     SS!workersVars, SS!stringVars, SS!timeVars
<1> QED
  BY <1>1, <1>2, PTL DEF Spec, SS!Spec

\* One that starts as lab8 is a run of lab8.
THEOREM RunsSums == Spec /\ program = "sums" => PS!Spec /\ [](program = "sums")
<1>1. Init /\ program = "sums" => PS!Init
  BY DEF Init
<1>2. program = "sums" /\ [Next]_vars => (program = "sums")' /\ [PS!Next]_(PS!vars)
  BY DEF Next, MainStep, ThreadStep, vars, workersVars, sumVars, PS!Next, PS!vars,
     PS!workersVars, PS!sumVars
<1> QED
  BY <1>1, <1>2, PTL DEF Spec, PS!Spec

\* There is no other program.
LEMMA FourPrograms ==
    Spec => program = "join" \/ program = "cancel" \/ program = "sleep" \/ program = "sums"
<1>1. Init => program = "join" \/ program = "cancel" \/ program = "sleep" \/ program = "sums"
  BY DEF Init
<1> QED
  BY <1>1, PTL DEF Spec

\* Whichever lab runs, and whichever call of main fails but a pthread_create of lab3, no
\* thread is ended, or loses what it reads, by the end of main.
THEOREM NobodyIsCutOff == Spec => []NobodyCutOff
<1>1. program = "join" /\ CJ!NobodyCutOff => NobodyCutOff
  BY DEF NobodyCutOff
<1>2. program = "cancel" /\ CP!NobodyCutOff => NobodyCutOff
  BY DEF NobodyCutOff
<1>3. program = "sleep" /\ SS!NobodyCutOff => NobodyCutOff
  BY DEF NobodyCutOff
<1>4. program = "sums" /\ PS!NobodyCutOff => NobodyCutOff
  BY DEF NobodyCutOff
<1> QED
  BY <1>1, <1>2, <1>3, <1>4, FourPrograms, RunsJoin, RunsCancel, RunsSleep, RunsSums,
     JoinNobodyCutOff, CancelNobodyCutOff, SleepNobodyCutOff, SumsThreadsAreJoined, PTL

\* lab6 and lab8: what is printed and what is summed is right where it can be, for any
\* number of strings, threads and terms.
THEOREM OutputIsRight == Spec => []RightOutput
<1>1. program = "join" \/ program = "cancel" => RightOutput
  BY DEF RightOutput
<1>2. program = "sleep" /\ SS!Sorted => RightOutput
  BY DEF RightOutput
<1>3. program = "sums" /\ PS!TermsSummed => RightOutput
  BY DEF RightOutput
<1> QED
  BY <1>1, <1>2, <1>3, FourPrograms, RunsJoin, RunsCancel, RunsSleep, RunsSums,
     SleepSorted, SumIsKnown, PTL

-----------------------------------------------------------------------------
(***************************************************************************)
(* The ring of three mutexes of lab11 makes the threads alternate for      *)
(* every number of lines N, and no mutex call fails: what each thread      *)
(* holds follows from where it stands, and the threads are never more than *)
(* one round apart.                                                        *)
(***************************************************************************)

\* The mutexes a thread holds.
RingHolds(t) ==
    IF pc[t] \in {"print", "unlock"} THEN {this[t], Ring!NextMutex(t)}
    ELSE IF \/ pc[t] \in {"create", "spin", "spinForever", "setReady", "lock"}
            \/ t = "main" /\ pc[t] = "enter"
      THEN {this[t]} ELSE {}

RingOwnerInv == \A m \in Ring!Mutexes, t \in Ring!Threads : owner[m] = t <=> m \in RingHolds(t)

\* Where each thread may stand, and what it has done by then.
RingMainInv ==
    /\ pc["main"] \in {"init", "lockStart", "create", "spin", "spinForever", "enter",
                       "lock", "print", "unlock", "join", "destroy", "exit"}
    /\ pc["main"] \in {"init", "lockStart", "create"} => pc["new"] = "absent"
    /\ pc["main"] \in {"enter", "lock", "print", "unlock", "join"} => ready
    /\ pc["main"] \in {"destroy", "exit"} => pc["new"] \in {"absent", "done"}
    /\ pc["main"] \in {"init", "lockStart", "create", "spin", "spinForever", "enter"}
         => i["main"] = 0
    /\ pc["main"] = "join" => i["main"] = N
    /\ this["main"] = i["main"] % 3

RingNewInv ==
    /\ pc["new"] \in {"absent", "enter", "lockFirst", "setReady", "lock", "print",
                      "unlock", "done"}
    /\ ready <=> pc["new"] \in {"lock", "print", "unlock", "done"}
    /\ ~ready => i["new"] = 0
    /\ pc["new"] = "done" => i["new"] = N
    /\ pc["new"] \in {"absent", "enter"} => this["new"] = 0
    /\ pc["new"] \notin {"absent", "enter"} => this["new"] = (i["new"] + 2) % 3

\* The main thread is level or one round ahead; a thread in its round holds the
\* mutex the other would need to be in one, too.
RingRoundInv ==
    /\ i["main"] - i["new"] \in {0, 1}
    /\ pc["main"] \in {"print", "unlock"} => i["main"] = i["new"]
    /\ pc["new"] \in {"print", "unlock"} => i["main"] = i["new"] + 1
    /\ \A t \in Ring!Threads :
         /\ printed[t] = IF pc[t] = "unlock" THEN i[t] + 1 ELSE i[t]
         /\ pc[t] \in {"print", "unlock"} => i[t] < N

RingIInv == Ring!TypeOK /\ Ring!NoMutexError /\ RingOwnerInv /\ RingMainInv /\ RingNewInv
            /\ RingRoundInv

USE CountAssumption DEF Ring!Threads, Ring!Mutexes

\* Nobody holds a mutex at the start.
LEMMA RingInitInv == Ring!Init => RingIInv
<1> SUFFICES ASSUME Ring!Init PROVE RingIInv
  OBVIOUS
<1>1. Ring!TypeOK
  <2>1. hoisted \in BOOLEAN /\ ready \in BOOLEAN /\ destroyed \in BOOLEAN
    BY Zenon DEF Ring!Init
  <2> QED
    BY <2>1 DEF Ring!Init, Ring!InitThreads, Ring!TypeOK
<1>2. Ring!NoMutexError /\ RingOwnerInv /\ RingMainInv /\ RingNewInv /\ RingRoundInv
  BY DEF Ring!Init, Ring!InitThreads, Ring!NoMutexError, RingOwnerInv, RingHolds,
     RingMainInv, RingNewInv, RingRoundInv
<1> QED
  BY <1>1, <1>2 DEF RingIInv

\* Every step of main, outside the printing, keeps the invariant.
LEMMA RingMainInvariance == RingIInv /\ Ring!MainStep => RingIInv'
<1> SUFFICES ASSUME RingIInv, Ring!MainStep PROVE RingIInv'
  OBVIOUS
<1> USE DEF RingIInv, Ring!Goto
<1>1. CASE Ring!InitializeMutexes
  <2>1. Ring!TypeOK'
    <3>0. errors \subseteq {"init", "create", "lock", "unlock", "destroy"}
      BY DEF Ring!TypeOK
    <3>1. errors' \subseteq {"init", "create", "lock", "unlock", "destroy"}
      <4>1. errors' = errors \/ errors' = errors \cup {"init"}
        BY <1>1 DEF Ring!InitializeMutexes
      <4> QED
        BY <3>0, <4>1
    <3>2. pc' = [pc EXCEPT !["main"] = "lockStart"] \/ pc' = [pc EXCEPT !["main"] = "destroy"]
      BY <1>1 DEF Ring!InitializeMutexes
    <3>3. UNCHANGED <<owner, ready, hoisted, this, i, printed, destroyed>>
      BY <1>1 DEF Ring!InitializeMutexes
    <3>4. pc' \in [Ring!Threads -> {"init", "lockStart", "create", "spin", "spinForever", "join",
                                    "destroy", "exit", "absent", "enter", "lockFirst", "setReady",
                                    "lock", "print", "unlock", "done"}]
      BY <3>2 DEF Ring!TypeOK
    <3>5. /\ owner \in [Ring!Mutexes -> Ring!Threads \cup {"none"}]
          /\ ready \in BOOLEAN /\ hoisted \in BOOLEAN /\ destroyed \in BOOLEAN
          /\ this \in [Ring!Threads -> Ring!Mutexes]
          /\ i \in [Ring!Threads -> 0..N] /\ printed \in [Ring!Threads -> 0..N]
      BY DEF Ring!TypeOK
    <3> HIDE DEF RingIInv, Ring!Threads, Ring!Mutexes
    <3> QED
      BY <3>1, <3>3, <3>4, <3>5 DEF Ring!TypeOK
  <2>2. Ring!NoMutexError'
    BY <1>1 DEF Ring!InitializeMutexes, Ring!NoMutexError
  <2>3. RingOwnerInv'
    BY <1>1 DEF Ring!InitializeMutexes, Ring!TypeOK, RingOwnerInv, RingHolds,
       Ring!NextMutex, RingMainInv
  <2>4. RingMainInv'
    BY <1>1 DEF Ring!InitializeMutexes, Ring!TypeOK, RingMainInv, RingNewInv
  <2>5. RingNewInv'
    BY <1>1 DEF Ring!InitializeMutexes, Ring!TypeOK, RingMainInv, RingNewInv
  <2>6. RingRoundInv'
    <3>1. pc["main"] = "init" /\ pc["new"] = "absent"
      BY <1>1 DEF Ring!InitializeMutexes, RingMainInv
    <3>2. pc'["main"] \in {"lockStart", "destroy"} /\ pc'["new"] = "absent" /\ UNCHANGED <<i, printed>>
      BY <1>1, <3>1 DEF Ring!InitializeMutexes, Ring!TypeOK
    <3> QED
      BY <3>1, <3>2 DEF RingRoundInv
  <2> QED
    BY <2>1, <2>2, <2>3, <2>4, <2>5, <2>6 DEF RingIInv
<1>2. CASE Ring!LockStart
  <2>1. Ring!TypeOK'
    BY <1>2 DEF Ring!LockStart, Ring!TypeOK
  <2>2. Ring!NoMutexError'
    BY <1>2 DEF Ring!LockStart, Ring!NoMutexError
  <2>3. RingOwnerInv'
    BY <1>2 DEF Ring!LockStart, Ring!TypeOK, RingOwnerInv, RingHolds, Ring!NextMutex,
       RingMainInv, RingNewInv
  <2>4. RingMainInv'
    BY <1>2 DEF Ring!LockStart, Ring!TypeOK, RingMainInv, RingNewInv
  <2>5. RingNewInv'
    BY <1>2 DEF Ring!LockStart, Ring!TypeOK, RingMainInv, RingNewInv
  <2>6. RingRoundInv'
    BY <1>2 DEF Ring!LockStart, Ring!TypeOK, RingMainInv, RingNewInv, RingRoundInv
  <2> QED
    BY <2>1, <2>2, <2>3, <2>4, <2>5, <2>6 DEF RingIInv
<1>3. CASE Ring!CreateThread
  <2>1. Ring!TypeOK'
    BY <1>3 DEF Ring!CreateThread, Ring!TypeOK
  <2>2. Ring!NoMutexError'
    BY <1>3 DEF Ring!CreateThread, Ring!NoMutexError
  <2>3. RingOwnerInv'
    BY <1>3 DEF Ring!CreateThread, Ring!TypeOK, RingOwnerInv, RingHolds, Ring!NextMutex,
       RingMainInv, RingNewInv
  <2>4. RingMainInv'
    BY <1>3 DEF Ring!CreateThread, Ring!TypeOK, RingMainInv, RingNewInv
  <2>5. RingNewInv'
    BY <1>3 DEF Ring!CreateThread, Ring!TypeOK, RingMainInv, RingNewInv
  <2>6. RingRoundInv'
    <3>1. pc["main"] = "create" /\ pc["new"] = "absent"
      BY <1>3 DEF Ring!CreateThread, RingMainInv
    <3>2. pc'["main"] = "spin" /\ pc'["new"] \in {"absent", "enter"} /\ UNCHANGED <<i, printed>>
      BY <1>3, <3>1 DEF Ring!CreateThread, Ring!TypeOK
    <3> QED
      BY <3>1, <3>2 DEF RingRoundInv
  <2> QED
    BY <2>1, <2>2, <2>3, <2>4, <2>5, <2>6 DEF RingIInv
<1>4. CASE Ring!Spin
  <2>1. Ring!TypeOK'
    BY <1>4 DEF Ring!Spin, Ring!TypeOK
  <2>2. Ring!NoMutexError'
    BY <1>4 DEF Ring!Spin, Ring!NoMutexError
  <2>3. RingOwnerInv'
    BY <1>4 DEF Ring!Spin, Ring!TypeOK, RingOwnerInv, RingHolds, Ring!NextMutex, RingMainInv
  <2>4. RingMainInv'
    BY <1>4 DEF Ring!Spin, Ring!TypeOK, RingMainInv, RingNewInv
  <2>5. RingNewInv'
    BY <1>4 DEF Ring!Spin, Ring!TypeOK, RingMainInv, RingNewInv
  <2>6. RingRoundInv'
    BY <1>4 DEF Ring!Spin, Ring!TypeOK, RingMainInv, RingNewInv, RingRoundInv
  <2> QED
    BY <2>1, <2>2, <2>3, <2>4, <2>5, <2>6 DEF RingIInv
<1>5. CASE Ring!Join
  <2>1. Ring!TypeOK'
    BY <1>5 DEF Ring!Join, Ring!TypeOK
  <2>2. Ring!NoMutexError'
    BY <1>5 DEF Ring!Join, Ring!NoMutexError
  <2>3. RingOwnerInv'
    BY <1>5 DEF Ring!Join, Ring!TypeOK, RingOwnerInv, RingHolds, Ring!NextMutex
  <2>4. RingMainInv'
    BY <1>5 DEF Ring!Join, Ring!TypeOK, RingMainInv, RingNewInv
  <2>5. RingNewInv'
    BY <1>5 DEF Ring!Join, Ring!TypeOK, RingMainInv, RingNewInv
  <2>6. RingRoundInv'
    BY <1>5 DEF Ring!Join, Ring!TypeOK, RingMainInv, RingNewInv, RingRoundInv
  <2> QED
    BY <2>1, <2>2, <2>3, <2>4, <2>5, <2>6 DEF RingIInv
<1>6. CASE Ring!DestroyMutexes
  <2>1. \A m \in Ring!Mutexes : owner[m] = "none"
    BY <1>6 DEF Ring!DestroyMutexes, Ring!TypeOK, RingOwnerInv, RingHolds, RingMainInv,
       RingNewInv
  <2>2. Ring!TypeOK'
    BY <1>6, <2>1 DEF Ring!DestroyMutexes, Ring!TypeOK
  <2>3. Ring!NoMutexError'
    BY <1>6, <2>1 DEF Ring!DestroyMutexes, Ring!NoMutexError
  <2>4. RingOwnerInv'
    BY <1>6, <2>1 DEF Ring!DestroyMutexes, Ring!TypeOK, RingOwnerInv, RingHolds,
       Ring!NextMutex
  <2>5. RingMainInv'
    BY <1>6, <2>1 DEF Ring!DestroyMutexes, Ring!TypeOK, RingMainInv, RingNewInv
  <2>6. RingNewInv'
    BY <1>6, <2>1 DEF Ring!DestroyMutexes, Ring!TypeOK, RingMainInv, RingNewInv
  <2>7. RingRoundInv'
    BY <1>6, <2>1 DEF Ring!DestroyMutexes, Ring!TypeOK, RingMainInv, RingNewInv, RingRoundInv
  <2> QED
    BY <2>2, <2>3, <2>4, <2>5, <2>6, <2>7 DEF RingIInv
<1> QED
  BY <1>1, <1>2, <1>3, <1>4, <1>5, <1>6 DEF Ring!MainStep

\* Every step of a thread inside print_text_in_thread keeps it.
LEMMA RingThreadInvariance ==
    ASSUME RingIInv, NEW t \in Ring!Threads, Ring!ThreadStep(t)
    PROVE  RingIInv'
<1> USE DEF RingIInv, Ring!Goto
<1>1. CASE Ring!Enter(t)
  <2>1. pc' = [pc EXCEPT ![t] = IF ready THEN "lock" ELSE "lockFirst"] /\ UNCHANGED <<i, printed>>
    BY <1>1 DEF Ring!Enter
  <2>2. Ring!TypeOK'
    BY <1>1, <2>1 DEF Ring!Enter, Ring!TypeOK
  <2>3. Ring!NoMutexError'
    BY <1>1, <2>1 DEF Ring!Enter, Ring!NoMutexError
  <2>4. RingOwnerInv'
    BY <1>1, <2>1 DEF Ring!Enter, Ring!TypeOK, RingOwnerInv, RingHolds, Ring!NextMutex,
       RingMainInv, RingNewInv
  <2>5. RingMainInv'
    BY <1>1, <2>1 DEF Ring!Enter, Ring!TypeOK, RingMainInv, RingNewInv
  <2>6. RingNewInv'
    BY <1>1, <2>1 DEF Ring!Enter, Ring!TypeOK, RingMainInv, RingNewInv
  <2>7. RingRoundInv'
    BY <1>1, <2>1 DEF Ring!Enter, Ring!TypeOK, RingMainInv, RingNewInv, RingRoundInv
  <2> QED
    BY <2>2, <2>3, <2>4, <2>5, <2>6, <2>7 DEF RingIInv
<1>2. CASE Ring!LockFirst(t)
  <2>1. t = "new" /\ this[t] = 2 /\ i[t] = 0
    BY <1>2 DEF Ring!LockFirst, Ring!TypeOK, RingMainInv, RingNewInv, RingRoundInv
  <2>2. /\ owner[2] = "none" /\ owner' = [owner EXCEPT ![2] = t]
       /\ pc' = [pc EXCEPT ![t] = "setReady"] /\ UNCHANGED errors
    BY <1>2, <2>1 DEF Ring!LockFirst, Ring!LockMutex, Ring!TypeOK, RingOwnerInv, RingHolds
  <2>3. Ring!TypeOK'
    BY <1>2, <2>1, <2>2 DEF Ring!LockFirst, Ring!TypeOK
  <2>4. Ring!NoMutexError'
    BY <1>2, <2>1, <2>2 DEF Ring!LockFirst, Ring!NoMutexError
  <2>5. RingOwnerInv'
    BY <1>2, <2>1, <2>2 DEF Ring!LockFirst, Ring!TypeOK, RingOwnerInv, RingHolds,
       Ring!NextMutex
  <2>6. RingMainInv'
    BY <1>2, <2>1, <2>2 DEF Ring!LockFirst, Ring!TypeOK, RingMainInv, RingNewInv
  <2>7. RingNewInv'
    BY <1>2, <2>1, <2>2 DEF Ring!LockFirst, Ring!TypeOK, RingMainInv, RingNewInv
  <2>8. RingRoundInv'
    BY <1>2, <2>1, <2>2 DEF Ring!LockFirst, Ring!TypeOK, RingMainInv, RingNewInv, RingRoundInv
  <2> QED
    BY <2>3, <2>4, <2>5, <2>6, <2>7, <2>8 DEF RingIInv
<1>3. CASE Ring!SetReady(t)
  <2>1. t = "new"
    BY <1>3 DEF Ring!SetReady, RingMainInv
  <2>2. Ring!TypeOK'
    BY <1>3, <2>1 DEF Ring!SetReady, Ring!TypeOK
  <2>3. Ring!NoMutexError'
    BY <1>3, <2>1 DEF Ring!SetReady, Ring!NoMutexError
  <2>4. RingOwnerInv'
    BY <1>3, <2>1 DEF Ring!SetReady, Ring!TypeOK, RingOwnerInv, RingHolds, Ring!NextMutex
  <2>5. RingMainInv'
    BY <1>3, <2>1 DEF Ring!SetReady, Ring!TypeOK, RingMainInv, RingNewInv
  <2>6. RingNewInv'
    BY <1>3, <2>1 DEF Ring!SetReady, Ring!TypeOK, RingMainInv, RingNewInv
  <2>7. RingRoundInv'
    BY <1>3, <2>1 DEF Ring!SetReady, Ring!TypeOK, RingMainInv, RingNewInv, RingRoundInv
  <2> QED
    BY <2>2, <2>3, <2>4, <2>5, <2>6, <2>7 DEF RingIInv
<1>4. CASE Ring!LockNext(t)
  <2>1. Ring!NextMutex(t) \in Ring!Mutexes /\ Ring!NextMutex(t) # this[t]
    BY <1>4 DEF Ring!NextMutex, Ring!TypeOK
  <2>2. owner[Ring!NextMutex(t)] = "none"
    BY <1>4, <2>1 DEF Ring!LockNext, Ring!LockMutex, Ring!TypeOK, RingOwnerInv, RingHolds
  <2>3. /\ owner' = [owner EXCEPT ![Ring!NextMutex(t)] = t]
       /\ pc' = [pc EXCEPT ![t] = "print"] /\ UNCHANGED <<errors, this, i, printed, ready>>
    BY <1>4, <2>1, <2>2 DEF Ring!LockNext, Ring!LockMutex, Ring!TypeOK
  <2>4. IF t = "main" THEN i["main"] = i["new"] ELSE i["main"] = i["new"] + 1
    BY <1>4, <2>2 DEF Ring!LockNext, Ring!TypeOK, RingOwnerInv, RingHolds, Ring!NextMutex,
       RingMainInv, RingNewInv, RingRoundInv
  <2>5. Ring!TypeOK'
    BY <1>4, <2>1, <2>2, <2>3, <2>4 DEF Ring!LockNext, Ring!TypeOK
  <2>6. Ring!NoMutexError'
    BY <1>4, <2>1, <2>2, <2>3, <2>4 DEF Ring!LockNext, Ring!NoMutexError
  <2>7. RingOwnerInv'
    BY <1>4, <2>1, <2>2, <2>3, <2>4 DEF Ring!LockNext, Ring!TypeOK, RingOwnerInv, RingHolds,
       Ring!NextMutex
  <2>8. RingMainInv'
    BY <1>4, <2>1, <2>2, <2>3, <2>4 DEF Ring!LockNext, Ring!TypeOK, RingMainInv, RingNewInv
  <2>9. RingNewInv'
    BY <1>4, <2>1, <2>2, <2>3, <2>4 DEF Ring!LockNext, Ring!TypeOK, RingMainInv, RingNewInv
  <2>10. RingRoundInv'
    BY <1>4, <2>1, <2>2, <2>3, <2>4 DEF Ring!LockNext, Ring!TypeOK, RingMainInv, RingNewInv,
       RingRoundInv
  <2> QED
    BY <2>5, <2>6, <2>7, <2>8, <2>9, <2>10 DEF RingIInv
<1>5. CASE Ring!PrintLine(t)
  <2>1. Ring!TypeOK'
    BY <1>5 DEF Ring!PrintLine, Ring!TypeOK, RingRoundInv
  <2>2. Ring!NoMutexError'
    BY <1>5 DEF Ring!PrintLine, Ring!NoMutexError
  <2>3. RingOwnerInv'
    BY <1>5 DEF Ring!PrintLine, Ring!TypeOK, RingOwnerInv, RingHolds, Ring!NextMutex
  <2>4. RingMainInv'
    BY <1>5 DEF Ring!PrintLine, Ring!TypeOK, RingMainInv, RingNewInv
  <2>5. RingNewInv'
    BY <1>5 DEF Ring!PrintLine, Ring!TypeOK, RingMainInv, RingNewInv
  <2>6. RingRoundInv'
    BY <1>5 DEF Ring!PrintLine, Ring!TypeOK, RingMainInv, RingNewInv, RingRoundInv
  <2> QED
    BY <2>1, <2>2, <2>3, <2>4, <2>5, <2>6 DEF RingIInv
<1>6. CASE Ring!UnlockThis(t)
  <2>1. owner[this[t]] = t
    BY <1>6 DEF Ring!UnlockThis, Ring!TypeOK, RingOwnerInv, RingHolds
  <2>2. /\ owner' = [owner EXCEPT ![this[t]] = "none"]
       /\ this' = [this EXCEPT ![t] = Ring!NextMutex(t)] /\ i' = [i EXCEPT ![t] = @ + 1]
       /\ pc' = [pc EXCEPT ![t] = "lock"] /\ UNCHANGED <<errors, printed, ready>>
    BY <1>6, <2>1 DEF Ring!UnlockThis, Ring!UnlockMutex
  <2>3. Ring!NextMutex(t) \in Ring!Mutexes /\ Ring!NextMutex(t) # this[t]
    BY <1>6 DEF Ring!NextMutex, Ring!TypeOK
  <2>4. this'["main"] = i'["main"] % 3
    BY <1>6, <2>2 DEF Ring!NextMutex, Ring!TypeOK, RingMainInv
  <2>5. pc["new"] = pc'["new"] \/ t = "new"
    BY <1>6, <2>2 DEF Ring!TypeOK
  <2>6. Ring!TypeOK'
    BY <1>6, <2>1, <2>2, <2>3, <2>4, <2>5 DEF Ring!UnlockThis, Ring!TypeOK, RingRoundInv
  <2>7. Ring!NoMutexError'
    BY <1>6, <2>1, <2>2, <2>3, <2>4, <2>5 DEF Ring!UnlockThis, Ring!NoMutexError
  <2>8. RingOwnerInv'
    BY <1>6, <2>1, <2>2, <2>3, <2>4, <2>5 DEF Ring!UnlockThis, Ring!TypeOK, RingOwnerInv,
       RingHolds, Ring!NextMutex
  <2>9. RingMainInv'
    BY <1>6, <2>1, <2>2, <2>3, <2>4, <2>5 DEF Ring!UnlockThis, Ring!TypeOK, RingMainInv,
       RingNewInv, Ring!NextMutex
  <2>10. RingNewInv'
    BY <1>6, <2>1, <2>2, <2>3, <2>4, <2>5 DEF Ring!UnlockThis, Ring!TypeOK, RingMainInv,
       RingNewInv, Ring!NextMutex
  <2>11. RingRoundInv'
    BY <1>6, <2>1, <2>2, <2>3, <2>4, <2>5 DEF Ring!UnlockThis, Ring!TypeOK, RingMainInv,
       RingNewInv, RingRoundInv
  <2> QED
    BY <2>6, <2>7, <2>8, <2>9, <2>10, <2>11 DEF RingIInv
<1>7. CASE Ring!UnlockLast(t)
  <2>1. owner[this[t]] = t
    BY <1>7 DEF Ring!UnlockLast, Ring!TypeOK, RingOwnerInv, RingHolds
  <2>2. /\ owner' = [owner EXCEPT ![this[t]] = "none"]
       /\ pc' = [pc EXCEPT ![t] = IF t = "main" THEN "join" ELSE "done"]
       /\ UNCHANGED <<errors, this, i, printed, ready>>
    BY <1>7, <2>1 DEF Ring!UnlockLast, Ring!UnlockMutex, Ring!Return
  <2>3. Ring!TypeOK'
    BY <1>7, <2>1, <2>2 DEF Ring!UnlockLast, Ring!TypeOK
  <2>4. Ring!NoMutexError'
    BY <1>7, <2>1, <2>2 DEF Ring!UnlockLast, Ring!NoMutexError
  <2>5. RingOwnerInv'
    BY <1>7, <2>1, <2>2 DEF Ring!UnlockLast, Ring!TypeOK, RingOwnerInv, RingHolds,
       Ring!NextMutex
  <2>6. RingMainInv'
    BY <1>7, <2>1, <2>2 DEF Ring!UnlockLast, Ring!TypeOK, RingMainInv, RingNewInv
  <2>7. RingNewInv'
    BY <1>7, <2>1, <2>2 DEF Ring!UnlockLast, Ring!TypeOK, RingMainInv, RingNewInv
  <2>8. RingRoundInv'
    BY <1>7, <2>1, <2>2 DEF Ring!UnlockLast, Ring!TypeOK, RingMainInv, RingNewInv, RingRoundInv
  <2> QED
    BY <2>3, <2>4, <2>5, <2>6, <2>7, <2>8 DEF RingIInv
<1> QED
  BY <1>1, <1>2, <1>3, <1>4, <1>5, <1>6, <1>7 DEF Ring!ThreadStep

\* The invariant holds in every reachable state.
THEOREM RingInvariance == Ring!Spec => []RingIInv
<1>1. RingIInv /\ [Ring!Next]_(Ring!vars) => RingIInv'
  <2> SUFFICES ASSUME RingIInv, [Ring!Next]_(Ring!vars) PROVE RingIInv'
    OBVIOUS
  <2>1. CASE UNCHANGED Ring!vars
    BY <2>1 DEF Ring!vars, RingIInv, Ring!TypeOK, Ring!NoMutexError, RingOwnerInv,
       RingHolds, Ring!NextMutex, RingMainInv, RingNewInv,
                RingRoundInv
  <2>2. CASE Ring!Next
    BY <2>2, RingMainInvariance, RingThreadInvariance DEF Ring!Next
  <2> QED
    BY <2>1, <2>2
<1> QED
  BY RingInitInv, <1>1, PTL DEF Ring!Spec

\* The mutexes, flags and counters keep their types.
THEOREM RingTypeCorrect == Ring!Spec => []Ring!TypeOK
BY RingInvariance, PTL DEF RingIInv

\* No call of the mutex functions fails while the threads run, nor at the end.
THEOREM RingMutexCallsSucceed == Ring!Spec => []Ring!NoMutexError
BY RingInvariance, PTL DEF RingIInv

\* The lines come in strict alternation, the main thread's first, for every N.
THEOREM RingTakeTurns == Ring!Spec => Ring!Alternates
<1>1. Ring!Init => Ring!Turns!Init
  BY DEF Ring!Init, Ring!InitThreads, Ring!Turns!Init
<1>2. RingIInv /\ [Ring!Next]_(Ring!vars) => [Ring!Turns!Next]_printed
  <2> SUFFICES ASSUME RingIInv, [Ring!Next]_(Ring!vars), printed' # printed
               PROVE  Ring!Turns!Next
    OBVIOUS
  <2>1. PICK t \in Ring!Threads : Ring!PrintLine(t)
    BY DEF Ring!vars, Ring!Next, Ring!MainStep, Ring!ThreadStep,
       Ring!InitializeMutexes, Ring!LockStart, Ring!CreateThread, Ring!Spin,
           Ring!Join, Ring!DestroyMutexes, Ring!Enter, Ring!LockFirst, Ring!SetReady,
           Ring!LockNext, Ring!UnlockThis, Ring!UnlockLast
  <2>2. CASE t = "main"
    BY <2>1, <2>2 DEF Ring!PrintLine, RingIInv, Ring!TypeOK, RingMainInv, RingNewInv,
       RingRoundInv,
                      Ring!Turns!Next, Ring!Turns!PrintFirst
  <2>3. CASE t = "new"
    BY <2>1, <2>3 DEF Ring!PrintLine, RingIInv, Ring!TypeOK, RingMainInv, RingNewInv,
       RingRoundInv,
                      Ring!Turns!Next, Ring!Turns!PrintSecond
  <2> QED
    BY <2>2, <2>3
<1> QED
  BY <1>1, <1>2, RingInvariance, PTL DEF Ring!Spec, Ring!Alternates, Ring!Turns!Spec

-----------------------------------------------------------------------------
(***************************************************************************)
(* The two semaphores of lab14 make the threads alternate for every number *)
(* of lines N: the permit is always in exactly one place, and the place    *)
(* says how far apart the two loop variables are.                          *)
(***************************************************************************)

PairPrinting(t) == pc[t] \in {"print", "post"}
PairRunning == pc["new"] # "absent" /\ pc["main"] # "exit"

\* Before the second thread exists nothing has moved.
PairBeforeInv ==
    pc["new"] = "absent" =>
        /\ pc["main"] \in {"init", "create", "destroy", "exit"}
        /\ \A t \in Pair!Threads : i[t] = 0 /\ printed[t] = 0
        /\ pc["main"] = "create" => sems[0] = 0 /\ sems[1] = 1

\* Where the permit is, and what that says of the two loops.
PairPermitInv ==
    PairRunning =>
        \/ sems[0] = 0 /\ sems[1] = 1 /\ ~PairPrinting("new") /\ ~PairPrinting("main")
           /\ i["new"] = i["main"]
        \/ sems[0] = 0 /\ sems[1] = 0 /\ PairPrinting("new") /\ ~PairPrinting("main")
           /\ i["new"] = i["main"]
        \/ sems[0] = 1 /\ sems[1] = 0 /\ ~PairPrinting("new") /\ ~PairPrinting("main")
           /\ i["new"] = i["main"] + 1
        \/ sems[0] = 0 /\ sems[1] = 0 /\ ~PairPrinting("new") /\ PairPrinting("main")
           /\ i["new"] = i["main"] + 1

\* The loops: what was printed, and when they are over.
PairLoopInv ==
    /\ \A t \in Pair!Threads :
         /\ printed[t] = IF pc[t] = "post" THEN i[t] + 1 ELSE i[t]
         /\ PairPrinting(t) => i[t] < N
    /\ pc["new"] \in {"absent", "wait", "print", "post", "done"}
    /\ pc["new"] # "absent" => pc["main"] \in {"wait", "print", "post", "join", "destroy", "exit"}
    /\ pc["new"] # "absent" /\ pc["main"] \in {"destroy", "exit"} => pc["new"] = "done"
    /\ pc["main"] # "done"

PairIInv == Pair!TypeOK /\ PairBeforeInv /\ PairPermitInv /\ PairLoopInv

USE CountAssumption

\* Nothing is initialised at the start.
LEMMA PairInitInv == Pair!Init => PairIInv
BY DEF Pair!Init, Pair!InitThreads, PairIInv, Pair!TypeOK, PairBeforeInv, PairPermitInv,
   PairLoopInv, PairPrinting, PairRunning, Pair!Threads, Pair!Sems

\* Every step of main keeps the invariant.
LEMMA PairMainInvariance == PairIInv /\ Pair!MainStep => PairIInv'
<1> SUFFICES ASSUME PairIInv, Pair!MainStep PROVE PairIInv'
  OBVIOUS
<1> USE DEF PairIInv, Pair!TypeOK, PairBeforeInv, PairPermitInv, PairLoopInv, PairPrinting,
        PairRunning, Pair!Threads, Pair!Sems, Pair!Goto
<1>1. CASE Pair!InitializeSems
  BY <1>1 DEF Pair!InitializeSems
<1>2. CASE Pair!CreateThread
  BY <1>2 DEF Pair!CreateThread
<1>3. CASE Pair!Join
  BY <1>3 DEF Pair!Join
<1>4. CASE Pair!DestroySems
  BY <1>4 DEF Pair!DestroySems
<1> QED
  BY <1>1, <1>2, <1>3, <1>4 DEF Pair!MainStep

\* Every step of a thread inside printTextInThread keeps it.
LEMMA PairThreadInvariance ==
    ASSUME PairIInv, NEW t \in Pair!Threads, Pair!ThreadStep(t)
    PROVE  PairIInv'
<1> USE DEF PairIInv, Pair!TypeOK, PairBeforeInv, PairPermitInv, PairLoopInv, PairPrinting,
        PairRunning, Pair!Threads, Pair!Sems,
            Pair!Goto, Pair!ThisSem, Pair!NextSem, Pair!Start
<1>1. CASE Pair!SemaphoreWait(t)
  BY <1>1 DEF Pair!SemaphoreWait
<1>2. CASE Pair!PrintLine(t)
  BY <1>2 DEF Pair!PrintLine
<1>3. CASE Pair!SemaphorePost(t)
  BY <1>3 DEF Pair!SemaphorePost
<1>4. CASE Pair!Return(t)
  BY <1>4 DEF Pair!Return
<1> QED
  BY <1>1, <1>2, <1>3, <1>4 DEF Pair!ThreadStep

\* The invariant holds in every reachable state.
THEOREM PairInvariance == Pair!Spec => []PairIInv
<1>1. PairIInv /\ [Pair!Next]_(Pair!vars) => PairIInv'
  <2> SUFFICES ASSUME PairIInv, [Pair!Next]_(Pair!vars) PROVE PairIInv'
    OBVIOUS
  <2>1. CASE UNCHANGED Pair!vars
    BY <2>1 DEF Pair!vars, PairIInv, Pair!TypeOK, PairBeforeInv, PairPermitInv, PairLoopInv,
       PairPrinting, PairRunning
  <2>2. CASE Pair!Next
    BY <2>2, PairMainInvariance, PairThreadInvariance DEF Pair!Next
  <2> QED
    BY <2>1, <2>2
<1> QED
  BY PairInitInv, <1>1, PTL DEF Pair!Spec

\* The semaphores and counters keep their types.
THEOREM PairTypeCorrect == Pair!Spec => []Pair!TypeOK
BY PairInvariance, PTL DEF PairIInv

\* While the threads run there is exactly one permit.
THEOREM PairSinglePermit == Pair!Spec => []Pair!OnePermit
<1>1. PairIInv => Pair!OnePermit
  BY DEF PairIInv, Pair!TypeOK, PairPermitInv, PairPrinting, PairRunning, Pair!OnePermit,
     Pair!Threads, Pair!Sems
<1> QED
  BY <1>1, PairInvariance, PTL

\* The lines come in strict alternation, the new thread's first, for every N.
THEOREM PairTakeTurns == Pair!Spec => Pair!Alternates
<1>1. Pair!Init => Pair!Turns!Init
  BY DEF Pair!Init, Pair!InitThreads, Pair!Turns!Init, Pair!Threads
<1>2. PairIInv /\ [Pair!Next]_(Pair!vars) => [Pair!Turns!Next]_printed
  <2> SUFFICES ASSUME PairIInv, [Pair!Next]_(Pair!vars), printed' # printed
               PROVE  Pair!Turns!Next
    OBVIOUS
  <2>1. PICK t \in Pair!Threads : Pair!PrintLine(t)
    BY DEF Pair!vars, Pair!Next, Pair!MainStep, Pair!ThreadStep, Pair!InitializeSems,
       Pair!CreateThread, Pair!Join, Pair!DestroySems,
           Pair!SemaphoreWait, Pair!SemaphorePost, Pair!Return
  <2>2. CASE t = "new"
    BY <2>1, <2>2 DEF Pair!PrintLine, PairIInv, Pair!TypeOK, PairBeforeInv, PairPermitInv,
       PairLoopInv, PairPrinting, PairRunning,
                      Pair!Threads, Pair!Sems, Pair!Turns!Next, Pair!Turns!PrintFirst
  <2>3. CASE t = "main"
    BY <2>1, <2>3 DEF Pair!PrintLine, PairIInv, Pair!TypeOK, PairBeforeInv, PairPermitInv,
       PairLoopInv, PairPrinting, PairRunning,
                      Pair!Threads, Pair!Sems, Pair!Turns!Next, Pair!Turns!PrintSecond
  <2> QED
    BY <2>2, <2>3 DEF Pair!Threads
<1> QED
  BY <1>1, <1>2, PairInvariance, PTL DEF Pair!Spec, Pair!Alternates, Pair!Turns!Spec

-----------------------------------------------------------------------------
(***************************************************************************)
(* The two mutexes of lab12: for every number of lines the threads either  *)
(* alternate, or the new thread was first and nothing follows its first    *)
(* line.  One mutex is free at a time once main has locked the second;     *)
(* which one says how far apart the loops are.                             *)
(***************************************************************************)

TwoPrinting(t) == pc[t] \in {"print", "unlock"}

\* Before main has locked mutex 2.  If the new thread did, it has one line to print.
TwoStartInv ==
    pc["main"] \in {"create", "lockSecond"} =>
        /\ i["main"] = 0 /\ owner[1] = "none"
        /\ pc["main"] = "create" => pc["new"] = "absent"
        /\ \/ owner[2] = "none" /\ i["new"] = 0 /\ ~TwoPrinting("new")
           \/ owner[2] = "new" /\ i["new"] = 0 /\ TwoPrinting("new")
           \/ owner[2] = "new" /\ i["new"] = 1 /\ pc["new"] \in {"lock", "done"}

\* After: whose turn it is, which mutex is free for it, and how far the loops are.
TwoTurnInv ==
    pc["main"] \notin {"create", "lockSecond"} =>
        \/ /\ owner[1] = "none" /\ owner[2] # "none" /\ i["main"] = i["new"]
           /\ ~TwoPrinting("main") /\ ~TwoPrinting("new")
        \/ /\ owner[1] # "none" /\ owner[2] # "none" /\ i["main"] = i["new"]
           /\ TwoPrinting("main") /\ ~TwoPrinting("new")
        \/ /\ owner[1] # "none" /\ owner[2] = "none" /\ i["main"] = i["new"] + 1
           /\ ~TwoPrinting("main") /\ ~TwoPrinting("new")
        \/ /\ owner[1] # "none" /\ owner[2] # "none" /\ i["main"] = i["new"] + 1
           /\ ~TwoPrinting("main") /\ TwoPrinting("new")

\* What was printed, and where each thread may stand.
TwoLoopInv ==
    /\ \A t \in Two!Threads :
         /\ printed[t] = IF pc[t] = "unlock" THEN i[t] + 1 ELSE i[t]
         /\ TwoPrinting(t) => i[t] < N
    /\ pc["main"] # "absent" /\ pc["new"] \notin {"create", "lockSecond"}

TwoIInv == Two!TypeOK /\ TwoStartInv /\ TwoTurnInv /\ TwoLoopInv

USE CountAssumption DEF Two!Threads

\* Both mutexes are free at the start.
LEMMA TwoInitInv == Two!Init => TwoIInv
BY DEF Two!Init, Two!InitThreads, TwoIInv, Two!TypeOK, TwoStartInv, TwoTurnInv, TwoLoopInv,
   TwoPrinting

\* What main does before its loop keeps the invariant.
LEMMA TwoMainInvariance == TwoIInv /\ Two!MainStep => TwoIInv'
<1> SUFFICES ASSUME TwoIInv, Two!MainStep PROVE TwoIInv'
  OBVIOUS
<1> USE DEF TwoIInv, Two!TypeOK, TwoStartInv, TwoTurnInv, TwoLoopInv, TwoPrinting
<1>1. CASE Two!CreateThread
  BY <1>1 DEF Two!CreateThread
<1>2. CASE Two!LockSecond
  BY <1>2 DEF Two!LockSecond, Two!LockMutex, Two!Goto
<1> QED
  BY <1>1, <1>2 DEF Two!MainStep

\* Every step of the loop keeps it.
LEMMA TwoThreadInvariance ==
    ASSUME TwoIInv, NEW t \in Two!Threads, Two!ThreadStep(t)
    PROVE  TwoIInv'
<1> USE DEF TwoIInv, Two!TypeOK, TwoStartInv, TwoTurnInv, TwoLoopInv, TwoPrinting, Two!Goto,
        Two!ThisMutex, Two!NextMutex
<1>1. CASE Two!Lock(t)
  BY <1>1 DEF Two!Lock, Two!LockMutex
<1>2. CASE Two!PrintLine(t)
  BY <1>2 DEF Two!PrintLine
<1>3. CASE Two!Unlock(t)
  BY <1>3 DEF Two!Unlock
<1>4. CASE Two!Exit(t)
  BY <1>4 DEF Two!Exit
<1> QED
  BY <1>1, <1>2, <1>3, <1>4 DEF Two!ThreadStep

\* The invariant holds in every reachable state.
THEOREM TwoInvariance == Two!Spec => []TwoIInv
<1>1. TwoIInv /\ [Two!Next]_(Two!vars) => TwoIInv'
  <2> SUFFICES ASSUME TwoIInv, [Two!Next]_(Two!vars) PROVE TwoIInv'
    OBVIOUS
  <2>1. CASE UNCHANGED Two!vars
    BY <2>1 DEF Two!vars, TwoIInv, Two!TypeOK, TwoStartInv, TwoTurnInv, TwoLoopInv, TwoPrinting
  <2>2. CASE Two!Next
    BY <2>2, TwoMainInvariance, TwoThreadInvariance DEF Two!Next
  <2> QED
    BY <2>1, <2>2
<1> QED
  BY TwoInitInv, <1>1, PTL DEF Two!Spec

\* Mutexes, counters and places in the program keep their types.
THEOREM TwoTypeCorrect == Two!Spec => []Two!TypeOK
BY TwoInvariance, PTL DEF TwoIInv

\* lab12, lines 8-37: the lines alternate, the main thread's first, or the new thread
\* prints one line before every other, after which there is none.
THEOREM TwoTakeTurns == Two!Spec => Two!Alternates
<1>1. TwoIInv /\ [Two!Next]_(Two!vars) => [Two!Turns!Next \/ Two!NewIsFirst]_printed
  <2> SUFFICES ASSUME TwoIInv, [Two!Next]_(Two!vars), printed' # printed
               PROVE Two!Turns!Next \/ Two!NewIsFirst
    OBVIOUS
  <2>1. PICK t \in Two!Threads : Two!PrintLine(t)
    BY DEF Two!vars, Two!Next, Two!MainStep, Two!ThreadStep, Two!CreateThread,
       Two!LockSecond, Two!LockMutex, Two!Lock, Two!Unlock, Two!Exit
  <2> USE <2>1 DEF Two!PrintLine, TwoIInv, Two!TypeOK, TwoStartInv, TwoTurnInv, TwoLoopInv,
          TwoPrinting
  <2>2. CASE t = "main"
    BY <2>2 DEF Two!Turns!Next, Two!Turns!PrintFirst
  <2>3. CASE t = "new" /\ pc["main"] = "lockSecond"
    <3>1. printed["main"] = 0 /\ printed["new"] = 0
      BY <2>3
    <3>2. printed = [u \in Two!Threads |-> 0]
      BY <3>1
    <3>3. printed' = [printed EXCEPT !["new"] = 1]
      BY <2>3, <3>1
    <3> QED
      BY <3>2, <3>3 DEF Two!NewIsFirst
  <2>4. CASE t = "new" /\ pc["main"] # "lockSecond"
    BY <2>4 DEF Two!Turns!Next, Two!Turns!PrintSecond
  <2> QED
    BY <2>2, <2>3, <2>4
<1> QED
  BY <1>1, TwoInvariance, PTL DEF Two!Spec, Two!Alternates

-----------------------------------------------------------------------------
(* The composition of labs 11, 12 and 14.                                  *)

\* A run of the composition that starts as lab11 is a run of lab11.
THEOREM RunsRing == PrintersSpec /\ printer = "ring" => Ring!Spec /\ [](printer = "ring")
<1>1. PrintersInit /\ printer = "ring" => Ring!Init
  BY DEF PrintersInit
<1>2. printer = "ring" /\ [PrintersNext]_printersVars => (printer = "ring")' /\ [Ring!Next]_(Ring!vars)
  BY DEF PrintersNext, PrintersMainStep, PrintersThreadStep, printersVars, ringOnly, Threads, Ring!Next, Ring!vars
<1> QED
  BY <1>1, <1>2, PTL DEF PrintersSpec, Ring!Spec

\* One that starts as lab14 is a run of lab14.
THEOREM RunsPair == PrintersSpec /\ printer = "pair" => Pair!Spec /\ [](printer = "pair")
<1>1. PrintersInit /\ printer = "pair" => Pair!Init
  BY DEF PrintersInit
<1>2. printer = "pair" /\ [PrintersNext]_printersVars => (printer = "pair")' /\ [Pair!Next]_(Pair!vars)
  BY DEF PrintersNext, PrintersMainStep, PrintersThreadStep, printersVars, ringOnly, Threads, Pair!Threads,
     Pair!Next, Pair!vars
<1> QED
  BY <1>1, <1>2, PTL DEF PrintersSpec, Pair!Spec

\* One that starts as lab12 is a run of lab12.
THEOREM RunsTwo == PrintersSpec /\ printer = "two" => Two!Spec /\ [](printer = "two")
<1>1. PrintersInit /\ printer = "two" => Two!Init
  BY DEF PrintersInit
<1>2. printer = "two" /\ [PrintersNext]_printersVars => (printer = "two")' /\ [Two!Next]_(Two!vars)
  BY DEF PrintersNext, PrintersMainStep, PrintersThreadStep, printersVars, ringOnly, Threads, Two!Next, Two!vars
<1> QED
  BY <1>1, <1>2, PTL DEF PrintersSpec, Two!Spec

\* There is no other program.
LEMMA ThreePrograms == PrintersSpec => printer = "ring" \/ printer = "pair" \/ printer = "two"
<1>1. PrintersInit => printer = "ring" \/ printer = "pair" \/ printer = "two"
  BY DEF PrintersInit
<1> QED
  BY <1>1, PTL DEF PrintersSpec

\* lab11: whatever the threads do and whichever call of main fails, no lock, unlock or
\* destroy of the ring fails.
THEOREM NoMutexCallFails == PrintersSpec => []NoMutexError
<1>1. Ring!NoMutexError => NoMutexError
  BY DEF NoMutexError
<1>2. printer = "pair" \/ printer = "two" => NoMutexError
  BY DEF NoMutexError
<1> QED
  BY <1>1, <1>2, ThreePrograms, RunsRing, RunsPair, RunsTwo, RingMutexCallsSucceed, PTL

\* lab14: while the threads run there is one permit.
THEOREM OnePermitAlways == PrintersSpec => []OnePermit
<1>1. Pair!OnePermit => OnePermit
  BY DEF OnePermit
<1>2. printer = "ring" \/ printer = "two" => OnePermit
  BY DEF OnePermit
<1> QED
  BY <1>1, <1>2, ThreePrograms, RunsRing, RunsPair, RunsTwo, PairSinglePermit, PTL

\* Each program's lines alternate, lab12's unless the new thread came first.
THEOREM LinesAlternate == PrintersSpec => Alternates
<1> DEFINE A == /\ printer = "ring" => Ring!Turns!Next
                /\ printer = "pair" => Pair!Turns!Next
                /\ printer = "two" => Two!Turns!Next \/ Two!NewIsFirst
<1>1. printer = "ring" /\ [Ring!Turns!Next]_printed => [A]_printed
  OBVIOUS
<1>2. printer = "pair" /\ [Pair!Turns!Next]_printed => [A]_printed
  OBVIOUS
<1>3. printer = "two" /\ [Two!Turns!Next \/ Two!NewIsFirst]_printed => [A]_printed
  OBVIOUS
<1>4. Ring!Alternates => [][Ring!Turns!Next]_printed
  BY PTL DEF Ring!Alternates, Ring!Turns!Spec
<1>5. Pair!Alternates => [][Pair!Turns!Next]_printed
  BY PTL DEF Pair!Alternates, Pair!Turns!Spec
<1>6. Two!Alternates => [][Two!Turns!Next \/ Two!NewIsFirst]_printed
  BY PTL DEF Two!Alternates
<1> QED
  BY <1>1, <1>2, <1>3, <1>4, <1>5, <1>6, ThreePrograms, RunsRing, RunsPair, RunsTwo,
     RingTakeTurns, PairTakeTurns, TwoTakeTurns, PTL DEF Alternates
=============================================================================
