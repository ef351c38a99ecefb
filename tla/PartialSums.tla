---------------------------- MODULE PartialSums ----------------------------
(***************************************************************************)
(* lab8: the terms of a series for pi, summed by a number of threads that  *)
(* the user chooses.  A term is its index; the sum says how often each     *)
(* term is in it.  The loop of a thread touches only its own arguments and *)
(* is one step.                                                            *)
(***************************************************************************)
EXTENDS Series

VARIABLES
    args,      \* start and end index of each thread, <<>> if not set
    result,    \* the terms each thread has summed, {} before it has
    sum,       \* how often each term is in *pi
    garbage    \* a result nobody wrote is in *pi too

sumVars == <<args, result, sum, garbage>>
vars == <<workersVars, sumVars>>

Init ==
    /\ InitWorkers("input", 0)
    /\ args = [w \in Ids |-> <<>>]
    /\ result = [w \in Ids |-> {}]
    /\ sum = [j \in Steps |-> 0]
    /\ garbage = FALSE

\* The argument is a number of threads that is_valid_input lets through, or main returns.
is_valid_input ==
    /\ main = "input"
    /\ \/ main' = "create" /\ count' \in 1..MaxWorkers
       \/ main' = "returned" /\ UNCHANGED count
    /\ UNCHANGED <<k, worker, failed, sumVars>>

\* Mutant: the first threads do not go one term further.
ArgsOfMutant(w) ==
    LET quotient == NUM_OF_STEPS \div count
    IN  [start |-> w * quotient, end |-> w * quotient + quotient]

\* The terms of a thread: the quotient, and one more for the first ones.
ArgsOf(w) ==
    LET quotient == NUM_OF_STEPS \div count
        start == w * quotient
    IN  [start |-> start,
         end |-> start + quotient + (IF w < NUM_OF_STEPS % count THEN 1 ELSE 0)]

SetArgs ==
    /\ args' = [args EXCEPT ![k] = ArgsOf(k)]
    /\ UNCHANGED <<result, sum, garbage>>

\* A round sets the arguments and creates the thread; a failed creation ends the loop,
\* and calculate_pi joins all of them all the same.
create_threads_for_partial_sum ==
    \/ CreateNext /\ SetArgs
    \/ CreateFails("join") /\ SetArgs
    \/ CreatedAll("join") /\ UNCHANGED sumVars

\* Every round adds the result, whatever the join said.
AddResult ==
    /\ JoinNext \/ JoinRefused
    /\ IF worker[k] = "none"
       THEN garbage' = TRUE /\ UNCHANGED sum
       ELSE sum' = [j \in Steps |-> sum[j] + (IF j \in result[k] THEN 1 ELSE 0)] /\ UNCHANGED garbage
    /\ UNCHANGED <<args, result>>

join_threads_with_partial_sum == AddResult \/ (JoinLost /\ UNCHANGED sumVars)

\* The code of a failed join is lost in an inner variable of the same name: pi is
\* printed in every case.
PrintPi == JoinedAll("returned") /\ UNCHANGED sumVars

\* The body of calculate_pi.
calculate_pi == create_threads_for_partial_sum \/ join_threads_with_partial_sum \/ PrintPi

MainStep == is_valid_input \/ calculate_pi \/ (EndProcess /\ UNCHANGED sumVars)

calc_partial_sum(w) ==
    /\ Alive
    /\ Finish(w)
    /\ result' = [result EXCEPT ![w] = args[w].start..(args[w].end - 1)]
    /\ UNCHANGED <<args, sum, garbage>>

ThreadStep == \E w \in Ids : calc_partial_sum(w)

Next == MainStep \/ ThreadStep
Spec == Init /\ [][Next]_vars

-----------------------------------------------------------------------------
\* The arguments and results are arrays of calculate_pi: no thread runs on after it.
NobodyCutOff == OutlivesThreads({"returned", "gone"})

\* With all threads created, the terms below count times the quotient are summed, the
\* first terms of the second thread and of the next ones, as many as the remainder,
\* twice, and the last terms, as many, never: the sum is whole exactly if count divides
\* NUM_OF_STEPS.  With a thread missing, a number nobody computed is in it.
Quotient == NUM_OF_STEPS \div count
Remainder == NUM_OF_STEPS % count
Seams == {w * Quotient : w \in 1..Remainder}
TermsSummed ==
    main \in {"returned", "gone"} /\ count > 0 =>
      /\ garbage <=> failed
      /\ ~failed => \A j \in Steps :
           sum[j] = (IF j < count * Quotient THEN 1 ELSE 0) + (IF j \in Seams THEN 1 ELSE 0)
=============================================================================
