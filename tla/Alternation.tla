---------------------------- MODULE Alternation ----------------------------
(***************************************************************************)
(* What labs 11 and 14 are to do: two threads print N lines each, in       *)
(* strict alternation, First before its partner.                           *)
(***************************************************************************)
EXTENDS Integers

CONSTANTS First, Second, N

VARIABLE printed   \* lines printed by each thread

PrintFirst ==
    /\ printed[First] = printed[Second]
    /\ printed[First] < N
    /\ printed' = [printed EXCEPT ![First] = @ + 1]

PrintSecond ==
    /\ printed[Second] < printed[First]
    /\ printed' = [printed EXCEPT ![Second] = @ + 1]

Init == printed = [t \in {First, Second} |-> 0]
Next == PrintFirst \/ PrintSecond
Spec == Init /\ [][Next]_printed
=============================================================================
