----------------------------- MODULE TwoThreads -----------------------------
(***************************************************************************)
(* What the printing programs of labs 11, 12 and 14 share: the main thread *)
(* and a new one, each in a loop of N lines.                               *)
(***************************************************************************)
EXTENDS Integers

CONSTANT N   \* SRT_COUNT

ASSUME CountAssumption == N \in Nat

Threads == {"main", "new"}

VARIABLES
    pc,        \* where each thread stands
    i,         \* the loop variable of each thread
    printed    \* lines each thread has printed

Goto(t, label) == pc' = [pc EXCEPT ![t] = label]

\* Nothing has run but main, which stands at its first call.
InitThreads(first) ==
    /\ pc = [t \in Threads |-> IF t = "main" THEN first ELSE "absent"]
    /\ i = [t \in Threads |-> 0]
    /\ printed = [t \in Threads |-> 0]
=============================================================================
