------------------------------ MODULE Workers ------------------------------
(***************************************************************************)
(* What the create-and-join programs of labs 1 to 6 and 8 share: main      *)
(* creates threads in a loop, joins them in the order of creation, and     *)
(* returns, which ends whatever still runs, or leaves by pthread_exit,     *)
(* which does not.                                                         *)
(***************************************************************************)
EXTENDS Integers

CONSTANT MaxWorkers   \* threads of the largest program

ASSUME WorkersAssumption == MaxWorkers \in Nat \ {0}

Ids == 0..(MaxWorkers - 1)

VARIABLES
    main,     \* where main stands
    k,        \* the loop variable of main
    count,    \* the threads main asks for
    worker,   \* what became of each: "none", "running", "done", "cut"
    failed    \* a pthread_create failed, or the malloc for the identifiers

workersVars == <<main, k, count, worker, failed>>

InitWorkers(first, wanted) ==
    /\ main = first
    /\ k = 0
    /\ count = wanted
    /\ worker = [w \in Ids |-> "none"]
    /\ failed = FALSE

Running(w) == worker[w] = "running"

\* One round of the loop that creates.
CreateNext ==
    /\ main = "create" /\ k < count
    /\ worker' = [worker EXCEPT ![k] = "running"]
    /\ k' = k + 1
    /\ UNCHANGED <<main, count, failed>>

\* The round whose pthread_create fails, after which main goes on at label.
CreateFails(label) ==
    /\ main = "create" /\ k < count
    /\ failed' = TRUE
    /\ main' = label
    /\ k' = 0
    /\ UNCHANGED <<count, worker>>

\* The loop main is in ends, and main goes on at label.
LeaveLoop(loop, label) ==
    /\ main = loop /\ k = count
    /\ main' = label
    /\ k' = 0
    /\ UNCHANGED <<count, worker, failed>>

CreatedAll(label) == LeaveLoop("create", label)
JoinedAll(label) == LeaveLoop("join", label)

\* Mutant: a round of the join loop that does not wait.
JoinNextMutant ==
    /\ main = "join" /\ k < count
    /\ worker[k] # "none"
    /\ k' = k + 1
    /\ UNCHANGED <<main, count, worker, failed>>

\* One round of the loop that joins a thread that was created; it cannot fail.
JoinNext ==
    /\ main = "join" /\ k < count
    /\ worker[k] = "done"
    /\ k' = k + 1
    /\ UNCHANGED <<main, count, worker, failed>>

\* The identifier was never written: the join refuses what lies there.
JoinRefused ==
    /\ main = "join" /\ k < count
    /\ worker[k] = "none"
    /\ k' = k + 1
    /\ UNCHANGED <<main, count, worker, failed>>

\* It takes what lies there for the address of a thread, which ends the program or
\* lets main wait for good.
JoinLost ==
    /\ main = "join" /\ k < count
    /\ worker[k] = "none"
    /\ main' \in {"crashed", "hangs"}
    /\ UNCHANGED <<k, count, worker, failed>>

Finish(w) ==
    /\ Running(w)
    /\ worker' = [worker EXCEPT ![w] = "done"]
    /\ UNCHANGED <<main, k, count, failed>>

\* The process ends: main has returned, or has left and was the last.
EndProcess ==
    /\ \/ main = "returned"
       \/ main = "exited" /\ \A w \in Ids : ~Running(w)
    /\ main' = "gone"
    /\ worker' = [w \in Ids |-> IF Running(w) THEN "cut" ELSE worker[w]]
    /\ UNCHANGED <<k, count, failed>>

Alive == main \notin {"gone", "crashed"}

-----------------------------------------------------------------------------
WorkersTypeOK ==
    /\ main \in {"read", "input", "alloc", "create", "join", "sleep", "cancel", "print",
                 "cleanup", "returned", "exited", "gone", "crashed", "hangs"}
    /\ k \in 0..MaxWorkers
    /\ count \in 0..MaxWorkers
    /\ worker \in [Ids -> {"none", "running", "done", "cut"}]
    /\ failed \in BOOLEAN

\* What a thread still reads lives as long as the thread: no thread runs on, and none
\* has been ended, once main is at one of these labels.
OutlivesThreads(labels) == main \in labels => \A w \in Ids : worker[w] \notin {"running", "cut"}
=============================================================================
