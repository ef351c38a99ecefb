--------------------------- MODULE SemaphorePair ---------------------------
(***************************************************************************)
(* lab14: two threads print in turn by handing each other two semaphores.  *)
(* The new thread (start = 0) waits for semaphore 1 and posts 0, the main  *)
(* thread (start = 1) the other way round; semaphore i starts at i.        *)
(***************************************************************************)
EXTENDS TwoThreads

Sems == 0..1   \* NUMBER_OF_SEMAPHORES = 2

VARIABLE
    sems       \* the value of each semaphore

vars == <<sems, pc, i, printed>>

\* The arguments of the two threads.
Start(t) == IF t = "main" THEN 1 ELSE 0
ThisSem(t) == (Start(t) + 1) % 2
NextSem(t) == (ThisSem(t) + 1) % 2

Init ==
    /\ sems = [s \in Sems |-> 0]
    /\ InitThreads("init")

-----------------------------------------------------------------------------
(* main.                                                                   *)

\* Mutant: both semaphores start at one.
InitializeSemsMutant ==
    /\ pc["main"] = "init"
    /\ \E n \in 0..2 :
         /\ sems' = [s \in Sems |-> IF s < n THEN 1 ELSE 0]
         /\ Goto("main", IF n = 2 THEN "create" ELSE "destroy")
    /\ UNCHANGED <<i, printed>>

\* initialize_sems: all of them, or those before the one that fails.
InitializeSems ==
    /\ pc["main"] = "init"
    /\ \E n \in 0..2 :
         /\ sems' = [s \in Sems |-> IF s < n THEN s ELSE 0]
         /\ Goto("main", IF n = 2 THEN "create" ELSE "destroy")
    /\ UNCHANGED <<i, printed>>

CreateThread ==
    /\ pc["main"] = "create"
    /\ \/ pc' = [t \in Threads |-> "wait"]
       \/ Goto("main", "destroy")
    /\ UNCHANGED <<sems, i, printed>>

Join ==
    /\ pc["main"] = "join"
    /\ pc["new"] = "done"
    /\ Goto("main", "destroy")
    /\ UNCHANGED <<sems, i, printed>>

\* destroy_sems: each semaphore is posted once more and destroyed; a semaphore
\* that was never initialised is posted, too.
DestroySems ==
    /\ pc["main"] = "destroy"
    /\ sems' = [s \in Sems |-> sems[s] + 1]
    /\ Goto("main", "exit")
    /\ UNCHANGED <<i, printed>>

-----------------------------------------------------------------------------
(* printTextInThread.                                                      *)

SemaphoreWait(t) ==
    /\ pc[t] = "wait" /\ i[t] < N
    /\ sems[ThisSem(t)] > 0
    /\ sems' = [sems EXCEPT ![ThisSem(t)] = @ - 1]
    /\ Goto(t, "print")
    /\ UNCHANGED <<i, printed>>

PrintLine(t) ==
    /\ pc[t] = "print"
    /\ printed' = [printed EXCEPT ![t] = @ + 1]
    /\ Goto(t, "post")
    /\ UNCHANGED <<sems, i>>

SemaphorePost(t) ==
    /\ pc[t] = "post"
    /\ sems' = [sems EXCEPT ![NextSem(t)] = @ + 1]
    /\ i' = [i EXCEPT ![t] = @ + 1]
    /\ Goto(t, "wait")
    /\ UNCHANGED printed

Return(t) ==
    /\ pc[t] = "wait" /\ i[t] = N
    /\ Goto(t, IF t = "main" THEN "join" ELSE "done")
    /\ UNCHANGED <<sems, i, printed>>

-----------------------------------------------------------------------------
MainStep == InitializeSems \/ CreateThread \/ Join \/ DestroySems
ThreadStep(t) == SemaphoreWait(t) \/ PrintLine(t) \/ SemaphorePost(t) \/ Return(t)

Next == MainStep \/ \E t \in Threads : ThreadStep(t)

Spec == Init /\ [][Next]_vars

-----------------------------------------------------------------------------
(* Properties.                                                             *)

TypeOK ==
    /\ sems \in [Sems -> Nat]
    /\ pc \in [Threads -> {"init", "create", "join", "destroy", "exit", "absent",
                           "wait", "print", "post", "done"}]
    /\ i \in [Threads -> 0..N]
    /\ printed \in [Threads -> 0..N]

\* While the threads run there is one permit: in one semaphore or with the
\* thread that is printing.
OnePermit ==
    pc["new"] # "absent" /\ pc["main"] # "exit" =>
        \/ sems[0] + sems[1] = 1 /\ \A t \in Threads : pc[t] \notin {"print", "post"}
        \/ sems[0] + sems[1] = 0 /\ \E t \in Threads : \A u \in Threads :
                                        pc[u] \in {"print", "post"} <=> u = t

\* The lines come in strict alternation, the new thread's first.
Turns == INSTANCE Alternation WITH First <- "new", Second <- "main"
Alternates == Turns!Spec
=============================================================================
