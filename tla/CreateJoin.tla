----------------------------- MODULE CreateJoin -----------------------------
(***************************************************************************)
(* labs 1 to 3: main and its threads print lines.  lab1 does not join and  *)
(* leaves by pthread_exit, lab2 joins before it prints, lab3 creates four  *)
(* threads that read an array of main's.                                   *)
(***************************************************************************)
EXTENDS Workers

VARIABLES
    lab,       \* the program: 1, 2 or 3
    printed    \* lines printed by main and by each thread

vars == <<workersVars, lab, printed>>

Parent == -1   \* main among those who print

\* LINES_TO_PRINT_COUNT, and the messages of lab3 up to the NULL.
Lines == IF lab = 3 THEN 3 ELSE 10

\* The locals of main in the three programs.
Init ==
    /\ lab \in 1..3
    /\ InitWorkers("create", IF lab = 3 THEN 4 ELSE 1)
    /\ printed = [p \in Ids \cup {Parent} |-> 0]

PrintOne(p) ==
    /\ printed[p] < Lines
    /\ printed' = [printed EXCEPT ![p] = @ + 1]
    /\ UNCHANGED <<workersVars, lab>>

PrintParent == main = "print" /\ PrintOne(Parent)

ParentPrinted ==
    /\ main = "print" /\ printed[Parent] = Lines
    /\ main' = IF lab = 1 THEN "exited" ELSE "returned"
    /\ UNCHANGED <<k, count, worker, failed>>

\* main of lab1: no join, and the thread outlives main.
MainOfLab1 == lab = 1 /\ (CreateNext \/ CreateFails("returned") \/ CreatedAll("print") \/ ParentPrinted)

\* main of lab2: the lines of the parent come after those of the child.
MainOfLab2 ==
    /\ lab = 2
    /\ \/ CreateNext \/ CreateFails("returned") \/ CreatedAll("join")
       \/ JoinNext \/ JoinedAll("print") \/ ParentPrinted

\* main of lab3: a failed creation returns while the earlier threads still read messages.
MainOfLab3 ==
    /\ lab = 3
    /\ \/ CreateNext \/ CreateFails("returned") \/ CreatedAll("join")
       \/ JoinNext \/ JoinedAll("exited")

MainStep ==
    \/ (MainOfLab1 \/ MainOfLab2 \/ MainOfLab3 \/ EndProcess) /\ UNCHANGED <<lab, printed>>
    \/ PrintParent

\* A thread runs while the process does: past the return of main until it is ended.
ThreadPrints(w) == Running(w) /\ Alive /\ PrintOne(w)
ThreadEnds(w) == printed[w] = Lines /\ Alive /\ Finish(w) /\ UNCHANGED <<lab, printed>>
ThreadStep(w) == ThreadPrints(w) \/ ThreadEnds(w)

Next == MainStep \/ \E w \in Ids : ThreadStep(w)
Spec == Init /\ [][Next]_vars

-----------------------------------------------------------------------------
\* No thread is cut off by the end of main, but those of lab3 when a later creation
\* fails; and in lab2 main prints nothing before the thread is done.
NobodyCutOff ==
    /\ OutlivesThreads({"returned", "gone"}) \/ (lab = 3 /\ failed)
    /\ lab = 2 /\ printed[Parent] > 0 => worker[0] = "done"

\* Everything is printed.
AllPrinted == \A w \in Ids : w < count => printed[w] = Lines
=============================================================================
