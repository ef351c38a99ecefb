---------------------------- MODULE MCPrinters ----------------------------
(***************************************************************************)
(* The three programs that print from two threads in turn: which one runs  *)
(* is chosen at the start.  A program's variables the others lack stay as  *)
(* they are.                                                               *)
(***************************************************************************)
EXTENDS TwoThreads

VARIABLES printer, owner, ready, hoisted, this, destroyed, errors, sems

ringOnly == <<ready, hoisted, this, destroyed, errors>>

Ring == INSTANCE MutexRing WITH failed <- errors
Pair == INSTANCE SemaphorePair
Two == INSTANCE TwoMutexes

NoRing == ready = FALSE /\ hoisted = FALSE /\ this = <<>> /\ destroyed = FALSE /\ errors = {}

PrintersInit ==
    \/ printer = "ring" /\ Ring!Init /\ sems = <<>>
    \/ printer = "pair" /\ Pair!Init /\ NoRing /\ owner = <<>>
    \/ printer = "two" /\ Two!Init /\ NoRing /\ sems = <<>>

PrintersMainStep ==
    /\ UNCHANGED printer
    /\ \/ printer = "ring" /\ Ring!MainStep /\ UNCHANGED sems
       \/ printer = "pair" /\ Pair!MainStep /\ UNCHANGED <<owner, ringOnly>>
       \/ printer = "two" /\ Two!MainStep /\ UNCHANGED <<sems, ringOnly>>

PrintersThreadStep(t) ==
    /\ UNCHANGED printer
    /\ \/ printer = "ring" /\ Ring!ThreadStep(t) /\ UNCHANGED sems
       \/ printer = "pair" /\ Pair!ThreadStep(t) /\ UNCHANGED <<owner, ringOnly>>
       \/ printer = "two" /\ Two!ThreadStep(t) /\ UNCHANGED <<sems, ringOnly>>

PrintersNext == PrintersMainStep \/ \E t \in Threads : PrintersThreadStep(t)
printersVars == <<printer, owner, pc, i, printed, sems, ringOnly>>

PrintersSpec == PrintersInit /\ [][PrintersNext]_printersVars

\* Both threads run, and a free mutex or semaphore lets its waiter through.
PrintersFairSpec ==
    PrintersSpec /\ WF_printersVars(PrintersMainStep) /\ \A t \in Threads : WF_printersVars(PrintersThreadStep(t))

-----------------------------------------------------------------------------
\* lab11: no mutex call fails (MutexRing says which).
NoMutexError == printer = "ring" => Ring!NoMutexError

\* lab14: while the threads run there is one permit (SemaphorePair says where).
OnePermit == printer = "pair" => Pair!OnePermit

\* The lines come in strict alternation in all three programs; in lab12 unless the new
\* thread comes first, which then prints the only line.
Alternates ==
    [][/\ printer = "ring" => Ring!Turns!Next
       /\ printer = "pair" => Pair!Turns!Next
       /\ printer = "two" => Two!Turns!Next \/ Two!NewIsFirst]_printed

\* Both threads print all their lines and the program ends: once the second thread
\* exists, with a build of lab11 that reads ready in its loop, and in lab12 if main is
\* the first to lock.
Promising ==
    \/ printer = "ring" /\ pc["new"] = "enter" /\ ~hoisted
    \/ printer = "pair" /\ pc["new"] = "wait"
    \/ printer = "two" /\ Two!MainIsFirst
Finished ==
    IF printer = "two" THEN Two!AllDone
    ELSE pc["main"] = "exit" /\ printed = [t \in Threads |-> N]
AllPrinted == Promising ~> Finished
=============================================================================
