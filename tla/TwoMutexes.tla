----------------------------- MODULE TwoMutexes -----------------------------
(***************************************************************************)
(* lab12: two threads are to print in turn by unlocking a mutex for each   *)
(* other.  The mutexes are of the default kind, which a build unlocks for  *)
(* whoever asks and on which a thread waits for itself.                    *)
(***************************************************************************)
EXTENDS TwoThreads

VARIABLE owner   \* who holds mutex 1 and mutex 2, "none" if nobody does

vars == <<owner, pc, i, printed>>

Init ==
    /\ owner = [m \in 1..2 |-> "none"]
    /\ InitThreads("create")

\* The mutex a thread locks before a line, and the one it unlocks after.
ThisMutex(t) == IF t = "main" THEN 1 ELSE 2
NextMutex(t) == IF t = "main" THEN 2 ELSE 1

\* Nobody looks at the code of pthread_create.
CreateThread ==
    /\ pc["main"] = "create"
    /\ \E created \in BOOLEAN :
         pc' = [main |-> "lockSecond", new |-> IF created THEN "lock" ELSE "absent"]
    /\ UNCHANGED <<owner, i, printed>>

LockMutex(t, m, label) ==
    /\ owner[m] = "none"
    /\ owner' = [owner EXCEPT ![m] = t]
    /\ Goto(t, label)
    /\ UNCHANGED <<i, printed>>

LockSecond == pc["main"] = "lockSecond" /\ LockMutex("main", 2, "lock")

Lock(t) == pc[t] = "lock" /\ i[t] < N /\ LockMutex(t, ThisMutex(t), "print")

PrintLine(t) ==
    /\ pc[t] = "print"
    /\ printed' = [printed EXCEPT ![t] = @ + 1]
    /\ Goto(t, "unlock")
    /\ UNCHANGED <<owner, i>>

\* Mutant: a thread unlocks the mutex it locked.
UnlockMutant(t) ==
    /\ pc[t] = "unlock"
    /\ owner' = [owner EXCEPT ![ThisMutex(t)] = "none"]
    /\ i' = [i EXCEPT ![t] = @ + 1]
    /\ Goto(t, "lock")
    /\ UNCHANGED printed

Unlock(t) ==
    /\ pc[t] = "unlock"
    /\ owner' = [owner EXCEPT ![NextMutex(t)] = "none"]
    /\ i' = [i EXCEPT ![t] = @ + 1]
    /\ Goto(t, "lock")
    /\ UNCHANGED printed

Exit(t) ==
    /\ pc[t] = "lock" /\ i[t] = N
    /\ Goto(t, "done")
    /\ UNCHANGED <<owner, i, printed>>

-----------------------------------------------------------------------------
MainStep == CreateThread \/ LockSecond
ThreadStep(t) == Lock(t) \/ PrintLine(t) \/ Unlock(t) \/ Exit(t)

Next == MainStep \/ \E t \in Threads : ThreadStep(t)

Spec == Init /\ [][Next]_vars

-----------------------------------------------------------------------------
(* Properties.                                                             *)

TypeOK ==
    /\ owner \in [1..2 -> Threads \cup {"none"}]
    /\ pc \in [Threads -> {"absent", "create", "lockSecond", "lock", "print", "unlock", "done"}]
    /\ i \in [Threads -> 0..N]
    /\ printed \in [Threads -> 0..N]

Turns == INSTANCE Alternation WITH First <- "main", Second <- "new"

\* The line of a new thread that was at mutex 2 before main: the last line there is,
\* for then each thread waits for a mutex it or the other keeps (lab12, line 22).
NewIsFirst ==
    /\ printed = [t \in Threads |-> 0]
    /\ printed' = [printed EXCEPT !["new"] = 1]

\* lab12: the lines come in strict alternation, the main thread's first; or the new
\* thread prints one line, and no line follows it.
Alternates == [][Turns!Next \/ NewIsFirst]_printed

\* What AllPrinted asks of this program: main is at mutex 2 before a new thread that
\* was created.
MainIsFirst == pc["main"] = "lock" /\ i["main"] = 0 /\ pc["new"] = "lock" /\ owner[2] = "main"
AllDone == \A t \in Threads : pc[t] = "done" /\ printed[t] = N
=============================================================================
