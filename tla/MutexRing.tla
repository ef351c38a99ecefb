----------------------------- MODULE MutexRing -----------------------------
(***************************************************************************)
(* lab11: two threads print in turn by walking a ring of three             *)
(* error-checking mutexes, each taking the next before it prints and       *)
(* giving up the last one after.  The main thread starts with mutex 0 and  *)
(* waits, spinning on the plain variable ready, until the new one has      *)
(* taken mutex 2.                                                          *)
(***************************************************************************)
EXTENDS TwoThreads

Mutexes == 0..2   \* COUNT_MUTEXES = 3

VARIABLES
    owner,     \* who holds each mutex, "none" if nobody does
    ready,     \* the flag the main thread spins on
    hoisted,   \* the build reads ready once before the loop instead of in it
    this,      \* thisMutex of each thread
    destroyed, \* destroy_mutexes has run
    failed     \* calls that returned an error

vars == <<owner, ready, hoisted, pc, this, i, printed, destroyed, failed>>

NextMutex(t) == (this[t] + 1) % 3

Init ==
    /\ owner = [m \in Mutexes |-> "none"]
    /\ ready = FALSE
    /\ hoisted \in BOOLEAN   \* a data race: either build is allowed
    /\ InitThreads("init")
    /\ this = [t \in Threads |-> 0]
    /\ destroyed = FALSE
    /\ failed = {}

-----------------------------------------------------------------------------
(* main.                                                                   *)

InitializeMutexes ==
    /\ pc["main"] = "init"
    /\ \/ Goto("main", "lockStart") /\ UNCHANGED failed
       \/ Goto("main", "destroy") /\ failed' = failed \cup {"init"}
    /\ UNCHANGED <<owner, ready, hoisted, this, i, printed, destroyed>>

\* lock_mutex(START_MUTEX), before there is anybody to compete with.
LockStart ==
    /\ pc["main"] = "lockStart"
    /\ owner' = [owner EXCEPT ![0] = "main"]
    /\ Goto("main", "create")
    /\ UNCHANGED <<ready, hoisted, this, i, printed, destroyed, failed>>

\* A failed pthread_create is reported, and the main thread goes on.
CreateThread ==
    /\ pc["main"] = "create"
    /\ \/ pc' = [pc EXCEPT !["main"] = "spin", !["new"] = "enter"] /\ UNCHANGED failed
       \/ Goto("main", "spin") /\ failed' = failed \cup {"create"}
    /\ UNCHANGED <<owner, ready, hoisted, this, i, printed, destroyed>>

\* Mutant: main does not wait for the new thread.
SpinMutant ==
    /\ pc["main"] = "spin"
    /\ Goto("main", "enter")
    /\ UNCHANGED <<owner, ready, hoisted, this, i, printed, destroyed, failed>>

\* while (ready != true): with a hoisted read the loop never ends once entered.
Spin ==
    /\ pc["main"] = "spin"
    /\ Goto("main", IF ready THEN "enter" ELSE IF hoisted THEN "spinForever" ELSE "spin")
    /\ UNCHANGED <<owner, ready, hoisted, this, i, printed, destroyed, failed>>

Join ==
    /\ pc["main"] = "join"
    /\ pc["new"] = "done"
    /\ Goto("main", "destroy")
    /\ UNCHANGED <<owner, ready, hoisted, this, i, printed, destroyed, failed>>

DestroyMutexes ==
    /\ pc["main"] = "destroy"
    /\ destroyed' = TRUE
    /\ failed' = IF \E m \in Mutexes : owner[m] # "none" THEN failed \cup {"destroy"} ELSE failed
    /\ Goto("main", "exit")
    /\ UNCHANGED <<owner, ready, hoisted, this, i, printed>>

-----------------------------------------------------------------------------
(* print_text_in_thread.                                                   *)

Return(t) == Goto(t, IF t = "main" THEN "join" ELSE "done")

\* The thread that finds ready unset is the one that starts from mutex 2.
Enter(t) ==
    /\ pc[t] = "enter"
    /\ IF ready
         THEN Goto(t, "lock") /\ UNCHANGED this
         ELSE Goto(t, "lockFirst") /\ this' = [this EXCEPT ![t] = 2]
    /\ UNCHANGED <<owner, ready, hoisted, i, printed, destroyed, failed>>

\* pthread_mutex_lock of an error-checking mutex: granted, waiting, or EDEADLK.
LockMutex(t, m, label) ==
    /\ owner[m] \in {"none", t}
    /\ IF owner[m] = "none"
         THEN owner' = [owner EXCEPT ![m] = t] /\ Goto(t, label) /\ UNCHANGED failed
         ELSE failed' = failed \cup {"lock"} /\ Return(t) /\ UNCHANGED owner

\* pthread_mutex_unlock: EPERM for a mutex the thread does not hold.
UnlockMutex(t, m) ==
    IF owner[m] = t
      THEN owner' = [owner EXCEPT ![m] = "none"] /\ UNCHANGED failed
      ELSE failed' = failed \cup {"unlock"} /\ UNCHANGED owner

LockFirst(t) ==
    /\ pc[t] = "lockFirst"
    /\ LockMutex(t, this[t], "setReady")
    /\ UNCHANGED <<ready, hoisted, this, i, printed, destroyed>>

SetReady(t) ==
    /\ pc[t] = "setReady"
    /\ ready' = TRUE
    /\ Goto(t, "lock")
    /\ UNCHANGED <<owner, hoisted, this, i, printed, destroyed, failed>>

LockNext(t) ==
    /\ pc[t] = "lock" /\ i[t] < N
    /\ LockMutex(t, NextMutex(t), "print")
    /\ UNCHANGED <<ready, hoisted, this, i, printed, destroyed>>

PrintLine(t) ==
    /\ pc[t] = "print"
    /\ printed' = [printed EXCEPT ![t] = @ + 1]
    /\ Goto(t, "unlock")
    /\ UNCHANGED <<owner, ready, hoisted, this, i, destroyed, failed>>

UnlockThis(t) ==
    /\ pc[t] = "unlock"
    /\ UnlockMutex(t, this[t])
    /\ IF owner[this[t]] = t
         THEN /\ this' = [this EXCEPT ![t] = NextMutex(t)]
              /\ i' = [i EXCEPT ![t] = @ + 1]
              /\ Goto(t, "lock")
         ELSE Return(t) /\ UNCHANGED <<this, i>>
    /\ UNCHANGED <<ready, hoisted, printed, destroyed>>

\* Mutant: the last mutex is kept.
UnlockLastMutant(t) ==
    /\ pc[t] = "lock" /\ i[t] = N
    /\ UNCHANGED <<owner, failed>>
    /\ Return(t)
    /\ UNCHANGED <<ready, hoisted, this, i, printed, destroyed>>

UnlockLast(t) ==
    /\ pc[t] = "lock" /\ i[t] = N
    /\ UnlockMutex(t, this[t])
    /\ Return(t)
    /\ UNCHANGED <<ready, hoisted, this, i, printed, destroyed>>

-----------------------------------------------------------------------------
MainStep == InitializeMutexes \/ LockStart \/ CreateThread \/ Spin \/ Join \/ DestroyMutexes
ThreadStep(t) ==
    \/ Enter(t) \/ LockFirst(t) \/ SetReady(t)
    \/ LockNext(t) \/ PrintLine(t) \/ UnlockThis(t) \/ UnlockLast(t)

Next == MainStep \/ \E t \in Threads : ThreadStep(t)

Spec == Init /\ [][Next]_vars

-----------------------------------------------------------------------------
(* Properties.                                                             *)

TypeOK ==
    /\ owner \in [Mutexes -> Threads \cup {"none"}]
    /\ ready \in BOOLEAN /\ hoisted \in BOOLEAN /\ destroyed \in BOOLEAN
    /\ pc \in [Threads -> {"init", "lockStart", "create", "spin", "spinForever", "join",
                           "destroy", "exit", "absent", "enter", "lockFirst", "setReady",
                           "lock", "print", "unlock", "done"}]
    /\ this \in [Threads -> Mutexes]
    /\ i \in [Threads -> 0..N]
    /\ printed \in [Threads -> 0..N]
    /\ failed \subseteq {"init", "create", "lock", "unlock", "destroy"}

\* No thread locks a mutex it holds, unlocks one it does not hold, and at the end
\* none is destroyed while it is held.
NoMutexError == failed \subseteq {"init", "create"}

\* The lines come in strict alternation, the main thread's first.
Turns == INSTANCE Alternation WITH First <- "main", Second <- "new"
Alternates == Turns!Spec
=============================================================================
