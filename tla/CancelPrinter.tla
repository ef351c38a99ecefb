--------------------------- MODULE CancelPrinter ---------------------------
(***************************************************************************)
(* labs 4 and 5: main cancels a thread that prints the letters for ever.   *)
(* The thread refuses cancellation while it prints; in lab5 it has a       *)
(* handler for its end.                                                    *)
(***************************************************************************)
EXTENDS Workers

VARIABLES
    lab,        \* the program: 4 or 5
    at,         \* where the thread stands in its loop
    symbol,     \* the next letter
    disabled,   \* the thread's cancel state is PTHREAD_CANCEL_DISABLE
    pending,    \* main has asked the thread to end
    handled,    \* cleanup_handler has run
    canceled    \* what main read from the join is PTHREAD_CANCELED

threadVars == <<at, symbol, disabled, handled>>
vars == <<workersVars, lab, threadVars, pending, canceled>>

START_SYMBOL == 65    \* 'A'
LAST_SYMBOL == 122    \* 'z'

Init ==
    /\ lab \in {4, 5}
    /\ InitWorkers("create", 1)
    /\ at = "test" /\ symbol = START_SYMBOL
    /\ disabled = FALSE /\ pending = FALSE /\ handled = FALSE /\ canceled = FALSE

\* sleep is over: the thread is asked to end, which cannot fail before the join.
Cancel ==
    /\ main = "sleep"
    /\ main' = "join"
    /\ pending' = TRUE
    /\ UNCHANGED <<k, count, worker, failed, canceled>>

ReadResult ==
    /\ JoinedAll("returned")
    /\ canceled' = (at = "ended")
    /\ UNCHANGED pending

\* The body of main.
MainStep ==
    /\ \/ CreateNext /\ UNCHANGED <<pending, canceled>>
       \/ CreateFails("returned") /\ UNCHANGED <<pending, canceled>>
       \/ CreatedAll("sleep") /\ UNCHANGED <<pending, canceled>>
       \/ Cancel
       \/ JoinNext /\ UNCHANGED <<pending, canceled>>
       \/ ReadResult
       \/ EndProcess /\ UNCHANGED <<pending, canceled>>
    /\ UNCHANGED <<lab, threadVars>>

AtLoop(label) == Running(0) /\ Alive /\ at = label
MainStays == UNCHANGED <<lab, pending, canceled>>

\* pthread_testcancel goes on: nobody has asked, or the thread refuses.
TestCancel ==
    /\ AtLoop("test") /\ ~(pending /\ ~disabled)
    /\ at' = "disable"
    /\ UNCHANGED <<workersVars, symbol, disabled, handled>>

\* pthread_testcancel ends the thread; lab5 then runs its handler.
EndAtTest ==
    /\ AtLoop("test") /\ pending /\ ~disabled
    /\ at' = "ended"
    /\ handled' = (lab = 5)
    /\ Finish(0)
    /\ UNCHANGED <<symbol, disabled>>

SetCancelState(from, value, to) ==
    /\ AtLoop(from)
    /\ disabled' = value
    /\ at' = to
    /\ UNCHANGED <<workersVars, symbol, handled>>

PrintSymbol ==
    /\ AtLoop("print")
    /\ symbol' = IF symbol + 1 = LAST_SYMBOL THEN START_SYMBOL ELSE symbol + 1
    /\ at' = "enable"
    /\ UNCHANGED <<workersVars, disabled, handled>>

EnableMutant == SetCancelState("enable", TRUE, "test")
Enable == SetCancelState("enable", FALSE, "test")

\* The loop of thread_print.
ThreadStep ==
    /\ \/ TestCancel \/ EndAtTest
       \/ SetCancelState("disable", TRUE, "print")
       \/ PrintSymbol
       \/ Enable
    /\ MainStays

Next == MainStep \/ ThreadStep
Spec == Init /\ [][Next]_vars

-----------------------------------------------------------------------------
\* main ends after the thread has: it is canceled, its handler has run in lab5, and no
\* letter was printed by halves.
NobodyCutOff ==
    /\ OutlivesThreads({"returned", "gone"})
    /\ main \in {"returned", "gone"} /\ ~failed => canceled /\ ~disabled /\ (handled <=> lab = 5)
=============================================================================
