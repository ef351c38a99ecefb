----------------------------- MODULE SleepSort -----------------------------
(***************************************************************************)
(* lab6: each string gets a thread that sleeps as long as the string is    *)
(* and then prints it.                                                     *)
(***************************************************************************)
EXTENDS Workers, Sequences

CONSTANT MaxLength   \* of a string with its newline

VARIABLES
    lengths,   \* strlen of the strings read, in order
    freed,     \* the strings have been freed
    now,       \* time in units of COEFFIECIENT
    due,       \* when the sleep of each thread ends
    output     \* the threads in the order of their printf

stringVars == <<lengths, freed>>
timeVars == <<now, due, output>>
vars == <<workersVars, stringVars, timeVars>>

Init ==
    /\ InitWorkers("read", 0)
    /\ lengths = <<>> /\ freed = FALSE
    /\ now = 0 /\ due = [w \in Ids |-> 0] /\ output = <<>>

\* A line of at least two characters: main goes on reading while there is room.
ReadString ==
    /\ main = "read" /\ Len(lengths) < MaxWorkers
    /\ \E readCount \in 2..MaxLength : lengths' = Append(lengths, readCount)
    /\ UNCHANGED <<workersVars, freed, timeVars>>

\* malloc or getline fails, at the end of the input too: all strings are freed but the
\* one that was to be read.
ReadFails ==
    /\ main = "read" /\ Len(lengths) < MaxWorkers
    /\ main' = "returned"
    /\ freed' = TRUE
    /\ UNCHANGED <<k, count, worker, failed, lengths, timeVars>>

\* A line of one character, or the array is full.
ReadAll ==
    /\ main = "read"
    /\ main' = "alloc"
    /\ count' = Len(lengths)
    /\ UNCHANGED <<k, worker, failed, stringVars, timeVars>>

readStrings == ReadString \/ ReadFails \/ ReadAll

\* The array of the identifiers.
AllocThreads ==
    /\ main = "alloc"
    /\ \/ main' = "create" /\ UNCHANGED <<freed, failed>>
       \/ main' = "returned" /\ freed' = TRUE /\ failed' = TRUE
    /\ UNCHANGED <<k, count, worker, lengths, timeVars>>

\* The sleep of a new thread starts with its creation.
CreateThread ==
    /\ CreateNext
    /\ due' = [due EXCEPT ![k] = now + lengths[k + 1]]
    /\ UNCHANGED <<stringVars, now, output>>

\* A failure ends the loop; the identifiers it leaves unwritten are joined as well.
CreateAndJoin ==
    /\ \/ CreateFails("join") \/ CreatedAll("join")
       \/ JoinNext \/ JoinRefused \/ JoinLost \/ JoinedAll("cleanup")
    /\ UNCHANGED <<stringVars, timeVars>>

doCleanUp ==
    /\ main = "cleanup"
    /\ main' = "returned"
    /\ freed' = TRUE
    /\ UNCHANGED <<k, count, worker, failed, lengths, timeVars>>

MainStep ==
    \/ readStrings \/ AllocThreads \/ CreateThread \/ CreateAndJoin \/ doCleanUp
    \/ EndProcess /\ UNCHANGED <<stringVars, timeVars>>

\* usleep is over, the string is printed.
printString(w) ==
    /\ Alive /\ now >= due[w]
    /\ Finish(w)
    /\ output' = Append(output, w)
    /\ UNCHANGED <<stringVars, now, due>>

\* Time passes while somebody sleeps and nobody is due: a thread whose sleep is over
\* prints within the unit.
Asleep(w) == Running(w) /\ now < due[w]
Tick ==
    /\ Alive
    /\ \E w \in Ids : Asleep(w)
    /\ \A w \in Ids : Running(w) => Asleep(w)
    /\ now' = now + 1
    /\ UNCHANGED <<workersVars, stringVars, due, output>>

ThreadStep == Tick \/ \E w \in Ids : printString(w)

Next == MainStep \/ ThreadStep
Spec == Init /\ [][Next]_vars

-----------------------------------------------------------------------------
\* No thread reads a string that is freed: a failure of pthread_create leaves the threads
\* created before it to be joined all the same.
NobodyCutOff == OutlivesThreads({"returned", "gone"}) /\ (freed => \A w \in Ids : ~Running(w))

\* The strings come out in the order of their lengths, but for a shorter one that was
\* created later by at least the difference.
Created(w) == due[w] - lengths[w + 1]
Sorted ==
    \A p, q \in 1..Len(output) :
      LET a == output[p]
          b == output[q]
      IN  p < q /\ lengths[b + 1] < lengths[a + 1] =>
            Created(b) - Created(a) >= lengths[a + 1] - lengths[b + 1]
=============================================================================
