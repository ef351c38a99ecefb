------------------------------- MODULE MCLabs -------------------------------
(***************************************************************************)
(* The programs of labs 1 to 6 and 8: which one runs is chosen at the      *)
(* start.  The variables the others have stay as they are.                 *)
(***************************************************************************)
EXTENDS Series, Sequences

CONSTANT MaxLength

ASSUME LengthAssumption == MaxLength \in Nat

VARIABLES
    program, lab, lines, at, symbol, disabled, pending, handled, canceled,
    lengths, freed, now, due, output, args, result, sum, garbage

CJ == INSTANCE CreateJoin WITH printed <- lines
CP == INSTANCE CancelPrinter
SS == INSTANCE SleepSort
PS == INSTANCE PartialSums

joinVars == <<lines>>
cancelVars == <<at, symbol, disabled, pending, handled, canceled>>
sleepVars == <<lengths, freed, now, due, output>>
sumVars == <<args, result, sum, garbage>>
vars == <<workersVars, program, lab, joinVars, cancelVars, sleepVars, sumVars>>

NoJoin == lines = <<>>
NoCancel ==
    at = "" /\ symbol = 0 /\ disabled = FALSE /\ pending = FALSE /\ handled = FALSE /\ canceled = FALSE
NoSleep == lengths = <<>> /\ freed = FALSE /\ now = 0 /\ due = <<>> /\ output = <<>>
NoSum == args = <<>> /\ result = <<>> /\ sum = <<>> /\ garbage = FALSE

Init ==
    \/ program = "join" /\ CJ!Init /\ NoCancel /\ NoSleep /\ NoSum
    \/ program = "cancel" /\ CP!Init /\ NoJoin /\ NoSleep /\ NoSum
    \/ program = "sleep" /\ SS!Init /\ lab = 6 /\ NoJoin /\ NoCancel /\ NoSum
    \/ program = "sums" /\ PS!Init /\ lab = 8 /\ NoJoin /\ NoCancel /\ NoSleep

NotJoin == UNCHANGED joinVars
NotCancel == UNCHANGED cancelVars
NotSleep == UNCHANGED sleepVars
NotSum == UNCHANGED sumVars

MainStep ==
    /\ UNCHANGED program
    /\ \/ program = "join" /\ CJ!MainStep /\ NotCancel /\ NotSleep /\ NotSum
       \/ program = "cancel" /\ CP!MainStep /\ NotJoin /\ NotSleep /\ NotSum
       \/ program = "sleep" /\ SS!MainStep /\ UNCHANGED lab /\ NotJoin /\ NotCancel /\ NotSum
       \/ program = "sums" /\ PS!MainStep /\ UNCHANGED lab /\ NotJoin /\ NotCancel /\ NotSleep

ThreadStep(w) ==
    /\ UNCHANGED program
    /\ \/ program = "join" /\ CJ!ThreadStep(w) /\ NotCancel /\ NotSleep /\ NotSum
       \/ program = "cancel" /\ CP!ThreadStep /\ NotJoin /\ NotSleep /\ NotSum
       \/ program = "sleep" /\ SS!ThreadStep /\ UNCHANGED lab /\ NotJoin /\ NotCancel /\ NotSum
       \/ program = "sums" /\ PS!ThreadStep /\ UNCHANGED lab /\ NotJoin /\ NotCancel /\ NotSleep

Next == MainStep \/ \E w \in Ids : ThreadStep(w)

Spec == Init /\ [][Next]_vars

\* getline waits for the next line of stdin (lab6).
AwaitsLine == main = "read" /\ Len(lengths) < MaxWorkers

\* main and every thread run on, but for main while it waits for a line: nobody has to type.
FairSpec ==
    Spec /\ WF_vars(MainStep /\ ~AwaitsLine) /\ \A w \in Ids : WF_vars(ThreadStep(w))

-----------------------------------------------------------------------------
\* No thread is ended, and nothing it reads is taken from it, by the end of main; in
\* lab3 only if a later pthread_create fails.
NobodyCutOff ==
    /\ program = "join" => CJ!NobodyCutOff
    /\ program = "cancel" => CP!NobodyCutOff
    /\ program = "sleep" => SS!NobodyCutOff
    /\ program = "sums" => PS!NobodyCutOff

\* What is computed is right where it can be: the strings of lab6 come out sorted but for
\* those created late (SleepSort); in lab8 the sum is whole if the number of threads divides
\* the number of terms, and a remainder counts terms twice and leaves out as many
\* (PartialSums).
RightOutput ==
    /\ program = "sleep" => SS!Sorted
    /\ program = "sums" => PS!TermsSummed

\* The programs end, unless lab6 waits for a line for ever; everything is printed unless
\* a thread could not be created, but then those of labs 6 and 8 may hang or crash on the
\* identifiers they did not write.  The thread of labs 4 and 5 hears the cancel in its
\* loop, and no join waits for a thread that waits.
Whole ==
    /\ program = "join" => CJ!AllPrinted
    /\ program = "sleep" => Len(output) = count
Ended ==
    \/ main = "gone" /\ (failed \/ Whole)
    \/ main \in {"crashed", "hangs"} /\ failed /\ program \in {"sleep", "sums"}
EveryoneEnds == <>Ended \/ <>[]AwaitsLine
=============================================================================
