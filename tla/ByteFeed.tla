------------------------------- MODULE ByteFeed -------------------------------
(***************************************************************************)
(* What a shared element of lab32v2's cache promises: one growing sequence *)
(* of units, of which every reader takes a longer and longer prefix.  A    *)
(* reader that is served to the end has taken all of the closed sequence.  *)
(* The only others are those that met the sequence before it was opened    *)
(* and those that broke off by themselves.                                 *)
(***************************************************************************)
EXTENDS Integers

CONSTANTS Readers, MaxLength

VARIABLES
    avail,   \* units in the sequence
    phase,   \* "opening", "open" or "closed"
    taken,   \* units each reader has taken
    status   \* "reading", "early", "broken" or "finished"

vars == <<avail, phase, taken, status>>

Grow ==
    /\ phase # "closed"
    /\ avail' \in (avail + 1)..MaxLength
    /\ UNCHANGED <<phase, taken, status>>

Open ==
    /\ phase = "opening"
    /\ phase' = "open"
    /\ UNCHANGED <<avail, taken, status>>

Close ==
    /\ phase = "open"
    /\ phase' = "closed"
    /\ UNCHANGED <<avail, taken, status>>

Take(r) ==
    /\ status[r] \in {"reading", "early"}
    /\ \E n \in (taken[r] + 1)..avail : taken' = [taken EXCEPT ![r] = n]
    /\ UNCHANGED <<avail, phase, status>>

GiveUpEarly(r) ==
    /\ phase = "opening"
    /\ status[r] = "reading"
    /\ status' = [status EXCEPT ![r] = "early"]
    /\ UNCHANGED <<avail, phase, taken>>

Break(r) ==
    /\ status[r] \in {"reading", "early"}
    /\ status' = [status EXCEPT ![r] = "broken"]
    /\ UNCHANGED <<avail, phase, taken>>

Finish(r) ==
    /\ phase = "closed"
    /\ status[r] = "reading"
    /\ taken[r] = avail
    /\ status' = [status EXCEPT ![r] = "finished"]
    /\ UNCHANGED <<avail, phase, taken>>

Init ==
    /\ avail = 0
    /\ phase = "opening"
    /\ taken = [r \in Readers |-> 0]
    /\ status = [r \in Readers |-> "reading"]

Next ==
    \/ Grow \/ Open \/ Close
    \/ \E r \in Readers : Take(r) \/ GiveUpEarly(r) \/ Break(r) \/ Finish(r)

Spec == Init /\ [][Next]_vars
=============================================================================
