------------------------------- MODULE Series -------------------------------
(***************************************************************************)
(* lab8: the terms of the series, of which there are more than threads.    *)
(***************************************************************************)
EXTENDS Workers

CONSTANT NUM_OF_STEPS

ASSUME StepsAssumption == NUM_OF_STEPS \in Nat /\ MaxWorkers <= NUM_OF_STEPS

Steps == 0..(NUM_OF_STEPS - 1)
=============================================================================
