---------------------------- MODULE MCHaltBarrier ----------------------------
(* Small instances of HaltBarrier for TLC.                                  *)
EXTENDS HaltBarrier, FiniteSets, TLC

WorkerSymmetry == Permutations(Workers)

\* Two workers overlap on the first date; after midnight one works at a time.
OverlapOnFirstDate ==
    today = 1 \/ Cardinality({w \in Workers : pc[w] # "idle"}) <= 1
===============================================================================
