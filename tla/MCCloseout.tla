------------------------------- MODULE MCCloseout -------------------------------
(* Small instances of Closeout for TLC.                                     *)
EXTENDS Closeout, TLC

Symmetry == Permutations(Runs) \cup Permutations(Stores)

\* Of a second READY, marks, a sender started by hand and a fault at most two happen;
\* where two closeouts may work at once none of the first three, and after a fault two
\* launches.  With marks, or a sender by hand, one process at a time, twice; marks next
\* to a fault or a sender by hand are of one store, and with both the tool writes only
\* around the first launch.
AtMostTwoTroubles ==
    LET second == IF ready > 1 THEN 1 ELSE 0
        marking == IF editor # <<>> \/ marks # {} THEN 1 ELSE 0
        sending == IF handed > 0 THEN 1 ELSE 0
        fault == IF faults > 0 THEN 1 ELSE 0
    IN  /\ second + marking + sending + fault <= 2
        /\ bypassed => second + marking + sending = 0 /\ launches + fault <= 3
        /\ marking + sending > 0 =>
               launches <= 2 /\ Cardinality({r \in Runs : run[r].pc # "idle"}) <= 1
        /\ marking + sending + fault = 2 => Cardinality(marks) <= 1
        /\ marking + sending = 2 => launches = 1 \/ editor = <<>>
===============================================================================
