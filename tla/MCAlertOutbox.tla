---------------------------- MODULE MCAlertOutbox ----------------------------
(* Small instances of AlertOutbox for TLC.                                  *)
EXTENDS AlertOutbox, TLC

Symmetric == Permutations(Callers) \cup Permutations(Alerts)

\* Alerts of several kinds and repeated sends go without keys, windows and time, in
\* a file that stays readable, and a message is repeated only among plain alerts in
\* a whole file; with a key, a clock that moved or a file that no longer decodes,
\* there are only plain alerts sent once, and after a tick only keyed ones are in hand.
Keyed(e) == e # None /\ e.key # NoKey
AllPlain == \A a \in Alerts : kind[a] \in {None, "plain"}
SentOnce == \A p \in Callers : tries[p] <= 1
KindsOrKeys ==
    \/ /\ now = 0 /\ ~unreadable
       /\ \A a \in Alerts, p \in Callers : ~Keyed(file[a]) /\ ~Keyed(cur[p])
       /\ \A a \in Alerts : window[a] <= 1
       /\ SentOnce \/ (AllPlain /\ ~torn)
    \/ /\ AllPlain /\ SentOnce
       /\ \A p \in Callers : cur[p] # None /\ ~Keyed(cur[p]) =>
             now = 0 /\ window[cur[p].id] <= 1
===============================================================================
