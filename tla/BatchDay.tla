------------------------------- MODULE BatchDay -------------------------------
(***************************************************************************)
(* The SEND batches of the target dates, without senders, locks or files:   *)
(* what the exclusion of sibling batches (_other_batch_attempt_reason of    *)
(* scripts/send_waybills_telegram.py) makes of their ledgers while nobody   *)
(* edits a ledger by hand.                                                  *)
(*                                                                          *)
(* TelegramDelivery implements it with its senders, their crashes and the   *)
(* channel lock.  Closeout, which sees a ledger only as one of the five     *)
(* words below, implements it as well: a closeout relies on no more of the  *)
(* senders than this module says.                                           *)
(***************************************************************************)
EXTENDS TLAPS

CONSTANTS Batches, TargetDate

VARIABLE status     \* status[b]: what there is of batch b

Status == {"unbuilt", "absent", "pending", "attempted", "confirmed"}

Tried(b) == status[b] \in {"attempted", "confirmed"}

Init == status = [b \in Batches |-> "unbuilt"]

Become(b, from, to) == status[b] = from /\ status' = [status EXCEPT ![b] = to]

\* The manifest is written; later a sender creates the ledger.
Build(b) == Become(b, "unbuilt", "absent")
Open(b) == Become(b, "absent", "pending")

\* The first document of a batch is recorded as started, and no other batch of
\* its date was ever tried.
Attempt(b) ==
    /\ \A c \in Batches : TargetDate[c] = TargetDate[b] /\ Tried(c) => c = b
    /\ Become(b, "pending", "attempted")

\* The last document of the batch is confirmed.
Confirm(b) == Become(b, "attempted", "confirmed")

Next == \E b \in Batches : Build(b) \/ Open(b) \/ Attempt(b) \/ Confirm(b)

Spec == Init /\ [][Next]_status

-------------------------------------------------------------------------------
TypeOK == status \in [Batches -> Status]

\* At most one batch of a target date is ever tried, for good.
OneTried ==
    \A b, c \in Batches : TargetDate[b] = TargetDate[c] /\ Tried(b) /\ Tried(c) => b = c

\* Every state of the day is one of batches that follow the exclusion: for any
\* set of batches, on any dates, no two of one date are both tried.
THEOREM OneTriedADay == Spec => [](TypeOK /\ OneTried)
<1>1. Init => TypeOK /\ OneTried
    BY DEF Init, TypeOK, OneTried, Tried, Status
<1>2. TypeOK /\ OneTried /\ [Next]_status => TypeOK' /\ OneTried'
    <2> SUFFICES ASSUME TypeOK, OneTried, [Next]_status PROVE TypeOK' /\ OneTried'
        OBVIOUS
    <2>1. CASE UNCHANGED status
        BY <2>1 DEF TypeOK, OneTried, Tried
    <2>2. CASE Next
        <3>1. PICK b \in Batches : Build(b) \/ Open(b) \/ Attempt(b) \/ Confirm(b)
            BY <2>2 DEF Next
        <3>2. CASE Build(b) \/ Open(b) \/ Confirm(b)
            BY <3>2 DEF Build, Open, Confirm, Become, TypeOK, OneTried, Tried, Status
        <3>3. CASE Attempt(b)
            BY <3>3 DEF Attempt, Become, TypeOK, OneTried, Tried, Status
        <3> QED BY <3>1, <3>2, <3>3
    <2> QED BY <2>1, <2>2
<1> QED BY <1>1, <1>2, PTL DEF Spec
===============================================================================
