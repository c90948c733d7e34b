---------------------------- MODULE DeliveryPromise ----------------------------
(***************************************************************************)
(* The promise of the waybill delivery, without processes or files: each    *)
(* document of a batch is put in the chat at most once, only one batch of a *)
(* target date is ever delivered, and only delivered documents are          *)
(* acknowledged, for good.                                                  *)
(***************************************************************************)
EXTENDS Naturals

CONSTANTS Batches, Keys, Dates, TargetDate

VARIABLES
    copies,         \* copies[b][k]: copies of document k of batch b in the chat
    acknowledged    \* documents recorded as confirmed

Delivered(b) == \E k \in Keys : copies[b][k] > 0

Init ==
    /\ copies = [b \in Batches |-> [k \in Keys |-> 0]]
    /\ acknowledged = {}

Deliver(b, k) ==
    /\ copies[b][k] = 0
    /\ \A c \in Batches : TargetDate[c] = TargetDate[b] /\ Delivered(c) => c = b
    /\ copies' = [copies EXCEPT ![b][k] = 1]
    /\ UNCHANGED acknowledged

Acknowledge(b, k) ==
    /\ copies[b][k] > 0
    /\ acknowledged' = acknowledged \cup {<<b, k>>}
    /\ UNCHANGED copies

Next == \E b \in Batches, k \in Keys : Deliver(b, k) \/ Acknowledge(b, k)

Spec == Init /\ [][Next]_<<copies, acknowledged>>
===============================================================================
