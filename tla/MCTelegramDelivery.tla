-------------------------- MODULE MCTelegramDelivery --------------------------
(* Small instances of TelegramDelivery for TLC.                             *)
EXTENDS TelegramDelivery, TLC

CONSTANTS b1, b2, d1

SameDate == b1 :> d1 @@ b2 :> d1
OneBatch == b1 :> d1

KeySymmetric == Permutations(Keys)
SenderSymmetric == Permutations(Senders)
Symmetric == KeySymmetric \cup SenderSymmetric
===============================================================================
