------------------------ MODULE TelegramDeliveryProofs ------------------------
(***************************************************************************)
(* Proofs about TelegramDelivery, for every number of batches, documents,   *)
(* dates and senders and for every bound.                                   *)
(***************************************************************************)
EXTENDS TelegramDelivery, TLAPS

\* A run works on a batch, and from its api_started record to the record of the
\* answer on a document of it.
InFlight == {"gate", "post"} \cup Answers
Running ==
    \A s \in Senders :
        /\ pc[s] # "idle" => batch[s] \in Batches
        /\ pc[s] \in InFlight => cur[s] \in Keys

TypeInv == TypeOK /\ Running

\* Editing an entry of a ledger file gives a ledger file.
LEMMA SetEntryType ==
    ASSUME NEW file \in LedgerFile, NEW k, NEW state \in States
    PROVE  SetEntry(file, k, state) \in LedgerFile
BY DEF SetEntry, LedgerFile, Entry

LEMMA RecordedType == \A a \in Answers : Recorded[a] \in States
BY DEF Answers, Recorded, States

LEMMA SaveType ==
    ASSUME TypeOK, NEW s \in Senders, NEW k, NEW state \in States, Save(s, k, state)
    PROVE  mem' \in [Senders -> LedgerFile]
           /\ ledger' \in [Batches -> LedgerFile \cup {Nobody}]
<1>1. SetEntry(mem[s], k, state) \in LedgerFile
    BY SetEntryType DEF TypeOK
<1>2. QED BY <1>1 DEF Save, TypeOK

LEMMA CopyType ==
    ASSUME TypeOK, NEW s \in Senders, Copy(s),
           batch[s] \in Batches, cur[s] \in Keys
    PROVE  delivered' \in [Batches -> [Keys -> 0..MaxCopies]]
BY BoundAssumption DEF Copy, TypeOK

LEMMA ExitType ==
    ASSUME TypeOK, NEW s \in Senders, Exit(s)
    PROVE  /\ lock' \in Senders \cup {Nobody}
           /\ pc' \in [Senders -> Control]
           /\ batch' \in [Senders -> Batches \cup {Nobody}]
           /\ mem' \in [Senders -> LedgerFile]
           /\ todo' \in [Senders -> SUBSET Keys]
           /\ cur' \in [Senders -> Keys \cup {Nobody}]
           /\ tries' \in [Senders -> 0..MaxRetries]
BY BoundAssumption DEF Exit, Goto, TypeOK, Control, EmptyLedger, DefaultEntry,
    LedgerFile, Entry, States

\* The inductive form of the type invariant.
THEOREM TypeInvariant == Spec => []TypeInv
<1>1. Init => TypeInv
    BY DateAssumption, BoundAssumption DEF Init, TypeInv, TypeOK, Running, InFlight, Answers, Control, LedgerFile,
        EmptyLedger, DefaultEntry, Entry, States, NoClear
<1>2. TypeInv /\ [Next]_vars => TypeInv'
  <2> SUFFICES ASSUME TypeOK, Running, [Next]_vars PROVE TypeInv'
    BY DEF TypeInv
  <2> USE BoundAssumption
  <2>1. ASSUME NEW b \in Batches, BuildBatch(b) PROVE TypeInv'
    BY <2>1, DateAssumption DEF BuildBatch, TypeInv, TypeOK, Running, InFlight, Answers, local, world, others
  <2>2. ASSUME NEW b \in Batches, MoveBarrier(b) PROVE TypeInv'
    BY <2>2 DEF MoveBarrier, TypeInv, TypeOK, Running, InFlight, Answers, local, disk, others
  <2>3. ASSUME NEW s \in Senders, NEW b \in Batches, Start(s, b) PROVE TypeInv'
    BY <2>3 DEF Start, Goto, TypeInv, TypeOK, Running, InFlight, Answers, Control, disk, world, others
  <2>4. ASSUME NEW s \in Senders, GiveUp(s) PROVE TypeInv'
    BY <2>4 DEF GiveUp, Goto, TypeInv, TypeOK, Running, InFlight, Answers, Control, disk, local, world, others
  <2>5. ASSUME NEW s \in Senders, CheckSiblings(s) PROVE TypeInv'
    BY <2>5 DEF CheckSiblings, Goto, TypeInv, TypeOK, Running, InFlight, Answers, Control, disk, local, world, others
  <2>6. ASSUME NEW s \in Senders, LoadAndSelect(s) PROVE TypeInv'
    <3> DEFINE file == IF ledger[batch[s]] = Nobody THEN EmptyLedger ELSE ledger[batch[s]]
    <3>1. batch[s] \in Batches
      BY <2>6 DEF LoadAndSelect, Running
    <3>2. file \in LedgerFile
        BY <3>1 DEF TypeInv, TypeOK, EmptyLedger, DefaultEntry, LedgerFile, Entry, States
    <3>3. /\ mem' = [mem EXCEPT ![s] = file]
          /\ ledger' = [ledger EXCEPT ![batch[s]] = file]
      BY <2>6 DEF LoadAndSelect
    <3>4. todo' \in [Senders -> SUBSET Keys] /\ pc' \in [Senders -> Control]
        BY <2>6 DEF LoadAndSelect, Goto, TypeInv, TypeOK, Running, InFlight, Answers, Control
    <3>5. QED
      BY <2>6, <3>1, <3>2, <3>3, <3>4 DEF LoadAndSelect, Goto, Control, TypeInv, TypeOK, Running, InFlight, Answers, world, others
  <2>7. ASSUME NEW s \in Senders, PreStatus(s) PROVE TypeInv'
    BY <2>7 DEF PreStatus, Goto, TypeInv, TypeOK, Running, InFlight, Answers, Control, disk, local, world, others
  <2>8. ASSUME NEW s \in Senders, NextDocument(s) PROVE TypeInv'
    <3>1. PICK k \in todo[s] :
            /\ cur' = [cur EXCEPT ![s] = k]
            /\ todo' = [todo EXCEPT ![s] = @ \ {k}]
            /\ Save(s, k, "api_started")
      BY <2>8 DEF NextDocument
    <3>2. mem' \in [Senders -> LedgerFile]
          /\ ledger' \in [Batches -> LedgerFile \cup {Nobody}]
      BY <3>1, SaveType DEF States
    <3>3. k \in Keys
      BY <3>1 DEF TypeOK
    <3>4. Running'
      BY <2>8, <3>1, <3>3 DEF NextDocument, Goto, TypeOK, Running, InFlight, Answers
    <3>5. /\ cur' \in [Senders -> Keys \cup {Nobody}]
          /\ todo' \in [Senders -> SUBSET Keys]
      BY <3>1, <3>3 DEF TypeOK
    <3>6. tries' \in [Senders -> 0..MaxRetries] /\ pc' \in [Senders -> Control]
      BY <2>8 DEF NextDocument, Goto, TypeOK, Control
    <3>7. QED
      BY <2>8, <3>2, <3>4, <3>5, <3>6
      DEF NextDocument, TypeInv, TypeOK, world, others
  <2>9. ASSUME NEW s \in Senders, NoMoreDocuments(s) PROVE TypeInv'
    BY <2>9 DEF NoMoreDocuments, Goto, TypeInv, TypeOK, Running, InFlight, Answers, Control, disk, local, world, others
  <2>10. ASSUME NEW s \in Senders, PassGate(s) PROVE TypeInv'
    BY <2>10 DEF PassGate, Goto, TypeInv, TypeOK, Running, InFlight, Answers, Control, disk, local, world, others
  <2>11. ASSUME NEW s \in Senders, HaltedBeforeCall(s) PROVE TypeInv'
    <3>1. mem' \in [Senders -> LedgerFile]
          /\ ledger' \in [Batches -> LedgerFile \cup {Nobody}]
      BY <2>11, SaveType DEF HaltedBeforeCall, States
    <3>2. QED
      BY <2>11, <3>1 DEF HaltedBeforeCall, Goto, TypeInv, TypeOK, Running, InFlight, Answers, Control, world, others
  <2>12. ASSUME NEW s \in Senders, Post(s) PROVE TypeInv'
    <3>1. /\ batch[s] \in Batches /\ cur[s] \in Keys
          /\ UNCHANGED <<disk, lock, batch, mem, todo, cur, barred, others>>
      BY <2>12 DEF Post, Running, InFlight
    <3>2. delivered' \in [Batches -> [Keys -> 0..MaxCopies]]
      <4>1. Copy(s) \/ NoCopy
        BY <2>12 DEF Post
      <4>2. QED BY <4>1, <3>1, CopyType DEF NoCopy, TypeOK
    <3>3. \E label \in {"accepted", "rerouted", "refused", "doubt", "gate"} :
             Goto(s, label)
      BY <2>12 DEF Post, RateLimited
    <3>4. pc' \in [Senders -> Control]
      BY <3>3 DEF Goto, TypeOK, Control, Answers
    <3>5. tries' \in [Senders -> 0..MaxRetries]
      <4>1. \/ tries' = tries
            \/ tries[s] < MaxRetries /\ tries' = [tries EXCEPT ![s] = @ + 1]
        BY <2>12 DEF Post, RateLimited
      <4>2. CASE tries' = tries
        BY <4>2 DEF TypeOK
      <4>3. CASE tries[s] < MaxRetries /\ tries' = [tries EXCEPT ![s] = @ + 1]
        <5>1. tries[s] \in 0..MaxRetries
          BY DEF TypeOK
        <5>2. tries[s] + 1 \in 0..MaxRetries
          BY <4>3, <5>1
        <5>3. QED BY <4>3, <5>2 DEF TypeOK
      <4>4. QED BY <4>1, <4>2, <4>3
    <3>6. calls' \in [Batches -> 0..2]
      <4>1. calls[batch[s]] \in 0..2
        BY <3>1 DEF TypeOK
      <4> DEFINE count == IF batch[s] \in barred /\ calls[batch[s]] < 2
                          THEN calls[batch[s]] + 1 ELSE calls[batch[s]]
      <4>2. calls' = [calls EXCEPT ![batch[s]] = count]
        BY <2>12 DEF Post
      <4>3. count \in 0..2
        BY <4>1
      <4>4. QED BY <4>2, <4>3 DEF TypeOK
    <3>7. Running'
      BY <3>1, <3>3, <2>12 DEF Goto, TypeOK, Running, InFlight, Answers, Post
    <3>8. QED
      BY <3>1, <3>2, <3>4, <3>5, <3>6, <3>7 DEF TypeInv, TypeOK, disk, others
  <2>13. ASSUME NEW s \in Senders, Record(s) PROVE TypeInv'
    <3>1. Recorded[pc[s]] \in States
      BY <2>13, RecordedType DEF Record
    <3>2. mem' \in [Senders -> LedgerFile]
          /\ ledger' \in [Batches -> LedgerFile \cup {Nobody}]
      BY <2>13, <3>1, SaveType DEF Record
    <3>3. QED
      BY <2>13, <3>2 DEF Record, Goto, TypeInv, TypeOK, Running, InFlight, Answers, Control, world, others
  <2>14. ASSUME NEW s \in Senders, Finish(s) PROVE TypeInv'
    <3>1. Exit(s) BY <2>14 DEF Finish
    <3>2. Running'
      BY <2>14 DEF Finish, Exit, Goto, TypeOK, Running, InFlight, Answers
    <3>3. QED
      BY <2>14, <3>1, <3>2, ExitType DEF Finish, TypeInv, TypeOK, disk, world, others
  <2>15. ASSUME NEW s \in Senders, Crash(s) PROVE TypeInv'
    <3>1. Exit(s) BY <2>15 DEF Crash
    <3>2. delivered' \in [Batches -> [Keys -> 0..MaxCopies]]
      BY <2>15, CopyType DEF Crash, NoCopy, TypeOK, Running, InFlight
    <3>3. crashes' \in 0..MaxCrashes
      BY <2>15 DEF Crash, TypeOK
    <3>4. Running'
      BY <2>15 DEF Crash, Exit, Goto, TypeOK, Running, InFlight, Answers
    <3>5. QED
      BY <2>15, <3>1, <3>2, <3>3, <3>4, ExitType DEF Crash, TypeInv, TypeOK, disk
  <2>16. ASSUME NEW d \in Dates, NEW k \in Keys, ClearRead(d, k) PROVE TypeInv'
    <3>1. newest[d] \in Batches /\ ledger[newest[d]] \in LedgerFile
      BY <2>16 DEF ClearRead, TypeOK
    <3>2. operator' \in Clearing /\ clears' \in 0..MaxClears
      BY <2>16, <3>1 DEF ClearRead, Clearing, TypeOK
    <3>3. QED BY <2>16, <3>2 DEF ClearRead, TypeInv, TypeOK, Running, InFlight, Answers, disk, local, world
  <2>17. ASSUME ClearSave PROVE TypeInv'
    <3>1. operator \in Clearing
      BY <2>17 DEF ClearSave, TypeOK
    <3>2. SetEntry(operator.file, operator.key, "pending") \in LedgerFile
      BY <3>1, SetEntryType DEF Clearing, States
    <3>3. QED BY <2>17, <3>1, <3>2 DEF ClearSave, TypeInv, TypeOK, Running, InFlight, Answers, local, world
  <2>18. CASE UNCHANGED vars
    BY <2>18 DEF vars, TypeInv, TypeOK, Running
  <2>19. QED
    BY <2>1, <2>2, <2>3, <2>4, <2>5, <2>6, <2>7, <2>8, <2>9, <2>10, <2>11, <2>12,
       <2>13, <2>14, <2>15, <2>16, <2>17, <2>18 DEF Next, Step
<1>3. QED BY <1>1, <1>2, PTL DEF Spec

\* Every reachable state has the types of TypeOK.
THEOREM TypeCorrect == Spec => []TypeOK
<1>1. TypeInv => TypeOK
    BY DEF TypeInv
<1>2. QED BY <1>1, TypeInvariant, PTL

-------------------------------------------------------------------------------
(* Confirmed entries.  Every copy of a ledger that may be saved later - the  *)
(* file, a sender's memory, the operator's snapshot - confirms only          *)
(* documents that were delivered; copies in the chat are never taken back.   *)

Backed(file, landed) ==
    \A k \in Keys : file[k].state = "confirmed" => landed[k] > 0

ConfirmedInv ==
    /\ \A b \in Batches : ledger[b] # Nobody => Backed(ledger[b], delivered[b])
    /\ \A s \in Senders :
          /\ pc[s] = "idle" => mem[s] = EmptyLedger
          /\ pc[s] # "idle" => Backed(mem[s], delivered[batch[s]])
          /\ pc[s] = "accepted" => delivered[batch[s]][cur[s]] > 0
    /\ operator # NoClear => Backed(operator.file, delivered[operator.batch])

(* One batch per target date.  A delivered batch stays visibly attempted, so *)
(* no sender of a sibling passes the check; a sender that has passed it      *)
(* holds the lock until it ends.                                             *)

Shipped(b) == \E k \in Keys : delivered[b][k] > 0
Cleared == {"load", "status", "next"} \cup InFlight

LockInv == \A s \in Senders : pc[s] # "idle" => lock = s /\ batch[s] \in built

FileInv ==
    /\ \A b \in Batches : b \notin built => ledger[b] = Nobody
    /\ operator # NoClear => ledger[operator.batch] # Nobody

ExclusionInv ==
    /\ \A b \in Batches : Shipped(b) => Attempted(ledger[b])
    /\ \A s \in Senders :
          /\ pc[s] \in InFlight => Attempted(ledger[batch[s]])
          /\ pc[s] \in Cleared =>
                \A c \in Batches :
                    TargetDate[c] = TargetDate[batch[s]] /\ Shipped(c) => c = batch[s]
    /\ OneBatchPerDate

(* At most once, when nobody clears entries by hand and a refusal is a       *)
(* refusal.  The sender's copy is the file; the document in flight is        *)
(* api_started in it and not delivered before the call that may deliver it.  *)

Trusting == MaxClears = 0 /\ ~GatewayErrors
AtWork == {"status", "next"} \cup InFlight

OnceInv ==
    /\ operator = NoClear
    /\ \A s \in Senders :
          /\ pc[s] \in AtWork =>
                ledger[batch[s]] = mem[s] /\ todo[s] \subseteq Sendable(mem[s])
          /\ pc[s] \in InFlight => mem[s][cur[s]].state = "api_started"
          /\ pc[s] \in {"gate", "post", "refused"} =>
                delivered[batch[s]][cur[s]] = 0
    /\ DeliveryAccounted
    /\ AtMostOnce

-------------------------------------------------------------------------------
(* What the operators of the model guarantee.                                *)

\* An edit confirms nothing but the edited entry, and only when asked to.
LEMMA SetEntryConfirms ==
    ASSUME NEW file \in LedgerFile, NEW k \in Keys, NEW state \in States,
           NEW j \in Keys, SetEntry(file, k, state)[j].state = "confirmed"
    PROVE  file[j].state = "confirmed" \/ (j = k /\ state = "confirmed")
BY DEF SetEntry, LedgerFile, Entry

\* An edited ledger shows an attempt.
LEMMA SetEntryAttempts ==
    ASSUME NEW file \in LedgerFile, NEW k \in Keys, NEW state \in States
    PROVE  Attempted(SetEntry(file, k, state))
<1>1. SetEntry(file, k, state) # Nobody
    BY SetEntryType, NobodyAssumption
<1>2. QED BY <1>1 DEF Attempted, SetEntry, LedgerFile, Entry

\* What a save does to the two copies of the ledger.
LEMMA SaveFacts ==
    ASSUME TypeOK, NEW s \in Senders, NEW k \in Keys, NEW state \in States,
           batch[s] \in Batches, Save(s, k, state)
    PROVE  /\ mem'[s] = SetEntry(mem[s], k, state)
           /\ \A t \in Senders : t # s => mem'[t] = mem[t]
           /\ ledger'[batch[s]] = SetEntry(mem[s], k, state)
           /\ \A b \in Batches : b # batch[s] => ledger'[b] = ledger[b]
           /\ mem[s] \in LedgerFile
BY DEF Save, TypeOK

\* Telegram takes no copy back.
LEMMA CopiesStay ==
    ASSUME TypeInv, [Next]_vars
    PROVE  \A b \in Batches, k \in Keys :
               delivered[b][k] > 0 => delivered'[b][k] > 0
<1>1. ASSUME NEW s \in Senders, Copy(s)
      PROVE  \A b \in Batches, k \in Keys :
               delivered[b][k] > 0 => delivered'[b][k] > 0
    BY <1>1, BoundAssumption DEF Copy, TypeInv, TypeOK
<1>2. CASE delivered' = delivered
    BY <1>2
<1>3. delivered' = delivered \/ \E s \in Senders : Copy(s)
    BY DEF Next, Step, vars, BuildBatch, MoveBarrier, Start, GiveUp, CheckSiblings,
        LoadAndSelect, PreStatus, NextDocument, NoMoreDocuments, PassGate,
        HaltedBeforeCall, Post, Record, Finish, Crash, ClearRead, ClearSave,
        NoCopy, world
<1>4. QED BY <1>1, <1>2, <1>3

\* A call leaves its copy under the document it was made for.
LEMMA CopyLands ==
    ASSUME TypeOK, NEW s \in Senders, Copy(s), batch[s] \in Batches, cur[s] \in Keys
    PROVE  /\ delivered'[batch[s]][cur[s]] = delivered[batch[s]][cur[s]] + 1
           /\ \A b \in Batches, k \in Keys :
                  b # batch[s] \/ k # cur[s] => delivered'[b][k] = delivered[b][k]
BY DEF Copy, TypeOK

-------------------------------------------------------------------------------
(* Confirmed means delivered.                                                *)

LEMMA ConfirmedInit == Init => ConfirmedInv
BY DEF Init, ConfirmedInv, Backed, NoClear, EmptyLedger, DefaultEntry

\* What was backed stays backed: the copies in the chat only grow.
LEMMA BackedStays ==
    ASSUME TypeInv, [Next]_vars, NEW b \in Batches, NEW file,
           Backed(file, delivered[b])
    PROVE  Backed(file, delivered'[b])
BY CopiesStay DEF Backed

\* A step within a run that touches no ledger copy and confirms nothing.
LEMMA ConfirmedQuiet ==
    ASSUME TypeInv, ConfirmedInv, [Next]_vars,
           NEW s \in Senders, NEW label \in Control \ {"idle", "accepted"},
           pc[s] # "idle", Goto(s, label),
           UNCHANGED <<ledger, mem, batch, cur, operator>>
    PROVE  ConfirmedInv'
<1> USE DEF TypeInv
<1>1. \A b \in Batches : (ledger[b] # Nobody => Backed(ledger[b], delivered[b]))'
    BY BackedStays DEF ConfirmedInv
<1>2. \A t \in Senders : (pc[t] # "idle" => Backed(mem[t], delivered[batch[t]]))'
    BY BackedStays DEF ConfirmedInv, Goto, TypeOK, Running
<1>3. \A t \in Senders : (pc[t] = "idle" => mem[t] = EmptyLedger)'
    BY DEF ConfirmedInv, Goto, TypeOK
<1>4. \A t \in Senders : (pc[t] = "accepted" => delivered[batch[t]][cur[t]] > 0)'
    BY CopiesStay DEF ConfirmedInv, Goto, TypeOK, Running, InFlight, Answers
<1>5. (operator # NoClear => Backed(operator.file, delivered[operator.batch]))'
    BY BackedStays DEF ConfirmedInv, TypeOK, Clearing
<1>6. QED BY <1>1, <1>2, <1>3, <1>4, <1>5 DEF ConfirmedInv

\* A step that saves an edit of the sender's copy.
LEMMA ConfirmedSave ==
    ASSUME TypeInv, ConfirmedInv, [Next]_vars,
           NEW s \in Senders, NEW label \in Control \ {"idle", "accepted"},
           pc[s] # "idle", Goto(s, label),
           NEW k \in Keys, NEW state \in States, Save(s, k, state),
           state = "confirmed" => delivered[batch[s]][k] > 0,
           UNCHANGED <<batch, operator>>,
           \A t \in Senders \ {s} : cur'[t] = cur[t]
    PROVE  ConfirmedInv'
<1> USE DEF TypeInv
<1> DEFINE file == SetEntry(mem[s], k, state)
<1>1. batch[s] \in Batches
    BY DEF Running
<1>2. /\ mem'[s] = file /\ ledger'[batch[s]] = file
      /\ \A t \in Senders \ {s} : mem'[t] = mem[t]
      /\ \A b \in Batches \ {batch[s]} : ledger'[b] = ledger[b]
      /\ mem[s] \in LedgerFile
    BY <1>1, SaveFacts
<1>3. Backed(file, delivered[batch[s]])
    BY <1>2, SetEntryConfirms DEF ConfirmedInv, Backed
<1>4. Backed(file, delivered'[batch[s]])
    BY <1>1, <1>3, BackedStays
<1> HIDE DEF file
<1>5. \A b \in Batches : (ledger[b] # Nobody => Backed(ledger[b], delivered[b]))'
    BY <1>1, <1>2, <1>4, BackedStays DEF ConfirmedInv
<1>6. \A t \in Senders : (pc[t] # "idle" => Backed(mem[t], delivered[batch[t]]))'
    BY <1>2, <1>4, BackedStays DEF ConfirmedInv, Goto, TypeOK, Running
<1>7. \A t \in Senders : (pc[t] = "idle" => mem[t] = EmptyLedger)'
    BY <1>2 DEF ConfirmedInv, Goto, TypeOK
<1>8. \A t \in Senders : (pc[t] = "accepted" => delivered[batch[t]][cur[t]] > 0)'
    BY CopiesStay DEF ConfirmedInv, Goto, TypeOK, Running, InFlight, Answers
<1>9. (operator # NoClear => Backed(operator.file, delivered[operator.batch]))'
    BY BackedStays DEF ConfirmedInv, TypeOK, Clearing
<1>10. QED BY <1>5, <1>6, <1>7, <1>8, <1>9 DEF ConfirmedInv

\* The end of a run, whatever is left on disk.
LEMMA ConfirmedExit ==
    ASSUME TypeInv, ConfirmedInv, [Next]_vars,
           NEW s \in Senders, Exit(s), UNCHANGED <<ledger, operator>>
    PROVE  ConfirmedInv'
<1> USE DEF TypeInv
<1>1. \A b \in Batches : (ledger[b] # Nobody => Backed(ledger[b], delivered[b]))'
    BY BackedStays DEF ConfirmedInv
<1>2. \A t \in Senders \ {s} : /\ pc'[t] = pc[t] /\ mem'[t] = mem[t]
                               /\ batch'[t] = batch[t] /\ cur'[t] = cur[t]
    BY DEF Exit, Goto, TypeOK
<1>3. pc'[s] = "idle" /\ mem'[s] = EmptyLedger
    BY DEF Exit, Goto, TypeOK
<1>4. \A t \in Senders : (pc[t] # "idle" => Backed(mem[t], delivered[batch[t]]))'
    BY <1>2, <1>3, BackedStays DEF ConfirmedInv, Running
<1>5. \A t \in Senders : (pc[t] = "accepted" => delivered[batch[t]][cur[t]] > 0)'
    BY <1>2, <1>3, CopiesStay DEF ConfirmedInv, Running, InFlight, Answers
<1>6. (operator # NoClear => Backed(operator.file, delivered[operator.batch]))'
    BY BackedStays DEF ConfirmedInv, TypeOK, Clearing
<1>7. QED BY <1>1, <1>2, <1>3, <1>4, <1>5, <1>6 DEF ConfirmedInv

LEMMA ConfirmedStep ==
    ASSUME TypeInv, ConfirmedInv, [Next]_vars
    PROVE  ConfirmedInv'
<1> USE DEF TypeInv
<1>1. ASSUME NEW b \in Batches, BuildBatch(b) \/ MoveBarrier(b) PROVE ConfirmedInv'
    BY <1>1 DEF BuildBatch, MoveBarrier, ConfirmedInv, disk, local, world, others
<1>2. ASSUME NEW s \in Senders, NEW b \in Batches, Start(s, b) PROVE ConfirmedInv'
    <2>1. Backed(EmptyLedger, delivered[b])
        BY DEF Backed, EmptyLedger, DefaultEntry
    <2>2. QED
        BY <1>2, <2>1 DEF Start, Goto, ConfirmedInv, TypeOK, disk, world, others
<1>3. ASSUME NEW s \in Senders,
             GiveUp(s) \/ CheckSiblings(s) \/ PreStatus(s) \/ NoMoreDocuments(s)
                \/ PassGate(s)
      PROVE  ConfirmedInv'
    <2>1. /\ pc[s] # "idle"
          /\ \E label \in Control \ {"idle", "accepted"} : Goto(s, label)
          /\ UNCHANGED <<ledger, mem, batch, cur, operator>>
        BY <1>3 DEF GiveUp, CheckSiblings, PreStatus, NoMoreDocuments, PassGate,
            Control, disk, local, others
    <2>2. QED BY <2>1, ConfirmedQuiet
<1>4. ASSUME NEW s \in Senders, LoadAndSelect(s) PROVE ConfirmedInv'
    <2> DEFINE file == IF ledger[batch[s]] = Nobody THEN EmptyLedger ELSE ledger[batch[s]]
    <2>1. batch[s] \in Batches
        BY <1>4 DEF LoadAndSelect, Running
    <2>2. Backed(file, delivered[batch[s]])
        BY <2>1 DEF ConfirmedInv, Backed, EmptyLedger, DefaultEntry
    <2>3. /\ mem' = [mem EXCEPT ![s] = file]
          /\ ledger' = [ledger EXCEPT ![batch[s]] = file]
          /\ UNCHANGED <<batch, cur, delivered, operator>>
          /\ pc[s] # "idle"
        BY <1>4 DEF LoadAndSelect, world, others
    <2> HIDE DEF file
    <2>4. Goto(s, "done") \/ Goto(s, "status")
        BY <1>4 DEF LoadAndSelect
    <2>5. \A b \in Batches : (ledger[b] # Nobody => Backed(ledger[b], delivered[b]))'
        BY <2>2, <2>3 DEF ConfirmedInv, TypeOK
    <2>6. \A t \in Senders :
              /\ (pc[t] = "idle" => mem[t] = EmptyLedger)'
              /\ (pc[t] # "idle" => Backed(mem[t], delivered[batch[t]]))'
              /\ (pc[t] = "accepted" => delivered[batch[t]][cur[t]] > 0)'
        BY <2>2, <2>3, <2>4 DEF ConfirmedInv, TypeOK, Goto
    <2>7. QED BY <2>3, <2>5, <2>6 DEF ConfirmedInv
<1>5. ASSUME NEW s \in Senders, NextDocument(s) PROVE ConfirmedInv'
    <2>1. PICK k \in todo[s] : cur' = [cur EXCEPT ![s] = k] /\ Save(s, k, "api_started")
        BY <1>5 DEF NextDocument
    <2>2. k \in Keys /\ \A t \in Senders \ {s} : cur'[t] = cur[t]
        BY <2>1 DEF TypeOK
    <2>3. pc[s] # "idle" /\ Goto(s, "gate") /\ UNCHANGED <<batch, operator>>
        BY <1>5 DEF NextDocument, others
    <2>4. QED BY <2>1, <2>2, <2>3, ConfirmedSave DEF Control, States
<1>6. ASSUME NEW s \in Senders, HaltedBeforeCall(s) PROVE ConfirmedInv'
    <2>1. /\ pc[s] = "gate" /\ Goto(s, "done") /\ UNCHANGED <<batch, cur, operator>>
          /\ Save(s, cur[s], "pending")
        BY <1>6 DEF HaltedBeforeCall, others
    <2>2. cur[s] \in Keys
        BY <2>1 DEF Running, InFlight
    <2>3. QED BY <2>1, <2>2, ConfirmedSave DEF Control, States
<1>7. ASSUME NEW s \in Senders, Post(s) PROVE ConfirmedInv'
    <2>1. /\ pc[s] = "post"
          /\ UNCHANGED <<ledger, mem, batch, cur, operator>>
        BY <1>7 DEF Post, disk, others
    <2>2. \/ Goto(s, "accepted") /\ Copy(s)
          \/ \E label \in Control \ {"idle", "accepted"} : Goto(s, label)
        BY <1>7 DEF Post, RateLimited, Control, Answers
    <2>3. CASE Goto(s, "accepted") /\ Copy(s)
        <3>1. batch[s] \in Batches /\ cur[s] \in Keys
            BY <2>1 DEF Running, InFlight
        <3>2. delivered'[batch[s]][cur[s]] > 0
            BY <2>3, <3>1, CopyLands DEF TypeOK
        <3>3. \A b \in Batches : (ledger[b] # Nobody => Backed(ledger[b], delivered[b]))'
            BY <2>1, BackedStays DEF ConfirmedInv
        <3>4. \A t \in Senders :
                 /\ (pc[t] = "idle" => mem[t] = EmptyLedger)'
                 /\ (pc[t] # "idle" => Backed(mem[t], delivered[batch[t]]))'
            BY <2>1, <2>3, BackedStays DEF ConfirmedInv, Goto, TypeOK, Running
        <3>5. \A t \in Senders : (pc[t] = "accepted" => delivered[batch[t]][cur[t]] > 0)'
            BY <2>1, <2>3, <3>2, CopiesStay
            DEF ConfirmedInv, Goto, TypeOK, Running, InFlight, Answers
        <3>6. (operator # NoClear => Backed(operator.file, delivered[operator.batch]))'
            BY <2>1, BackedStays DEF ConfirmedInv, TypeOK, Clearing
        <3>7. QED BY <3>3, <3>4, <3>5, <3>6 DEF ConfirmedInv
    <2>4. QED BY <2>1, <2>2, <2>3, ConfirmedQuiet
<1>8. ASSUME NEW s \in Senders, Record(s) PROVE ConfirmedInv'
    <2>1. /\ pc[s] \in Answers /\ UNCHANGED <<batch, cur, operator>>
          /\ Save(s, cur[s], Recorded[pc[s]])
          /\ Goto(s, "next") \/ Goto(s, "done")
        BY <1>8 DEF Record, others
    <2>2. /\ cur[s] \in Keys /\ Recorded[pc[s]] \in States
          /\ Recorded[pc[s]] = "confirmed" => delivered[batch[s]][cur[s]] > 0
          /\ pc[s] # "idle"
        BY <2>1, RecordedType DEF Running, InFlight, Answers, Recorded, ConfirmedInv
    <2>3. QED BY <2>1, <2>2, ConfirmedSave DEF Control
<1>9. ASSUME NEW s \in Senders, Finish(s) \/ Crash(s) PROVE ConfirmedInv'
    BY <1>9, ConfirmedExit DEF Finish, Crash, disk, others
<1>10. ASSUME NEW d \in Dates, NEW k \in Keys, ClearRead(d, k) PROVE ConfirmedInv'
    <2>1. newest[d] \in Batches
        BY <1>10 DEF ClearRead, TypeOK
    <2>2. QED
        BY <1>10, <2>1 DEF ClearRead, ConfirmedInv, disk, local, world
<1>11. ASSUME ClearSave PROVE ConfirmedInv'
    <2> DEFINE file == SetEntry(operator.file, operator.key, "pending")
    <2>1. operator \in Clearing /\ ledger' = [ledger EXCEPT ![operator.batch] = file]
        BY <1>11 DEF ClearSave, TypeOK
    <2>2. Backed(file, delivered[operator.batch])
        BY <1>11, <2>1, SetEntryConfirms
        DEF ClearSave, ConfirmedInv, Backed, Clearing, States
    <2> HIDE DEF file
    <2>3. QED
        BY <1>11, <2>1, <2>2 DEF ClearSave, ConfirmedInv, TypeOK, Clearing, local, world
<1>12. CASE UNCHANGED vars
    BY <1>12 DEF vars, ConfirmedInv
<1>13. QED
    BY <1>1, <1>2, <1>3, <1>4, <1>5, <1>6, <1>7, <1>8, <1>9, <1>10, <1>11, <1>12
    DEF Next, Step

\* No crash, retry, clear or stale save ever confirms a document that did not
\* reach the chat.
THEOREM ConfirmedCorrect == Spec => []ConfirmedMeansDelivered
<1>1. ConfirmedInv => ConfirmedMeansDelivered
    BY DEF ConfirmedInv, ConfirmedMeansDelivered, Backed
<1>2. TypeInv /\ ConfirmedInv /\ [Next]_vars => ConfirmedInv'
    BY ConfirmedStep
<1>3. QED BY <1>1, <1>2, ConfirmedInit, TypeInvariant, PTL DEF Spec

-------------------------------------------------------------------------------
(* One batch per target date.                                                *)

\* The channel lock: a run holds it from its first step to its last.
LEMMA LockStep == TypeInv /\ LockInv /\ [Next]_vars => LockInv'
<1> SUFFICES ASSUME TypeInv, LockInv, [Next]_vars PROVE LockInv'
    OBVIOUS
<1> USE NobodyAssumption DEF TypeInv
<1>1. ASSUME NEW s \in Senders, NEW label \in Control,
             pc[s] # "idle", Goto(s, label), UNCHANGED <<lock, batch, built>>
      PROVE  LockInv'
    BY <1>1 DEF LockInv, Goto, TypeOK
<1>2. ASSUME NEW s \in Senders, Step(s), ~Finish(s) PROVE LockInv'
    <2>1. pc[s] # "idle" /\ UNCHANGED <<lock, batch, built>>
        BY <1>2 DEF Step, GiveUp, CheckSiblings, LoadAndSelect, PreStatus, NextDocument,
            NoMoreDocuments, PassGate, HaltedBeforeCall, Post, Record, Answers,
            disk, local
    <2>2. \E label \in Control : Goto(s, label)
        <3>1. ASSUME Post(s) PROVE \E label \in Control : Goto(s, label)
            BY <3>1 DEF Post, RateLimited, Control, Answers
        <3>2. QED
            BY <1>2, <3>1 DEF Step, GiveUp, CheckSiblings, LoadAndSelect, PreStatus,
                NextDocument, NoMoreDocuments, PassGate, HaltedBeforeCall, Record,
                Control
    <2>3. QED BY <2>1, <2>2, <1>1
<1>3. ASSUME NEW s \in Senders, Finish(s) \/ Crash(s) PROVE LockInv'
    <2>1. pc[s] # "idle" /\ Exit(s) /\ built' = built
        BY <1>3 DEF Finish, Crash, disk
    <2>2. QED BY <2>1 DEF Exit, Goto, LockInv, TypeOK
<1>4. ASSUME NEW s \in Senders, NEW b \in Batches, Start(s, b) PROVE LockInv'
    BY <1>4 DEF Start, Goto, LockInv, TypeOK, disk
<1>5. ASSUME NEW b \in Batches, BuildBatch(b) \/ MoveBarrier(b) PROVE LockInv'
    BY <1>5 DEF BuildBatch, MoveBarrier, LockInv, local, disk
<1>6. ASSUME NEW d \in Dates, NEW k \in Keys, ClearRead(d, k) PROVE LockInv'
    BY <1>6 DEF ClearRead, LockInv, local, disk
<1>7. ASSUME ClearSave PROVE LockInv'
    BY <1>7 DEF ClearSave, LockInv, local
<1>8. CASE UNCHANGED vars
    BY <1>8 DEF vars, LockInv
<1>9. QED
    BY <1>2, <1>3, <1>4, <1>5, <1>6, <1>7, <1>8 DEF Next

\* Who writes which ledger file, and what the file shows afterwards.
LEMMA LedgerWrites ==
    ASSUME TypeInv, FileInv, [Next]_vars, NEW b \in Batches, ledger'[b] # ledger[b]
    PROVE  /\ \/ \E s \in Senders : pc[s] # "idle" /\ batch[s] = b
              \/ operator # NoClear /\ operator.batch = b
           /\ Attempted(ledger[b]) => Attempted(ledger'[b])
           /\ ledger'[b] # Nobody
<1> USE DEF TypeInv
<1>1. ASSUME NEW s \in Senders, NEW k \in Keys, NEW state \in States,
             pc[s] # "idle", Save(s, k, state)
      PROVE  batch[s] = b /\ Attempted(ledger'[b])
    <2>1. batch[s] \in Batches
        BY <1>1 DEF Running
    <2>2. batch[s] = b /\ ledger'[b] = SetEntry(mem[s], k, state) /\ mem[s] \in LedgerFile
        BY <1>1, <2>1, SaveFacts
    <2>3. QED BY <2>2, SetEntryAttempts
<1>2. ASSUME NEW s \in Senders, LoadAndSelect(s)
      PROVE  /\ pc[s] # "idle" /\ batch[s] = b
             /\ ledger[b] = Nobody /\ ledger'[b] = EmptyLedger
    <2>1. batch[s] \in Batches
        BY <1>2 DEF LoadAndSelect, Running
    <2>2. QED BY <1>2, <2>1 DEF LoadAndSelect, TypeOK
<1>3. ASSUME NEW s \in Senders, NextDocument(s)
      PROVE  pc[s] # "idle" /\ batch[s] = b /\ Attempted(ledger'[b])
    BY <1>3, <1>1 DEF NextDocument, TypeOK, States
<1>4. ASSUME NEW s \in Senders, HaltedBeforeCall(s)
      PROVE  pc[s] # "idle" /\ batch[s] = b /\ Attempted(ledger'[b])
    BY <1>4, <1>1 DEF HaltedBeforeCall, Running, InFlight, States
<1>5. ASSUME NEW s \in Senders, Record(s)
      PROVE  pc[s] # "idle" /\ batch[s] = b /\ Attempted(ledger'[b])
    <2>1. cur[s] \in Keys /\ pc[s] # "idle" /\ Recorded[pc[s]] \in States
        BY <1>5, RecordedType DEF Record, Running, InFlight, Answers
    <2>2. QED BY <1>5, <1>1, <2>1 DEF Record
<1>6. ASSUME ClearSave
      PROVE  operator # NoClear /\ operator.batch = b /\ Attempted(ledger'[b])
    <2>1. operator # NoClear /\ operator \in Clearing
        BY <1>6 DEF ClearSave, TypeOK
    <2>2. /\ operator.batch = b
          /\ ledger'[b] = SetEntry(operator.file, operator.key, "pending")
        BY <1>6, <2>1 DEF ClearSave, TypeOK, Clearing
    <2>3. QED BY <2>1, <2>2, SetEntryAttempts DEF Clearing, States
<1>7. ledger' = ledger \/ ClearSave \/ \E s \in Senders :
          LoadAndSelect(s) \/ NextDocument(s) \/ HaltedBeforeCall(s) \/ Record(s)
    BY DEF Next, Step, vars, BuildBatch, MoveBarrier, Start, GiveUp, CheckSiblings,
        PreStatus, NoMoreDocuments, PassGate, Post, Finish, Crash, ClearRead, disk
<1>8. EmptyLedger # Nobody
    <2>1. EmptyLedger \in LedgerFile
        BY DEF EmptyLedger, LedgerFile, Entry, DefaultEntry, States
    <2>2. QED BY <2>1, NobodyAssumption
<1>9. \A file : Attempted(file) => file # Nobody
    BY DEF Attempted
<1>10. QED BY <1>2, <1>3, <1>4, <1>5, <1>6, <1>7, <1>8, <1>9

\* Unbuilt batches have no ledger; the operator's snapshot is of a real file.
LEMMA FileStep == TypeInv /\ LockInv /\ FileInv /\ [Next]_vars => FileInv'
<1> SUFFICES ASSUME TypeInv, LockInv, FileInv, [Next]_vars PROVE FileInv'
    OBVIOUS
<1>1. built \subseteq built'
    BY DEF Next, Step, vars, BuildBatch, MoveBarrier, Start, GiveUp, CheckSiblings,
        LoadAndSelect, PreStatus, NextDocument, NoMoreDocuments, PassGate,
        HaltedBeforeCall, Post, Record, Finish, Crash, ClearRead, ClearSave, disk
<1>2. ASSUME NEW b \in Batches, b \notin built' PROVE ledger'[b] = Nobody
    <2>1. operator # NoClear => operator.batch \in built
        BY DEF FileInv, TypeInv, TypeOK, Clearing
    <2>2. QED BY <1>1, <1>2, <2>1, LedgerWrites DEF FileInv, LockInv
<1>3. \A b \in Batches : ledger[b] # Nobody => ledger'[b] # Nobody
    BY LedgerWrites
<1>4. ASSUME operator' # NoClear PROVE ledger'[operator'.batch] # Nobody
    <2>1. CASE operator' = operator
        BY <2>1, <1>3, <1>4 DEF FileInv, TypeInv, TypeOK, Clearing
    <2>2. ASSUME NEW d \in Dates, NEW k \in Keys, ClearRead(d, k)
          PROVE  ledger'[operator'.batch] # Nobody
        BY <2>2 DEF ClearRead, disk
    <2>3. QED
        BY <1>4, <2>1, <2>2 DEF Next, Step, vars, BuildBatch, MoveBarrier, Start, GiveUp,
            CheckSiblings, LoadAndSelect, PreStatus, NextDocument, NoMoreDocuments,
            PassGate, HaltedBeforeCall, Post, Record, Finish, Crash, ClearSave, others
<1>5. QED BY <1>2, <1>4 DEF FileInv

\* Only a sender in its API call puts a first copy of a batch in the chat.
LEMMA ShippedBySender ==
    ASSUME TypeInv, [Next]_vars, NEW b \in Batches, Shipped(b)', ~Shipped(b)
    PROVE  \E s \in Senders : pc[s] = "post" /\ batch[s] = b
<1> USE DEF TypeInv
<1>1. ASSUME NEW s \in Senders, pc[s] = "post", Copy(s) PROVE batch[s] = b
    <2>1. batch[s] \in Batches /\ cur[s] \in Keys
        BY <1>1 DEF Running, InFlight
    <2>2. QED BY <1>1, <2>1, CopyLands DEF Shipped
<1>2. delivered' # delivered
    BY DEF Shipped
<1>3. \E s \in Senders : pc[s] = "post" /\ Copy(s)
    BY <1>2 DEF Next, Step, vars, BuildBatch, MoveBarrier, Start, GiveUp, CheckSiblings,
        LoadAndSelect, PreStatus, NextDocument, NoMoreDocuments, PassGate,
        HaltedBeforeCall, Post, Record, Finish, Crash, ClearRead, ClearSave,
        NoCopy, world
<1>4. QED BY <1>1, <1>3

\* A run keeps its batch, passes the sibling check before the ledger is loaded
\* and records api_started before the gate.
LEMMA RunOrder ==
    ASSUME TypeInv, [Next]_vars, NEW s \in Senders, pc'[s] \in Cleared
    PROVE  /\ batch'[s] = batch[s] /\ batch[s] \in Batches
           /\ pc[s] \in Cleared \/ (CheckSiblings(s) /\ ~SiblingAttempt(batch[s]))
           /\ pc'[s] \in InFlight => pc[s] \in InFlight \/ NextDocument(s)
<1> DEFINE Goal == /\ batch'[s] = batch[s] /\ batch[s] \in Batches
                   /\ pc[s] \in Cleared \/ (CheckSiblings(s) /\ ~SiblingAttempt(batch[s]))
                   /\ pc'[s] \in InFlight => pc[s] \in InFlight \/ NextDocument(s)
<1>1. pc \in [Senders -> Control] /\ batch \in [Senders -> Batches \cup {Nobody}]
    BY DEF TypeInv, TypeOK
<1>2. \A t \in Senders : pc[t] # "idle" => batch[t] \in Batches
    BY DEF TypeInv, Running
<1>3. CASE pc'[s] = pc[s] /\ batch'[s] = batch[s]
    BY <1>2, <1>3 DEF Cleared, InFlight, Answers
\* Moves within the part of a run that has passed the sibling check.
<1>4. ASSUME NEW t \in Senders, NEW label, Goto(t, label), batch' = batch,
             pc[t] \in Cleared, label \in InFlight => pc[t] \in InFlight \/ NextDocument(t)
      PROVE  Goal
    <2>1. CASE t = s
        BY <1>1, <1>2, <1>4, <2>1 DEF Goto, Cleared, InFlight, Answers
    <2>2. CASE t # s
        BY <1>1, <1>3, <1>4, <2>2 DEF Goto
    <2>3. QED BY <2>1, <2>2
\* Moves to a label outside of it.
<1>5. ASSUME NEW t \in Senders, NEW label \in {"idle", "preflight", "done"},
             Goto(t, label), \A u \in Senders \ {t} : batch'[u] = batch[u]
      PROVE  Goal
    <2>1. t # s
        BY <1>1, <1>5 DEF Goto, Cleared, InFlight, Answers
    <2>2. QED BY <1>1, <1>3, <1>5, <2>1 DEF Goto
<1>6. ASSUME NEW t \in Senders, Step(t) PROVE Goal
    <2>1. CASE GiveUp(t) \/ NoMoreDocuments(t) \/ HaltedBeforeCall(t)
        BY <2>1, <1>5 DEF GiveUp, NoMoreDocuments, HaltedBeforeCall, local
    <2>2. CASE CheckSiblings(t)
        <3>1. CASE SiblingAttempt(batch[t])
            BY <2>2, <3>1, <1>5 DEF CheckSiblings, local
        <3>2. CASE ~SiblingAttempt(batch[t])
            <4>1. Goto(t, "load") /\ batch' = batch /\ pc[t] = "preflight"
                BY <2>2, <3>2 DEF CheckSiblings, local
            <4>2. CASE t = s
                BY <1>1, <1>2, <2>2, <3>2, <4>1, <4>2 DEF Goto, InFlight, Answers
            <4>3. CASE t # s
                BY <1>1, <1>3, <4>1, <4>3 DEF Goto
            <4>4. QED BY <4>2, <4>3
        <3>3. QED BY <3>1, <3>2
    <2>3. CASE LoadAndSelect(t)
        <3>1. /\ pc[t] = "load" /\ batch' = batch
              /\ Goto(t, "done") \/ Goto(t, "status")
            BY <2>3 DEF LoadAndSelect
        <3>2. QED BY <3>1, <1>4, <1>5 DEF Cleared, InFlight, Answers
    <2>4. CASE PreStatus(t)
        <3>1. /\ pc[t] = "status" /\ batch' = batch
              /\ Goto(t, "done") \/ Goto(t, "next")
            BY <2>4 DEF PreStatus, local
        <3>2. QED BY <3>1, <1>4, <1>5 DEF Cleared, InFlight, Answers
    <2>5. CASE NextDocument(t)
        <3>1. pc[t] = "next" /\ batch' = batch /\ Goto(t, "gate")
            BY <2>5 DEF NextDocument
        <3>2. QED BY <2>5, <3>1, <1>4 DEF Cleared
    <2>6. CASE PassGate(t)
        <3>1. pc[t] = "gate" /\ batch' = batch /\ Goto(t, "post")
            BY <2>6 DEF PassGate, local
        <3>2. QED BY <3>1, <1>4 DEF Cleared, InFlight
    <2>7. CASE Post(t)
        <3>1. pc[t] = "post" /\ batch' = batch /\ \E label : Goto(t, label)
            BY <2>7 DEF Post, RateLimited
        <3>2. QED BY <3>1, <1>4 DEF Cleared, InFlight
    <2>8. CASE Record(t)
        <3>1. /\ pc[t] \in Answers /\ batch' = batch
              /\ Goto(t, "next") \/ Goto(t, "done")
            BY <2>8 DEF Record
        <3>2. QED BY <3>1, <1>4 DEF Cleared, InFlight
    <2>9. CASE Finish(t)
        BY <2>9, <1>1, <1>5 DEF Finish, Exit
    <2>10. QED
        BY <1>6, <2>1, <2>2, <2>3, <2>4, <2>5, <2>6, <2>7, <2>8, <2>9 DEF Step
<1>7. ASSUME NEW t \in Senders, Crash(t) PROVE Goal
    BY <1>7, <1>1, <1>5 DEF Crash, Exit
<1>8. ASSUME NEW t \in Senders, NEW b \in Batches, Start(t, b) PROVE Goal
    BY <1>8, <1>1, <1>5 DEF Start
<1>9. CASE pc' = pc /\ batch' = batch
    BY <1>9, <1>3
<1>10. Goal
    BY <1>6, <1>7, <1>8, <1>9
    DEF Next, vars, BuildBatch, MoveBarrier, ClearRead, ClearSave, local
<1>11. QED BY <1>10

LEMMA ExclusionStep ==
    ASSUME TypeInv, TypeInv', LockInv, FileInv, ExclusionInv, [Next]_vars
    PROVE  ExclusionInv'
<1> USE DEF TypeInv
<1>1. \A b \in Batches : Attempted(ledger[b]) => Attempted(ledger'[b])
    BY LedgerWrites
<1>2. \A b \in Batches :
         Shipped(b)' => Shipped(b) \/ \E s \in Senders : pc[s] = "post" /\ batch[s] = b
    BY ShippedBySender
<1>3. \A s \in Senders : pc[s] = "post" =>
         /\ lock = s /\ Attempted(ledger[batch[s]])
         /\ \A c \in Batches :
               TargetDate[c] = TargetDate[batch[s]] /\ Shipped(c) => c = batch[s]
    BY DEF LockInv, ExclusionInv, InFlight, Cleared
<1>4. \A b \in Batches : Shipped(b)' => Attempted(ledger'[b])
    BY <1>1, <1>2, <1>3 DEF ExclusionInv
<1>5. OneBatchPerDate'
    <2>1. \A b, c \in Batches :
             TargetDate[b] = TargetDate[c] /\ Shipped(b) /\ Shipped(c) => b = c
        BY DEF ExclusionInv, OneBatchPerDate, Shipped
    <2>2. \A b, c \in Batches :
             TargetDate[b] = TargetDate[c] /\ Shipped(b)' /\ Shipped(c)' => b = c
        BY <1>2, <1>3, <2>1
    <2>3. QED BY <2>2 DEF OneBatchPerDate, Shipped
<1>6. ASSUME NEW s \in Senders, pc'[s] \in Cleared
      PROVE  /\ batch'[s] = batch[s] /\ batch[s] \in Batches
             /\ pc[s] \in Cleared \/ (CheckSiblings(s) /\ ~SiblingAttempt(batch[s]))
             /\ pc'[s] \in InFlight => pc[s] \in InFlight \/ NextDocument(s)
    BY <1>6, RunOrder
<1>7. ASSUME NEW s \in Senders, pc'[s] \in InFlight
      PROVE  Attempted(ledger'[batch'[s]])
    <2>1. batch'[s] = batch[s] /\ batch[s] \in Batches
        BY <1>6, <1>7 DEF Cleared
    <2>2. CASE pc[s] \in InFlight
        BY <2>1, <2>2, <1>1 DEF ExclusionInv
    <2>3. CASE NextDocument(s)
        <3>1. PICK k \in Keys : Save(s, k, "api_started")
            BY <2>3 DEF NextDocument, TypeOK
        <3>2. /\ ledger'[batch[s]] = SetEntry(mem[s], k, "api_started")
              /\ mem[s] \in LedgerFile
            BY <2>1, <3>1, SaveFacts DEF States
        <3>3. QED BY <2>1, <3>2, SetEntryAttempts DEF States
    <2>4. QED BY <1>6, <1>7, <2>2, <2>3 DEF Cleared
<1>8. ASSUME NEW s \in Senders, pc'[s] \in Cleared, NEW c \in Batches,
             TargetDate[c] = TargetDate[batch'[s]], Shipped(c)'
      PROVE  c = batch'[s]
    <2>1. batch'[s] = batch[s] /\ batch[s] \in Batches
        BY <1>6, <1>8
    <2>2. CASE pc[s] \in Cleared
        <3>1. lock = s
            BY <2>2 DEF LockInv, Cleared, InFlight, Answers
        <3>2. CASE Shipped(c)
            BY <1>8, <2>1, <2>2, <3>2 DEF ExclusionInv
        <3>3. QED BY <1>2, <1>3, <1>8, <2>1, <3>1, <3>2
    <2>3. CASE CheckSiblings(s) /\ ~SiblingAttempt(batch[s])
        <3>1. Shipped(c)
            BY <1>8, <2>3 DEF CheckSiblings, Shipped, world
        <3>2. Attempted(ledger[c]) /\ c \in built
            BY <3>1 DEF ExclusionInv, FileInv, Attempted
        <3>3. QED BY <1>8, <2>1, <2>3, <3>2 DEF SiblingAttempt, Siblings
    <2>4. QED BY <1>6, <1>8, <2>2, <2>3
<1>9. QED BY <1>4, <1>5, <1>7, <1>8 DEF ExclusionInv

\* Crashes, clears, retries and rebuilt batches never make two batches of one
\* target date reach the chat.
THEOREM OneBatchCorrect == Spec => []OneBatchPerDate
<1>1. Init => LockInv /\ FileInv /\ ExclusionInv
    BY DEF Init, LockInv, FileInv, ExclusionInv, OneBatchPerDate, Shipped, InFlight,
        Cleared, Answers
<1>2. ExclusionInv => OneBatchPerDate
    BY DEF ExclusionInv
<1>3. TypeInv /\ TypeInv' /\ LockInv /\ FileInv /\ ExclusionInv /\ [Next]_vars
        => LockInv' /\ FileInv' /\ ExclusionInv'
    BY LockStep, FileStep, ExclusionStep
<1>4. QED BY <1>1, <1>2, <1>3, TypeInvariant, PTL DEF Spec

\* A ledger that shows an attempt shows one for ever, so it blocks the sibling
\* batches of its date for ever.
THEOREM AttemptCorrect == Spec => AttemptIsForever
<1>1. Init => LockInv /\ FileInv
    BY DEF Init, LockInv, FileInv
<1>2. TypeInv /\ LockInv /\ FileInv /\ [Next]_vars => LockInv' /\ FileInv'
    BY LockStep, FileStep
<1>3. TypeInv /\ FileInv /\ [Next]_vars
        => [\A b \in Batches : Attempted(ledger[b]) => Attempted(ledger'[b])]_vars
    BY LedgerWrites
<1>4. QED BY <1>1, <1>2, <1>3, TypeInvariant, PTL DEF Spec, AttemptIsForever

-------------------------------------------------------------------------------
(* At most once.                                                             *)

\* One entry is edited; the others keep their state.
LEMMA SetEntryFacts ==
    ASSUME NEW file \in LedgerFile, NEW k \in Keys, NEW state \in States
    PROVE  /\ file[k].state # "confirmed" => SetEntry(file, k, state)[k].state = state
           /\ \A j \in Keys \ {k} : SetEntry(file, k, state)[j] = file[j]
BY DEF SetEntry, LedgerFile, Entry

\* A saved edit of the entry in hand, which is not confirmed: what the chat
\* holds is still accounted for if the new state accounts for the document.
LEMMA SaveAccounts ==
    ASSUME TypeOK, DeliveryAccounted, NEW s \in Senders, batch[s] \in Batches,
           ledger[batch[s]] = mem[s], NEW k \in Keys, NEW state \in States,
           Save(s, k, state), mem[s][k].state # "confirmed", delivered' = delivered,
           \/ state \in {"confirmed", "api_started", "unsure"}
           \/ delivered[batch[s]][k] = 0
    PROVE  /\ DeliveryAccounted'
           /\ ledger'[batch[s]] = mem'[s]
           /\ mem'[s][k].state = state
           /\ Sendable(mem[s]) \ {k} \subseteq Sendable(mem'[s])
<1> DEFINE file == SetEntry(mem[s], k, state)
<1>1. /\ mem'[s] = file /\ ledger'[batch[s]] = file
      /\ \A b \in Batches \ {batch[s]} : ledger'[b] = ledger[b]
      /\ mem[s] \in LedgerFile
    BY SaveFacts
<1>2. /\ file[k].state = state
      /\ \A j \in Keys \ {k} : file[j] = mem[s][j]
      /\ file \in LedgerFile
    BY <1>1, SetEntryFacts, SetEntryType
<1>3. file # Nobody
    BY <1>2, NobodyAssumption
<1> HIDE DEF file
<1>4. ASSUME NEW j \in Keys, delivered[batch[s]][j] > 0
      PROVE  file[j].state \in {"confirmed", "api_started", "unsure"}
    BY <1>2, <1>4 DEF DeliveryAccounted
<1>5. DeliveryAccounted'
    BY <1>1, <1>3, <1>4 DEF DeliveryAccounted
<1>6. Sendable(mem[s]) \ {k} \subseteq Sendable(mem'[s])
    BY <1>1, <1>2 DEF Sendable
<1>7. QED BY <1>1, <1>2, <1>5, <1>6

LEMMA OnceStep ==
    ASSUME Trusting, TypeInv, TypeInv', LockInv, OnceInv, [Next]_vars
    PROVE  OnceInv'
<1> USE DEF TypeInv
<1>1. operator' = NoClear
    <2>1. clears = 0 /\ MaxClears = 0 /\ operator = NoClear
        BY DEF Trusting, TypeOK, OnceInv
    <2>2. ~ClearSave /\ \A d \in Dates, k \in Keys : ~ClearRead(d, k)
        BY <2>1 DEF ClearSave, ClearRead
    <2>3. QED
        BY <2>1, <2>2 DEF Next, Step, vars, BuildBatch, MoveBarrier, Start, GiveUp,
            CheckSiblings, LoadAndSelect, PreStatus, NextDocument, NoMoreDocuments,
            PassGate, HaltedBeforeCall, Post, Record, Finish, Crash, others
\* Only one run is under way: its steps need to be looked at for it alone.
<1>2. ASSUME NEW s \in Senders, pc[s] # "idle",
             \A t \in Senders \ {s} : pc'[t] = pc[t],
             pc'[s] \in AtWork =>
                /\ ledger'[batch'[s]] = mem'[s] /\ todo'[s] \subseteq Sendable(mem'[s])
                /\ pc'[s] \in InFlight => mem'[s][cur'[s]].state = "api_started"
                /\ pc'[s] \in {"gate", "post", "refused"} =>
                      delivered'[batch'[s]][cur'[s]] = 0,
             DeliveryAccounted', AtMostOnce'
      PROVE  OnceInv'
    <2>1. \A t \in Senders \ {s} : pc'[t] = "idle"
        BY <1>2 DEF LockInv
    <2>2. "idle" \notin AtWork
        BY DEF AtWork, InFlight, Answers
    <2>3. QED
        BY <1>1, <1>2, <2>1, <2>2 DEF OnceInv, AtWork, InFlight, Answers
\* A step of the run that changes neither the ledger nor the chat.
<1>3. ASSUME NEW s \in Senders, NEW label \in Control, pc[s] # "idle", Goto(s, label),
             label \in InFlight => pc[s] \in {"gate", "post"},
             label \in AtWork => pc[s] \in AtWork,
             UNCHANGED <<ledger, mem, batch, todo, cur, delivered>>
      PROVE  OnceInv'
    <2>1. DeliveryAccounted' /\ AtMostOnce'
        BY <1>3 DEF OnceInv, DeliveryAccounted, AtMostOnce
    <2>2. pc'[s] = label /\ \A t \in Senders \ {s} : pc'[t] = pc[t]
        BY <1>3 DEF Goto, TypeOK
    <2>3. label \in AtWork =>
             /\ ledger[batch[s]] = mem[s] /\ todo[s] \subseteq Sendable(mem[s])
             /\ label \in InFlight => mem[s][cur[s]].state = "api_started"
             /\ label \in {"gate", "post", "refused"} => delivered[batch[s]][cur[s]] = 0
        BY <1>3 DEF OnceInv, AtWork, InFlight
    <2>4. QED BY <1>2, <1>3, <2>1, <2>2, <2>3
<1>4. ASSUME NEW b \in Batches, BuildBatch(b) \/ MoveBarrier(b) PROVE OnceInv'
    BY <1>4 DEF BuildBatch, MoveBarrier, OnceInv, DeliveryAccounted, AtMostOnce,
        disk, local, world, others
<1>5. ASSUME NEW s \in Senders, NEW b \in Batches, Start(s, b) PROVE OnceInv'
    <2>1. /\ pc' = [pc EXCEPT ![s] = "preflight"] /\ batch' = [batch EXCEPT ![s] = b]
          /\ UNCHANGED <<ledger, mem, todo, cur, delivered, operator>>
        BY <1>5 DEF Start, Goto, disk, world, others
    <2>2. pc'[s] = "preflight" /\ \A t \in Senders \ {s} :
             pc'[t] = pc[t] /\ batch'[t] = batch[t]
        BY <2>1 DEF TypeOK
    <2>3. QED
        BY <2>1, <2>2 DEF OnceInv, DeliveryAccounted, AtMostOnce, AtWork, InFlight, Answers
<1>6. ASSUME NEW s \in Senders,
             GiveUp(s) \/ CheckSiblings(s) \/ PreStatus(s) \/ NoMoreDocuments(s)
                \/ PassGate(s)
      PROVE  OnceInv'
    <2>1. CASE GiveUp(s) \/ NoMoreDocuments(s)
        BY <2>1, <1>3 DEF GiveUp, NoMoreDocuments, Control, AtWork, InFlight, Answers,
            disk, local, world
    <2>2. CASE CheckSiblings(s)
        BY <2>2, <1>3 DEF CheckSiblings, Control, AtWork, InFlight, Answers,
            disk, local, world
    <2>3. CASE PreStatus(s)
        BY <2>3, <1>3 DEF PreStatus, Control, AtWork, InFlight, Answers,
            disk, local, world
    <2>4. CASE PassGate(s)
        BY <2>4, <1>3 DEF PassGate, Control, AtWork, InFlight, Answers,
            disk, local, world
    <2>5. QED BY <1>6, <2>1, <2>2, <2>3, <2>4
<1>7. ASSUME NEW s \in Senders, LoadAndSelect(s) PROVE OnceInv'
    <2> DEFINE file == IF ledger[batch[s]] = Nobody THEN EmptyLedger ELSE ledger[batch[s]]
    <2>1. batch[s] \in Batches /\ pc[s] # "idle"
        BY <1>7 DEF LoadAndSelect, Running
    <2>2. /\ mem' = [mem EXCEPT ![s] = file]
          /\ ledger' = [ledger EXCEPT ![batch[s]] = file]
          /\ UNCHANGED <<batch, cur, delivered>>
          /\ \/ Goto(s, "done")
             \/ /\ Goto(s, "status")
                /\ \E chosen \in SUBSET Keys :
                      /\ chosen \subseteq Sendable(file)
                      /\ todo' = [todo EXCEPT ![s] = chosen]
        BY <1>7 DEF LoadAndSelect, world
    <2>3. file # Nobody
        <3>1. EmptyLedger \in LedgerFile
            BY DEF EmptyLedger, LedgerFile, Entry, DefaultEntry, States
        <3>2. QED BY <3>1, NobodyAssumption
    <2>4. DeliveryAccounted' /\ AtMostOnce'
        BY <2>1, <2>2, <2>3 DEF OnceInv, DeliveryAccounted, AtMostOnce, TypeOK
    <2> HIDE DEF file
    <2>5. mem'[s] = file /\ ledger'[batch'[s]] = file
        BY <2>1, <2>2 DEF TypeOK
    <2>6. /\ \A t \in Senders \ {s} : pc'[t] = pc[t]
          /\ pc'[s] = "done" \/ (pc'[s] = "status" /\ todo'[s] \subseteq Sendable(file))
        BY <2>2 DEF Goto, TypeOK
    <2>7. QED BY <1>2, <2>1, <2>4, <2>5, <2>6 DEF AtWork, InFlight, Answers
<1>8. ASSUME NEW s \in Senders, NextDocument(s) PROVE OnceInv'
    <2>1. PICK k \in todo[s] :
             /\ cur' = [cur EXCEPT ![s] = k]
             /\ todo' = [todo EXCEPT ![s] = @ \ {k}]
             /\ Save(s, k, "api_started")
        BY <1>8 DEF NextDocument
    <2>2. /\ pc[s] = "next" /\ Goto(s, "gate")
          /\ batch' = batch /\ delivered' = delivered
        BY <1>8 DEF NextDocument, world
    <2>3. /\ k \in Keys /\ batch[s] \in Batches
          /\ ledger[batch[s]] = mem[s] /\ todo[s] \subseteq Sendable(mem[s])
          /\ DeliveryAccounted /\ AtMostOnce
        BY <2>1, <2>2 DEF OnceInv, AtWork, Sendable, Running
    <2>4. mem[s][k].state \in {"pending", "failed"} /\ delivered[batch[s]][k] = 0
        <3>1. mem[s][k].state \in {"pending", "failed"}
            BY <2>1, <2>3 DEF Sendable
        <3>2. delivered[batch[s]][k] \in 0..MaxCopies
            BY <2>3 DEF TypeOK
        <3>3. ~(delivered[batch[s]][k] > 0)
            BY <2>3, <3>1 DEF DeliveryAccounted
        <3>4. QED BY <3>1, <3>2, <3>3, BoundAssumption
    <2>5. /\ DeliveryAccounted' /\ ledger'[batch[s]] = mem'[s]
          /\ mem'[s][k].state = "api_started"
          /\ Sendable(mem[s]) \ {k} \subseteq Sendable(mem'[s])
        BY <2>1, <2>2, <2>3, <2>4, SaveAccounts DEF States
    <2>6. /\ cur'[s] = k /\ todo'[s] = todo[s] \ {k} /\ pc'[s] = "gate"
          /\ \A t \in Senders \ {s} : pc'[t] = pc[t]
        BY <2>1, <2>2 DEF Goto, TypeOK
    <2>7. AtMostOnce'
        BY <2>2, <2>3 DEF AtMostOnce
    <2>8. QED BY <1>2, <2>2, <2>3, <2>4, <2>5, <2>6, <2>7
<1>9. ASSUME NEW s \in Senders, HaltedBeforeCall(s) PROVE OnceInv'
    <2>1. /\ pc[s] = "gate" /\ Goto(s, "done") /\ Save(s, cur[s], "pending")
          /\ UNCHANGED <<batch, delivered>>
        BY <1>9 DEF HaltedBeforeCall, world
    <2>2. /\ cur[s] \in Keys /\ batch[s] \in Batches /\ ledger[batch[s]] = mem[s]
          /\ mem[s][cur[s]].state = "api_started" /\ delivered[batch[s]][cur[s]] = 0
          /\ DeliveryAccounted /\ AtMostOnce
        BY <2>1 DEF OnceInv, AtWork, InFlight, Running
    <2>3. DeliveryAccounted'
        BY <2>1, <2>2, SaveAccounts DEF States
    <2>4. AtMostOnce'
        BY <2>1, <2>2 DEF AtMostOnce
    <2>5. pc'[s] = "done" /\ \A t \in Senders \ {s} : pc'[t] = pc[t]
        BY <2>1 DEF Goto, TypeOK
    <2>6. QED BY <1>2, <2>1, <2>3, <2>4, <2>5 DEF AtWork, InFlight, Answers
\* A call in flight that may leave the first copy, and no other.
<1>10. ASSUME NEW s \in Senders, pc[s] = "post", Copy(s), UNCHANGED ledger
       PROVE  DeliveryAccounted' /\ AtMostOnce'
    <2>1. /\ cur[s] \in Keys /\ batch[s] \in Batches /\ ledger[batch[s]] = mem[s]
          /\ mem[s][cur[s]].state = "api_started" /\ delivered[batch[s]][cur[s]] = 0
          /\ DeliveryAccounted /\ AtMostOnce /\ mem[s] \in LedgerFile
        BY <1>10 DEF OnceInv, AtWork, InFlight, Running, TypeOK
    <2>2. /\ delivered'[batch[s]][cur[s]] = 1
          /\ \A b \in Batches, k \in Keys :
                b # batch[s] \/ k # cur[s] => delivered'[b][k] = delivered[b][k]
        BY <1>10, <2>1, CopyLands
    <2>3. DeliveryAccounted'
        BY <1>10, <2>1, <2>2, NobodyAssumption DEF DeliveryAccounted
    <2>4. AtMostOnce'
        BY <2>1, <2>2 DEF AtMostOnce
    <2>5. QED BY <2>3, <2>4
<1>11. ASSUME NEW s \in Senders, Post(s) PROVE OnceInv'
    <2>1. pc[s] = "post" /\ UNCHANGED <<ledger, batch, mem, todo, cur>>
        BY <1>11 DEF Post, disk
    <2>2. \/ NoCopy /\ \E label \in {"refused", "doubt", "gate"} : Goto(s, label)
          \/ Copy(s) /\ \E label \in {"accepted", "rerouted", "doubt"} : Goto(s, label)
        BY <1>11 DEF Post, RateLimited, Trusting
    <2>3. CASE NoCopy /\ \E label \in {"refused", "doubt", "gate"} : Goto(s, label)
        BY <2>1, <2>3, <1>3 DEF NoCopy, Control, AtWork, InFlight, Answers
    <2>4. CASE Copy(s) /\ \E label \in {"accepted", "rerouted", "doubt"} : Goto(s, label)
        <3>1. DeliveryAccounted' /\ AtMostOnce'
            BY <1>10, <2>1, <2>4
        <3>2. /\ pc'[s] \in {"accepted", "rerouted", "doubt"}
              /\ \A t \in Senders \ {s} : pc'[t] = pc[t]
            BY <2>4 DEF Goto, TypeOK
        <3>3. /\ ledger[batch[s]] = mem[s] /\ todo[s] \subseteq Sendable(mem[s])
              /\ mem[s][cur[s]].state = "api_started"
            BY <2>1 DEF OnceInv, AtWork, InFlight
        <3>4. QED BY <1>2, <2>1, <3>1, <3>2, <3>3
    <2>5. QED BY <2>2, <2>3, <2>4
<1>12. ASSUME NEW s \in Senders, Record(s) PROVE OnceInv'
    <2>1. /\ pc[s] \in Answers /\ Save(s, cur[s], Recorded[pc[s]])
          /\ Goto(s, "next") \/ Goto(s, "done")
          /\ UNCHANGED <<batch, todo, delivered>>
        BY <1>12 DEF Record, world
    <2>2. /\ cur[s] \in Keys /\ batch[s] \in Batches /\ ledger[batch[s]] = mem[s]
          /\ mem[s][cur[s]].state = "api_started" /\ todo[s] \subseteq Sendable(mem[s])
          /\ DeliveryAccounted /\ AtMostOnce /\ pc[s] # "idle"
        BY <2>1 DEF OnceInv, AtWork, InFlight, Answers, Running
    <2>3. /\ Recorded[pc[s]] \in States
          /\ \/ Recorded[pc[s]] \in {"confirmed", "api_started", "unsure"}
             \/ delivered[batch[s]][cur[s]] = 0
        BY <2>1, RecordedType DEF Answers, Recorded, OnceInv
    <2>4. /\ DeliveryAccounted' /\ ledger'[batch[s]] = mem'[s]
          /\ Sendable(mem[s]) \ {cur[s]} \subseteq Sendable(mem'[s])
        BY <2>1, <2>2, <2>3, SaveAccounts
    <2>5. cur[s] \notin todo[s]
        BY <2>2 DEF Sendable
    <2>6. AtMostOnce'
        BY <2>1, <2>2 DEF AtMostOnce
    <2>7. pc'[s] \in {"next", "done"} /\ \A t \in Senders \ {s} : pc'[t] = pc[t]
        BY <2>1 DEF Goto, TypeOK
    <2>8. QED
        BY <1>2, <2>1, <2>2, <2>4, <2>5, <2>6, <2>7 DEF InFlight, Answers
<1>13. ASSUME NEW s \in Senders, Finish(s) \/ Crash(s) PROVE OnceInv'
    <2>1. pc[s] # "idle" /\ Exit(s) /\ UNCHANGED ledger
        BY <1>13 DEF Finish, Crash, disk
    <2>2. delivered' = delivered \/ (pc[s] = "post" /\ Copy(s))
        BY <1>13 DEF Finish, Crash, NoCopy, world
    <2>3. DeliveryAccounted' /\ AtMostOnce'
        BY <1>10, <2>1, <2>2 DEF OnceInv, DeliveryAccounted, AtMostOnce
    <2>4. pc'[s] = "idle" /\ \A t \in Senders \ {s} : pc'[t] = pc[t]
        BY <2>1 DEF Exit, Goto, TypeOK
    <2>5. QED BY <1>2, <2>1, <2>3, <2>4 DEF AtWork, InFlight, Answers
<1>14. CASE UNCHANGED vars
    BY <1>14 DEF vars, OnceInv, DeliveryAccounted, AtMostOnce
<1>15. CASE ClearSave \/ \E d \in Dates, k \in Keys : ClearRead(d, k)
    <2>1. clears = 0 /\ MaxClears = 0 /\ operator = NoClear
        BY DEF Trusting, TypeOK, OnceInv
    <2>2. QED BY <1>15, <2>1 DEF ClearSave, ClearRead
<1>16. QED
    BY <1>4, <1>5, <1>6, <1>7, <1>8, <1>9, <1>11, <1>12, <1>13, <1>14, <1>15
    DEF Next, Step

\* When nobody clears entries by hand and a refused call delivered nothing, no
\* document reaches the chat twice, whatever runs, crashes, times out or retries.
THEOREM OnceCorrect ==
    ASSUME Trusting
    PROVE  Spec => [](AtMostOnce /\ DeliveryAccounted)
<1>1. Init => LockInv /\ OnceInv
    BY DEF Init, LockInv, OnceInv, DeliveryAccounted, AtMostOnce, InFlight, AtWork,
        Answers
<1>2. OnceInv => AtMostOnce /\ DeliveryAccounted
    BY DEF OnceInv
<1>3. TypeInv /\ TypeInv' /\ LockInv /\ OnceInv /\ [Next]_vars => LockInv' /\ OnceInv'
    BY LockStep, OnceStep
<1>4. QED BY <1>1, <1>2, <1>3, TypeInvariant, PTL DEF Spec

\* Under the same conditions whatever is in the chat is accounted for by an entry
\* that no later run selects.
THEOREM AccountedCorrect ==
    ASSUME Trusting
    PROVE  Spec => []DeliveryAccounted
<1>1. AtMostOnce /\ DeliveryAccounted => DeliveryAccounted
    OBVIOUS
<1>2. QED BY <1>1, OnceCorrect, PTL

-------------------------------------------------------------------------------
(* Calls after a halt.  While the barrier bars a batch no sender of it passes  *)
(* the gate, so the one call that may go out is the one past the gate already: *)
(* as long as it is not made, none was.                                        *)

HaltInv ==
    \A b \in barred :
        /\ calls[b] <= 1
        /\ \A s \in Senders : pc[s] = "post" /\ batch[s] = b => calls[b] = 0

LEMMA HaltStep == TypeInv /\ LockInv /\ HaltInv /\ [Next]_vars => HaltInv'
<1> SUFFICES ASSUME TypeInv, LockInv, HaltInv, [Next]_vars PROVE HaltInv'
    OBVIOUS
<1> USE NobodyAssumption DEF TypeInv
\* A sender that does not go to its call, and makes none.
<1>1. ASSUME NEW s \in Senders, NEW label \in Control \ {"post"},
             Goto(s, label), UNCHANGED <<barred, calls>>,
             \A t \in Senders \ {s} : batch'[t] = batch[t]
      PROVE  HaltInv'
    BY <1>1 DEF HaltInv, Goto, TypeOK
<1>2. ASSUME NEW b \in Batches, MoveBarrier(b) PROVE HaltInv'
    <2>1. /\ pc' = pc /\ batch' = batch /\ barred' \subseteq barred \cup {b}
          /\ calls'[b] = 0 /\ \A c \in Batches \ {b} : calls'[c] = calls[c]
        BY <1>2 DEF MoveBarrier, local, TypeOK
    <2>2. QED BY <2>1 DEF HaltInv, TypeOK
<1>3. ASSUME NEW s \in Senders, PassGate(s) PROVE HaltInv'
    BY <1>3 DEF PassGate, Goto, HaltInv, TypeOK, local, world
<1>4. ASSUME NEW s \in Senders, Post(s) PROVE HaltInv'
    <2>1. /\ pc[s] = "post" /\ batch[s] \in Batches
          /\ UNCHANGED <<barred, batch>>
          /\ \A b \in Batches \ {batch[s]} : calls'[b] = calls[b]
          /\ batch[s] \in barred /\ calls[batch[s]] = 0 => calls'[batch[s]] = 1
        BY <1>4 DEF Post, Running, TypeOK
    <2>2. pc'[s] # "post" /\ \A t \in Senders \ {s} : pc'[t] = pc[t]
        BY <1>4 DEF Post, RateLimited, Goto, TypeOK
    <2>3. \A t \in Senders \ {s} : pc[t] # "post"
        BY <2>1 DEF LockInv
    <2>4. \A t \in Senders : pc'[t] # "post"
        BY <2>2, <2>3
    <2>5. ASSUME NEW b \in barred PROVE calls'[b] <= 1
        <3>1. b \in Batches /\ calls[b] <= 1
            BY DEF HaltInv, TypeOK
        <3>2. b = batch[s] => calls[b] = 0
            BY <2>1 DEF HaltInv
        <3>3. QED BY <2>1, <3>1, <3>2
    <2>6. QED BY <2>1, <2>4, <2>5 DEF HaltInv
<1>5. ASSUME NEW s \in Senders, NEW b \in Batches, Start(s, b) PROVE HaltInv'
    <2>1. /\ Goto(s, "preflight") /\ UNCHANGED <<barred, calls>>
          /\ \A t \in Senders \ {s} : batch'[t] = batch[t]
        BY <1>5 DEF Start, TypeOK, world
    <2>2. QED BY <1>1, <2>1 DEF Control
<1>6. ASSUME NEW s \in Senders, Finish(s) \/ Crash(s) PROVE HaltInv'
    <2>1. /\ Goto(s, "idle") /\ UNCHANGED <<barred, calls>>
          /\ \A t \in Senders \ {s} : batch'[t] = batch[t]
        BY <1>6 DEF Finish, Crash, Exit, TypeOK, world
    <2>2. QED BY <1>1, <2>1 DEF Control
<1>7. ASSUME NEW s \in Senders, Step(s), ~PassGate(s), ~Post(s), ~Finish(s)
      PROVE  HaltInv'
    <2>1. UNCHANGED <<barred, calls, batch>>
        BY <1>7 DEF Step, GiveUp, CheckSiblings, LoadAndSelect, PreStatus, NextDocument,
            NoMoreDocuments, HaltedBeforeCall, Record, local, world
    <2>2. \E label \in Control \ {"post"} : Goto(s, label)
        BY <1>7 DEF Step, GiveUp, CheckSiblings, LoadAndSelect, PreStatus, NextDocument,
            NoMoreDocuments, HaltedBeforeCall, Record, Control
    <2>3. QED BY <1>1, <2>1, <2>2
<1>8. CASE \/ UNCHANGED vars \/ ClearSave
           \/ \E b \in Batches : BuildBatch(b)
           \/ \E d \in Dates, k \in Keys : ClearRead(d, k)
    <2>1. UNCHANGED <<barred, calls, pc, batch>>
        BY <1>8 DEF vars, ClearSave, BuildBatch, ClearRead, local, world
    <2>2. QED BY <2>1 DEF HaltInv
<1>9. QED
    BY <1>2, <1>3, <1>4, <1>5, <1>6, <1>7, <1>8 DEF Next

\* After a halt at most one document call of a batch goes out, for any number of
\* senders, retries, crashes and clears.
THEOREM HaltCorrect == Spec => []HaltLetsOneCallThrough
<1>1. Init => LockInv /\ HaltInv
    BY DEF Init, LockInv, HaltInv
<1>2. TypeInv /\ LockInv /\ HaltInv /\ [Next]_vars => LockInv' /\ HaltInv'
    BY LockStep, HaltStep
<1>3. HaltInv => HaltLetsOneCallThrough
    BY DEF HaltInv, HaltLetsOneCallThrough
<1>4. QED BY <1>1, <1>2, <1>3, TypeInvariant, PTL DEF Spec

-------------------------------------------------------------------------------
(* Delivery implements its promise.                                          *)

Confirmed == {d \in Batches \X Keys :
                 /\ ledger[d[1]] # Nobody
                 /\ ledger[d[1]][d[2]].state = "confirmed"}

\* A step that puts the copy of a call in the chat is a delivery of the promise.
LEMMA CopyDelivers ==
    ASSUME TypeInv, LockInv, ExclusionInv, OnceInv,
           NEW s \in Senders, pc[s] = "post", Copy(s), UNCHANGED ledger
    PROVE  Promise!Deliver(batch[s], cur[s])
<1>1. /\ batch[s] \in Batches /\ cur[s] \in Keys
      /\ delivered[batch[s]][cur[s]] = 0
    BY DEF TypeInv, Running, InFlight, OnceInv
<1>2. \A c \in Batches :
          TargetDate[c] = TargetDate[batch[s]] /\ Promise!Delivered(c) => c = batch[s]
    BY DEF ExclusionInv, Cleared, InFlight, Shipped, Promise!Delivered
<1>3. delivered' = [delivered EXCEPT ![batch[s]][cur[s]] = 1]
    BY <1>1 DEF Copy
<1>4. QED BY <1>1, <1>2, <1>3 DEF Promise!Deliver

\* A saved edit acknowledges the document in hand or nothing.
LEMMA SaveAcknowledges ==
    ASSUME TypeInv, NEW s \in Senders, batch[s] \in Batches, ledger[batch[s]] = mem[s],
           NEW k \in Keys, NEW state \in States, Save(s, k, state),
           mem[s][k].state # "confirmed"
    PROVE  Confirmed' = IF state = "confirmed" THEN Confirmed \cup {<<batch[s], k>>}
                                               ELSE Confirmed
<1> DEFINE file == SetEntry(mem[s], k, state)
<1>1. /\ ledger'[batch[s]] = file
      /\ \A b \in Batches \ {batch[s]} : ledger'[b] = ledger[b]
      /\ mem[s] \in LedgerFile
    BY SaveFacts DEF TypeInv
<1>2. /\ file[k].state = state
      /\ \A j \in Keys \ {k} : file[j] = mem[s][j]
      /\ file # Nobody /\ mem[s] # Nobody
    BY <1>1, SetEntryFacts, SetEntryType, NobodyAssumption
<1> HIDE DEF file
<1>3. \A b \in Batches, j \in Keys :
         <<b, j>> \in Confirmed' <=>
            \/ <<b, j>> \in Confirmed
            \/ b = batch[s] /\ j = k /\ state = "confirmed"
    BY <1>1, <1>2 DEF Confirmed
<1>4. Confirmed \subseteq Batches \X Keys /\ Confirmed' \subseteq Batches \X Keys
    BY DEF Confirmed
<1>5. QED BY <1>3, <1>4

\* Every step of the delivery is a step of the promise or leaves it alone.
LEMMA PromiseStep ==
    ASSUME Trusting, TypeInv, LockInv, ExclusionInv, ConfirmedInv, OnceInv, [Next]_vars
    PROVE  Promise!Next \/ (delivered' = delivered /\ Confirmed' = Confirmed)
<1>1. ASSUME NEW s \in Senders, NextDocument(s)
      PROVE  delivered' = delivered /\ Confirmed' = Confirmed
    <2>1. PICK k \in todo[s] : Save(s, k, "api_started")
        BY <1>1 DEF NextDocument
    <2>2. /\ batch[s] \in Batches /\ ledger[batch[s]] = mem[s] /\ k \in Sendable(mem[s])
          /\ delivered' = delivered
        BY <1>1, <2>1 DEF NextDocument, OnceInv, AtWork, TypeInv, Running, world
    <2>3. QED BY <2>1, <2>2, SaveAcknowledges DEF Sendable, States
<1>2. ASSUME NEW s \in Senders, HaltedBeforeCall(s)
      PROVE  delivered' = delivered /\ Confirmed' = Confirmed
    <2>1. pc[s] = "gate" /\ Save(s, cur[s], "pending") /\ delivered' = delivered
        BY <1>2 DEF HaltedBeforeCall, world
    <2>2. /\ batch[s] \in Batches /\ cur[s] \in Keys /\ ledger[batch[s]] = mem[s]
          /\ mem[s][cur[s]].state = "api_started"
        BY <2>1 DEF OnceInv, AtWork, InFlight, TypeInv, Running
    <2>3. QED BY <2>1, <2>2, SaveAcknowledges DEF States
<1>3. ASSUME NEW s \in Senders, LoadAndSelect(s)
      PROVE  delivered' = delivered /\ Confirmed' = Confirmed
    <2>1. batch[s] \in Batches
        BY <1>3 DEF LoadAndSelect, TypeInv, Running
    <2>2. /\ delivered' = delivered
          /\ ledger' = [ledger EXCEPT ![batch[s]] =
                           IF ledger[batch[s]] = Nobody THEN EmptyLedger
                                                        ELSE ledger[batch[s]]]
        BY <1>3 DEF LoadAndSelect, world
    <2>3. \A b \in Batches, k \in Keys : <<b, k>> \in Confirmed' <=> <<b, k>> \in Confirmed
        BY <2>1, <2>2 DEF Confirmed, TypeInv, TypeOK, EmptyLedger, DefaultEntry
    <2>4. Confirmed \subseteq Batches \X Keys /\ Confirmed' \subseteq Batches \X Keys
        BY DEF Confirmed
    <2>5. QED BY <2>2, <2>3, <2>4
<1>4. ASSUME NEW s \in Senders, Record(s)
      PROVE  Promise!Next \/ (delivered' = delivered /\ Confirmed' = Confirmed)
    <2>1. /\ pc[s] \in Answers /\ Save(s, cur[s], Recorded[pc[s]])
          /\ delivered' = delivered
        BY <1>4 DEF Record, world
    <2>2. /\ batch[s] \in Batches /\ cur[s] \in Keys /\ ledger[batch[s]] = mem[s]
          /\ mem[s][cur[s]].state = "api_started" /\ Recorded[pc[s]] \in States
        BY <2>1, RecordedType DEF OnceInv, AtWork, InFlight, Answers, TypeInv, Running
    <2>3. Confirmed' = IF Recorded[pc[s]] = "confirmed"
                       THEN Confirmed \cup {<<batch[s], cur[s]>>} ELSE Confirmed
        BY <2>1, <2>2, SaveAcknowledges
    <2>4. CASE Recorded[pc[s]] = "confirmed"
        <3>1. pc[s] = "accepted"
            BY <2>1, <2>4 DEF Answers, Recorded
        <3>2. delivered[batch[s]][cur[s]] > 0
            BY <3>1 DEF ConfirmedInv
        <3>3. PICK b \in Batches, k \in Keys : b = batch[s] /\ k = cur[s]
            BY <2>2
        <3>4. Promise!Acknowledge(b, k)
            BY <2>1, <2>3, <2>4, <3>2, <3>3 DEF Promise!Acknowledge, Confirmed
        <3>5. QED BY <3>4 DEF Promise!Next
    <2>5. CASE Recorded[pc[s]] # "confirmed"
        BY <2>1, <2>3, <2>5
    <2>6. QED BY <2>4, <2>5
<1>5. ASSUME NEW s \in Senders, pc[s] = "post", Copy(s), ledger' = ledger
      PROVE  Promise!Next
    <2>1. Promise!Deliver(batch[s], cur[s])
        BY <1>5, CopyDelivers
    <2>2. batch[s] \in Batches /\ cur[s] \in Keys
        BY <1>5 DEF TypeInv, Running, InFlight
    <2>3. QED BY <2>1, <2>2 DEF Promise!Next
<1>6. ~ClearSave /\ \A d \in Dates, k \in Keys : ~ClearRead(d, k)
    <2>1. clears = 0 /\ MaxClears = 0 /\ operator = NoClear
        BY DEF Trusting, TypeInv, TypeOK, OnceInv
    <2>2. QED BY <2>1 DEF ClearSave, ClearRead
<1>7. ASSUME ledger' = ledger PROVE Confirmed' = Confirmed
    BY <1>7 DEF Confirmed
<1>8. \/ ledger' = ledger /\ delivered' = delivered
      \/ \E s \in Senders : \/ NextDocument(s) \/ HaltedBeforeCall(s)
                            \/ LoadAndSelect(s) \/ Record(s)
                            \/ pc[s] = "post" /\ Copy(s) /\ ledger' = ledger
    BY <1>6 DEF Next, Step, vars, BuildBatch, MoveBarrier, Start, GiveUp, CheckSiblings,
        PreStatus, NoMoreDocuments, PassGate, Post, Finish, Crash, NoCopy, disk, world
<1>9. QED BY <1>1, <1>2, <1>3, <1>4, <1>5, <1>7, <1>8

\* The delivery, with its processes, files, crashes and retries, implements the
\* promise: once per document, one batch per date, only sent is confirmed.
THEOREM PromiseCorrect ==
    ASSUME Trusting
    PROVE  Spec => ImplementsPromise
<1>1. Init => /\ LockInv /\ FileInv /\ ExclusionInv /\ ConfirmedInv /\ OnceInv
              /\ Promise!Init
    <2>1. Init => LockInv /\ FileInv /\ ExclusionInv /\ OnceInv
        BY DEF Init, LockInv, FileInv, ExclusionInv, OneBatchPerDate, Shipped, InFlight,
            Cleared, AtWork, Answers, OnceInv, DeliveryAccounted, AtMostOnce
    <2>2. Init => Promise!Init
        BY DEF Init, Promise!Init
    <2>3. QED BY <2>1, <2>2, ConfirmedInit
<1>2. TypeInv /\ TypeInv' /\ LockInv /\ FileInv /\ ExclusionInv /\ ConfirmedInv /\ OnceInv
        /\ [Next]_vars
        => LockInv' /\ FileInv' /\ ExclusionInv' /\ ConfirmedInv' /\ OnceInv'
    BY LockStep, FileStep, ExclusionStep, ConfirmedStep, OnceStep
<1>3. TypeInv /\ LockInv /\ ExclusionInv /\ ConfirmedInv /\ OnceInv /\ [Next]_vars
        => [Promise!Next]_<<delivered, {d \in Batches \X Keys :
                                          /\ ledger[d[1]] # Nobody
                                          /\ ledger[d[1]][d[2]].state = "confirmed"}>>
    BY PromiseStep DEF Confirmed
<1>4. QED
    BY <1>1, <1>2, <1>3, TypeInvariant, PTL DEF Spec, ImplementsPromise, Promise!Spec

-------------------------------------------------------------------------------
(* Hand-made clears.  The clear command takes no lock (ClearRead, ClearSave).  *)
(* As long as no run holds the channel lock between its read and its save,     *)
(* every copy of a ledger that will be saved is the file.                      *)

Exclusive == operator # NoClear => lock = Nobody

SyncInv ==
    /\ operator # NoClear => operator.file = ledger[operator.batch]
    /\ \A s \in Senders : pc[s] \in AtWork => ledger[batch[s]] = mem[s]

\* A step of a run happens outside of every clear, and of every other run.
LEMMA RunAlone ==
    ASSUME TypeInv, LockInv, Exclusive, NEW s \in Senders, pc[s] # "idle"
    PROVE  /\ batch[s] \in Batches /\ operator = NoClear
           /\ \A t \in Senders : pc[t] # "idle" => t = s
BY NobodyAssumption DEF TypeInv, Running, LockInv, Exclusive

\* The copies stay the file: a run loads what is there and saves what it holds,
\* and nobody else writes in between.
LEMMA SyncStep ==
    ASSUME TypeInv, LockInv, SyncInv, Exclusive, Exclusive', [Next]_vars
    PROVE  SyncInv'
<1> USE DEF TypeInv
<1>1. ASSUME NEW s \in Senders, Step(s) \/ Crash(s)
      PROVE  SyncInv'
    <2>1. pc[s] # "idle" /\ operator' = operator
        BY <1>1 DEF Step, Crash, GiveUp, CheckSiblings, LoadAndSelect, PreStatus,
            NextDocument, NoMoreDocuments, PassGate, HaltedBeforeCall, Post, Record,
            Finish, Answers, others
    <2>2. /\ batch[s] \in Batches /\ operator = NoClear
          /\ \A t \in Senders \ {s} : pc[t] = "idle"
        BY <2>1, RunAlone
    <2>3. \A t \in Senders \ {s} : pc'[t] = pc[t]
        BY <1>1 DEF Step, Crash, GiveUp, CheckSiblings, LoadAndSelect, PreStatus,
            NextDocument, NoMoreDocuments, PassGate, HaltedBeforeCall, Post, RateLimited,
            Record, Finish, Exit, Goto, TypeOK
    <2>4. ASSUME pc'[s] \in AtWork PROVE ledger'[batch'[s]] = mem'[s]
        <3>1. ASSUME NEW k \in Keys, NEW state \in States, Save(s, k, state),
                     batch' = batch
              PROVE  ledger'[batch'[s]] = mem'[s]
            BY <2>2, <3>1, SaveFacts
        <3>2. CASE LoadAndSelect(s)
            BY <2>2, <3>2 DEF LoadAndSelect, TypeOK
        <3>3. CASE NextDocument(s)
            BY <3>1, <3>3 DEF NextDocument, States, TypeOK
        <3>4. CASE HaltedBeforeCall(s)
            BY <3>1, <3>4 DEF HaltedBeforeCall, States, Running, InFlight
        <3>5. CASE Record(s)
            <4>1. cur[s] \in Keys /\ Recorded[pc[s]] \in States
                BY <3>5, RecordedType DEF Record, Running, InFlight
            <4>2. QED BY <3>1, <3>5, <4>1 DEF Record
        <3>6. CASE PreStatus(s) \/ PassGate(s) \/ Post(s)
            BY <3>6 DEF PreStatus, PassGate, Post, SyncInv, AtWork, InFlight, local, disk
        <3>7. CASE \/ GiveUp(s) \/ CheckSiblings(s) \/ NoMoreDocuments(s) \/ Finish(s)
                   \/ Crash(s)
            BY <2>4, <3>7 DEF GiveUp, CheckSiblings, NoMoreDocuments, Finish, Crash, Exit,
                Goto, AtWork, InFlight, Answers, TypeOK
        <3>8. QED BY <1>1, <3>2, <3>3, <3>4, <3>5, <3>6, <3>7 DEF Step
    <2>5. QED
        BY <2>1, <2>2, <2>3, <2>4 DEF SyncInv, AtWork, InFlight, Answers
<1>2. ASSUME NEW s \in Senders, NEW b \in Batches, Start(s, b)
      PROVE  SyncInv'
    <2>1. lock' = s /\ operator' = operator /\ UNCHANGED <<ledger, mem>>
        BY <1>2 DEF Start, disk, others
    <2>2. operator = NoClear
        BY <2>1, NobodyAssumption DEF Exclusive
    <2>3. \A t \in Senders : pc'[t] \in AtWork => pc[t] \in AtWork /\ batch'[t] = batch[t]
        BY <1>2 DEF Start, Goto, TypeOK, AtWork, InFlight, Answers
    <2>4. QED BY <2>1, <2>2, <2>3 DEF SyncInv
<1>3. ASSUME NEW d \in Dates, NEW k \in Keys, ClearRead(d, k)
      PROVE  SyncInv'
    BY <1>3 DEF ClearRead, SyncInv, local, disk
<1>4. ASSUME ClearSave
      PROVE  SyncInv'
    <2>1. operator' = NoClear /\ pc' = pc /\ lock = Nobody
        BY <1>4 DEF ClearSave, Exclusive
    <2>2. \A t \in Senders : pc[t] = "idle"
        BY <2>1, NobodyAssumption DEF LockInv
    <2>3. QED BY <2>1, <2>2 DEF SyncInv, AtWork, InFlight, Answers
<1>5. CASE UNCHANGED <<ledger, mem, batch, pc, operator>>
    BY <1>5 DEF SyncInv
<1>6. QED
    BY <1>1, <1>2, <1>3, <1>4, <1>5
    DEF Next, vars, BuildBatch, MoveBarrier, local, others, disk

\* An edit of a copy leaves what is confirmed in it confirmed.
LEMMA SetEntryKeeps ==
    ASSUME NEW file \in LedgerFile, NEW k \in Keys, NEW state \in States,
           NEW j \in Keys, file[j].state = "confirmed"
    PROVE  SetEntry(file, k, state)[j].state = "confirmed"
BY DEF SetEntry, LedgerFile, Entry

\* Whoever writes a ledger file - a run that saves, a run that creates it, a clear
\* - writes an edit of the file that is there.
LEMMA EditsTheFile ==
    ASSUME TypeInv, LockInv, FileInv, SyncInv, [Next]_vars, NEW b \in Batches,
           ledger'[b] # ledger[b]
    PROVE  \/ ledger[b] = Nobody /\ ledger'[b] = EmptyLedger
           \/ /\ ledger[b] \in LedgerFile
              /\ \E k \in Keys, state \in States : ledger'[b] = SetEntry(ledger[b], k, state)
<1> DEFINE Edit == /\ ledger[b] \in LedgerFile
                   /\ \E k \in Keys, state \in States :
                          ledger'[b] = SetEntry(ledger[b], k, state)
<1> USE DEF TypeInv
<1>1. ASSUME NEW s \in Senders, NEW k \in Keys, NEW state \in States,
             pc[s] \in AtWork, Save(s, k, state)
      PROVE  Edit
    <2>1. batch[s] \in Batches /\ ledger[batch[s]] = mem[s]
        BY <1>1 DEF Running, SyncInv, AtWork, InFlight, Answers
    <2>2. batch[s] = b /\ ledger'[b] = SetEntry(mem[s], k, state) /\ mem[s] \in LedgerFile
        BY <1>1, <2>1, SaveFacts
    <2>3. QED BY <2>1, <2>2
<1>2. ASSUME NEW s \in Senders, NextDocument(s) PROVE Edit
    <2>1. PICK k \in Keys : Save(s, k, "api_started")
        BY <1>2 DEF NextDocument, TypeOK
    <2>2. pc[s] \in AtWork /\ "api_started" \in States
        BY <1>2 DEF NextDocument, AtWork, States
    <2>3. QED BY <1>1, <2>1, <2>2
<1>3. ASSUME NEW s \in Senders, HaltedBeforeCall(s) PROVE Edit
    BY <1>3, <1>1 DEF HaltedBeforeCall, States, Running, InFlight, AtWork
<1>4. ASSUME NEW s \in Senders, Record(s) PROVE Edit
    <2>1. /\ cur[s] \in Keys /\ Recorded[pc[s]] \in States /\ pc[s] \in AtWork
          /\ Save(s, cur[s], Recorded[pc[s]])
        BY <1>4, RecordedType DEF Record, Running, InFlight, AtWork
    <2>2. QED BY <1>1, <2>1
<1>5. ASSUME NEW s \in Senders, LoadAndSelect(s)
      PROVE  ledger[b] = Nobody /\ ledger'[b] = EmptyLedger
    <2>1. batch[s] \in Batches
        BY <1>5 DEF LoadAndSelect, Running
    <2>2. QED BY <1>5, <2>1 DEF LoadAndSelect, TypeOK
<1>6. ASSUME ClearSave PROVE Edit
    <2>1. /\ operator.file = ledger[operator.batch] /\ operator \in Clearing
          /\ ledger' = [ledger EXCEPT ![operator.batch] =
                           SetEntry(operator.file, operator.key, "pending")]
        BY <1>6 DEF ClearSave, SyncInv, TypeOK
    <2>2. /\ operator.batch = b /\ operator.file \in LedgerFile /\ operator.key \in Keys
          /\ "pending" \in States
        BY <2>1 DEF TypeOK, Clearing, States
    <2>3. QED BY <2>1, <2>2 DEF TypeOK
<1>7. ledger' = ledger \/ ClearSave \/ \E s \in Senders :
          LoadAndSelect(s) \/ NextDocument(s) \/ HaltedBeforeCall(s) \/ Record(s)
    BY DEF Next, Step, vars, BuildBatch, MoveBarrier, Start, GiveUp, CheckSiblings,
        PreStatus, NoMoreDocuments, PassGate, Post, Finish, Crash, ClearRead, disk
<1>8. QED BY <1>2, <1>3, <1>4, <1>5, <1>6, <1>7

\* What a test of the clear command cannot show: its only danger to a confirmed
\* entry is a run that holds the channel between its read and its save.  In every
\* behaviour without one, a confirmed entry is immutable, as the contract says.
THEOREM LockedClearsKeepConfirmed ==
    Spec /\ []Exclusive => ConfirmedImmutable
<1>1. Init => LockInv /\ FileInv /\ SyncInv
    BY DEF Init, LockInv, FileInv, SyncInv, AtWork, InFlight, Answers
<1>2. TypeInv /\ LockInv /\ FileInv /\ SyncInv /\ Exclusive /\ Exclusive' /\ [Next]_vars
        => LockInv' /\ FileInv' /\ SyncInv'
    BY LockStep, FileStep, SyncStep
<1>3. TypeInv /\ LockInv /\ FileInv /\ SyncInv /\ [Next]_vars
        => [\A b \in Batches, k \in Keys :
               (ledger[b] # Nobody /\ ledger[b][k].state = "confirmed")
                   => ledger'[b][k].state = "confirmed"]_vars
    BY EditsTheFile, SetEntryKeeps
<1>4. QED BY <1>1, <1>2, <1>3, TypeInvariant, PTL DEF Spec, ConfirmedImmutable

-------------------------------------------------------------------------------
(* The day of batches.  Without hand-made clears a run that has passed the     *)
(* sibling check is the only one that tries a batch of its date.               *)

Unclear == operator = NoClear /\ clears = 0

SiblingsUntried ==
    \A s \in Senders : pc[s] \in Cleared =>
        \A c \in Siblings(batch[s]) : ~Attempted(ledger[c])

\* Where no clear may be made none is made.
LEMMA NoClears ==
    ASSUME MaxClears = 0
    PROVE  Spec => []Unclear
<1>1. Init => Unclear
    BY DEF Init, Unclear
<1>2. Unclear /\ [Next]_vars => Unclear'
    BY DEF Unclear, Next, Step, vars, BuildBatch, MoveBarrier, Start, GiveUp,
        CheckSiblings, LoadAndSelect, PreStatus, NextDocument, NoMoreDocuments, PassGate,
        HaltedBeforeCall, Post, Record, Finish, Crash, ClearRead, ClearSave, others
<1>3. QED BY <1>1, <1>2, PTL DEF Spec

LEMMA SiblingsStep ==
    ASSUME TypeInv, LockInv, FileInv, Unclear, SiblingsUntried, [Next]_vars
    PROVE  SiblingsUntried'
<1> USE DEF TypeInv
<1> SUFFICES ASSUME NEW s \in Senders, pc'[s] \in Cleared, NEW c \in Batches,
                    c \in built', c # batch'[s], TargetDate[c] = TargetDate[batch'[s]],
                    Attempted(ledger'[c])
             PROVE  FALSE
    BY DEF SiblingsUntried, Siblings, TypeOK, Next, Step, vars, BuildBatch, MoveBarrier,
        Start, GiveUp, CheckSiblings, LoadAndSelect, PreStatus, NextDocument,
        NoMoreDocuments, PassGate, HaltedBeforeCall, Post, Record, Finish, Crash,
        ClearRead, ClearSave, disk
<1>1. /\ batch'[s] = batch[s] /\ batch[s] \in Batches
      /\ pc[s] \in Cleared \/ (CheckSiblings(s) /\ ~SiblingAttempt(batch[s]))
    BY RunOrder
<1>2. CASE pc[s] \in Cleared
    <2>1. ~Attempted(ledger[c])
        BY <1>1, <1>2 DEF SiblingsUntried, Siblings, FileInv, Attempted
    <2>2. PICK t \in Senders : pc[t] # "idle" /\ batch[t] = c
        BY <2>1, LedgerWrites DEF Unclear
    <2>3. lock = t /\ lock = s
        BY <1>2, <2>2 DEF LockInv, Cleared, InFlight, Answers
    <2>4. QED BY <1>1, <2>2, <2>3
<1>3. CASE CheckSiblings(s) /\ ~SiblingAttempt(batch[s])
    BY <1>1, <1>3 DEF CheckSiblings, SiblingAttempt, Siblings, disk
<1>4. QED BY <1>1, <1>2, <1>3

\* The words of a ledger for an edit of it.
LEMMA DayMoves ==
    ASSUME TypeInv, NEW b \in Batches, b \in built, b \in built',
           ledger[b] \in LedgerFile, NEW k \in Keys, NEW state \in States,
           ledger'[b] = SetEntry(ledger[b], k, state)
    PROVE  /\ Attempted(ledger'[b])
           /\ DayStatus(b) \in {"pending", "attempted", "confirmed"}
           /\ DayStatus(b) = "pending" <=> ~Attempted(ledger[b])
           /\ DayStatus(b) = "confirmed" => DayStatus(b)' = "confirmed"
           /\ DayStatus(b)' \in {"attempted", "confirmed"}
           /\ ~Attempted(ledger[b]) /\ state # "confirmed" => DayStatus(b)' = "attempted"
<1>1. /\ Attempted(ledger'[b]) /\ ledger'[b] # Nobody /\ ledger[b] # Nobody
      /\ ledger'[b] \in LedgerFile
    BY SetEntryAttempts, SetEntryType, NobodyAssumption
<1>2. DayStatus(b)' = IF \A j \in Keys : ledger'[b][j].state = "confirmed"
                      THEN "confirmed" ELSE "attempted"
    BY <1>1 DEF DayStatus
<1>3. DayStatus(b) = "confirmed" => DayStatus(b)' = "confirmed"
    BY <1>1, <1>2, SetEntryKeeps DEF DayStatus
<1>4. ~Attempted(ledger[b]) /\ state # "confirmed" => DayStatus(b)' = "attempted"
    BY <1>1, <1>2, SetEntryFacts DEF Attempted
<1>5. QED BY <1>1, <1>2, <1>3, <1>4 DEF DayStatus

DayMap == [b \in Batches |-> DayStatus(b)]

\* One ledger changes its word.
LEMMA DayBecomes ==
    ASSUME NEW b \in Batches, NEW from, NEW to,
           \A c \in Batches \ {b} : DayStatus(c)' = DayStatus(c),
           DayStatus(b) = from, DayStatus(b)' = to
    PROVE  Day!Become(b, from, to)
<1>1. DayMap[b] = from
    BY DEF DayMap
<1>2. DayMap' = [DayMap EXCEPT ![b] = to]
    BY DEF DayMap
<1>3. QED BY <1>1, <1>2 DEF Day!Become, DayMap

\* A save of a run at work moves its batch as the day allows, or not at all.
LEMMA DaySave ==
    ASSUME TypeInv, LockInv, FileInv, ExclusionInv, SyncInv, SiblingsUntried,
           NEW s \in Senders, pc[s] \in AtWork, NEW k \in Keys, NEW state \in States,
           Save(s, k, state), built' = built,
           pc[s] \in InFlight \/ state # "confirmed"
    PROVE  Day!Next \/ DayMap' = DayMap
<1>1. /\ batch[s] \in Batches /\ batch[s] \in built /\ ledger[batch[s]] = mem[s]
      /\ pc[s] \in Cleared
    BY DEF TypeInv, Running, LockInv, SyncInv, AtWork, Cleared, InFlight, Answers
<1>2. PICK b \in Batches : b = batch[s]
    BY <1>1
<1>3. /\ ledger[b] \in LedgerFile /\ ledger'[b] = SetEntry(ledger[b], k, state)
      /\ b \in built /\ b \in built'
      /\ \A c \in Batches \ {b} : ledger'[c] = ledger[c]
    BY <1>1, <1>2, SaveFacts DEF TypeInv
<1>4. \A c \in Batches \ {b} : DayStatus(c)' = DayStatus(c)
    BY <1>3 DEF DayStatus
<1>5. /\ DayStatus(b) \in {"pending", "attempted", "confirmed"}
      /\ DayStatus(b) = "pending" <=> ~Attempted(ledger[b])
      /\ DayStatus(b) = "confirmed" => DayStatus(b)' = "confirmed"
      /\ DayStatus(b)' \in {"attempted", "confirmed"}
      /\ ~Attempted(ledger[b]) /\ state # "confirmed" => DayStatus(b)' = "attempted"
    BY <1>3, DayMoves
<1>6. CASE DayStatus(b)' = DayStatus(b)
    BY <1>4, <1>6 DEF DayMap
<1>7. CASE DayStatus(b) = "attempted" /\ DayStatus(b)' = "confirmed"
    <2>1. Day!Confirm(b)
        BY <1>4, <1>7, DayBecomes DEF Day!Confirm
    <2>2. QED BY <2>1 DEF Day!Next
<1>8. CASE DayStatus(b) = "pending"
    <2>1. ~Attempted(ledger[b]) /\ pc[s] \notin InFlight
        BY <1>2, <1>5, <1>8 DEF ExclusionInv
    <2>2. DayStatus(b)' = "attempted"
        BY <1>5, <2>1
    <2>3. Day!Become(b, "pending", "attempted")
        BY <1>4, <1>8, <2>2, DayBecomes
    <2>4. ASSUME NEW c \in Batches, TargetDate[c] = TargetDate[b], Day!Tried(c)
          PROVE  c = b
        <3>1. DayStatus(c) \in {"attempted", "confirmed"}
            BY <2>4 DEF Day!Tried
        <3>2. c \in built /\ Attempted(ledger[c])
            BY <3>1 DEF DayStatus
        <3>3. QED BY <1>1, <1>2, <2>4, <3>2 DEF SiblingsUntried, Siblings
    <2>5. Day!Attempt(b)
        BY <2>3, <2>4 DEF Day!Attempt
    <2>6. QED BY <2>5 DEF Day!Next
<1>9. QED BY <1>5, <1>6, <1>7, <1>8

\* Every step of the delivery is a step of the day or leaves it alone.
LEMMA DayStep ==
    ASSUME TypeInv, LockInv, FileInv, ExclusionInv, SyncInv, Unclear, SiblingsUntried,
           [Next]_vars
    PROVE  Day!Next \/ DayMap' = DayMap
<1> USE DEF TypeInv
<1>1. ASSUME NEW b \in Batches, BuildBatch(b) PROVE Day!Next
    <2>1. /\ b \notin built /\ built' = built \cup {b} /\ ledger' = ledger
          /\ ledger[b] = Nobody
        BY <1>1 DEF BuildBatch, FileInv
    <2>2. DayStatus(b) = "unbuilt" /\ DayStatus(b)' = "absent"
        BY <2>1 DEF DayStatus
    <2>3. \A c \in Batches \ {b} : DayStatus(c)' = DayStatus(c)
        BY <2>1 DEF DayStatus
    <2>4. Day!Build(b)
        BY <2>2, <2>3, DayBecomes DEF Day!Build
    <2>5. QED BY <2>4 DEF Day!Next
<1>2. ASSUME NEW s \in Senders, LoadAndSelect(s) PROVE Day!Next \/ DayMap' = DayMap
    <2>1. batch[s] \in Batches /\ batch[s] \in built /\ built' = built
        BY <1>2 DEF LoadAndSelect, Running, LockInv
    <2>2. PICK b \in Batches : b = batch[s]
        BY <2>1
    <2>3. ledger' = [ledger EXCEPT ![b] = IF ledger[b] = Nobody THEN EmptyLedger
                                                               ELSE ledger[b]]
        BY <1>2, <2>2 DEF LoadAndSelect
    <2>4. CASE ledger[b] = Nobody
        <3>1. ledger'[b] = EmptyLedger /\ \A c \in Batches \ {b} : ledger'[c] = ledger[c]
            BY <2>3, <2>4 DEF TypeOK
        <3>2. EmptyLedger # Nobody /\ ~Attempted(EmptyLedger)
            <4>1. EmptyLedger \in LedgerFile
                BY DEF EmptyLedger, LedgerFile, Entry, DefaultEntry, States
            <4>2. QED
                BY <4>1, NobodyAssumption DEF Attempted, EmptyLedger, DefaultEntry
        <3>3. DayStatus(b) = "absent" /\ DayStatus(b)' = "pending"
            BY <2>1, <2>2, <2>4, <3>1, <3>2 DEF DayStatus
        <3>4. \A c \in Batches \ {b} : DayStatus(c)' = DayStatus(c)
            BY <2>1, <3>1 DEF DayStatus
        <3>5. Day!Open(b)
            BY <3>3, <3>4, DayBecomes DEF Day!Open
        <3>6. QED BY <3>5 DEF Day!Next
    <2>5. CASE ledger[b] # Nobody
        <3>1. ledger' = ledger
            BY <2>3, <2>5 DEF TypeOK
        <3>2. QED BY <2>1, <3>1 DEF DayMap, DayStatus
    <2>6. QED BY <2>4, <2>5
<1>3. ASSUME NEW s \in Senders, NextDocument(s) PROVE Day!Next \/ DayMap' = DayMap
    <2>1. PICK k \in Keys : Save(s, k, "api_started")
        BY <1>3 DEF NextDocument, TypeOK
    <2>2. /\ pc[s] \in AtWork /\ "api_started" \in States /\ built' = built
          /\ "api_started" # "confirmed"
        BY <1>3 DEF NextDocument, AtWork, States
    <2>3. QED BY <2>1, <2>2, DaySave
<1>4. ASSUME NEW s \in Senders, HaltedBeforeCall(s) PROVE Day!Next \/ DayMap' = DayMap
    <2>1. /\ pc[s] \in InFlight /\ pc[s] \in AtWork /\ cur[s] \in Keys
          /\ "pending" \in States /\ Save(s, cur[s], "pending") /\ built' = built
        BY <1>4 DEF HaltedBeforeCall, Running, InFlight, AtWork, States
    <2>2. PICK k \in Keys : k = cur[s]
        BY <2>1
    <2>3. QED BY <2>1, <2>2, DaySave
<1>5. ASSUME NEW s \in Senders, Record(s) PROVE Day!Next \/ DayMap' = DayMap
    <2>1. /\ pc[s] \in InFlight /\ pc[s] \in AtWork /\ cur[s] \in Keys
          /\ Recorded[pc[s]] \in States /\ Save(s, cur[s], Recorded[pc[s]])
          /\ built' = built
        BY <1>5, RecordedType DEF Record, Running, InFlight, AtWork
    <2>2. PICK k \in Keys, state \in States : k = cur[s] /\ state = Recorded[pc[s]]
        BY <2>1
    <2>3. QED BY <2>1, <2>2, DaySave
<1>6. ASSUME UNCHANGED <<built, ledger>> PROVE DayMap' = DayMap
    BY <1>6 DEF DayMap, DayStatus
<1>7. ~ClearSave
    BY DEF ClearSave, Unclear
<1>8. \/ UNCHANGED <<built, ledger>>
      \/ \E b \in Batches : BuildBatch(b)
      \/ \E s \in Senders : \/ LoadAndSelect(s) \/ NextDocument(s)
                            \/ HaltedBeforeCall(s) \/ Record(s)
    BY <1>7 DEF Next, Step, vars, MoveBarrier, Start, GiveUp, CheckSiblings, PreStatus,
        NoMoreDocuments, PassGate, Post, Finish, Crash, ClearRead, disk
<1>9. QED BY <1>1, <1>2, <1>3, <1>4, <1>5, <1>6, <1>8

\* Without hand-made clears the senders, with their lock, copies and crashes, do
\* to the batches of a date what BatchDay says, and so all that Closeout assumes.
THEOREM DayCorrect ==
    ASSUME MaxClears = 0
    PROVE  Spec => ImplementsDay
<1>1. Init => /\ LockInv /\ FileInv /\ ExclusionInv /\ SyncInv /\ SiblingsUntried
              /\ Day!Init
    <2>1. Init => LockInv /\ FileInv /\ ExclusionInv /\ SyncInv /\ SiblingsUntried
        BY DEF Init, LockInv, FileInv, ExclusionInv, OneBatchPerDate, Shipped, InFlight,
            Cleared, AtWork, Answers, SyncInv, SiblingsUntried
    <2>2. Init => Day!Init
        BY DEF Init, Day!Init, DayStatus
    <2>3. QED BY <2>1, <2>2
<1>2. TypeInv /\ TypeInv' /\ Unclear /\ Unclear' /\ LockInv /\ FileInv /\ ExclusionInv
        /\ SyncInv /\ SiblingsUntried /\ [Next]_vars
        => LockInv' /\ FileInv' /\ ExclusionInv' /\ SyncInv' /\ SiblingsUntried'
    <2> SUFFICES ASSUME TypeInv, TypeInv', Unclear, Unclear', LockInv, FileInv,
                        ExclusionInv, SyncInv, SiblingsUntried, [Next]_vars
                 PROVE  LockInv' /\ FileInv' /\ ExclusionInv' /\ SyncInv' /\ SiblingsUntried'
        OBVIOUS
    <2>1. Exclusive /\ Exclusive'
        BY DEF Unclear, Exclusive
    <2>2. LockInv' /\ FileInv' /\ ExclusionInv'
        BY LockStep, FileStep, ExclusionStep
    <2>3. SyncInv'
        BY <2>1, SyncStep
    <2>4. SiblingsUntried'
        BY SiblingsStep
    <2>5. QED BY <2>2, <2>3, <2>4
<1>3. TypeInv /\ Unclear /\ LockInv /\ FileInv /\ ExclusionInv /\ SyncInv
        /\ SiblingsUntried /\ [Next]_vars
        => [Day!Next]_([b \in Batches |-> DayStatus(b)])
    <2> SUFFICES ASSUME TypeInv, Unclear, LockInv, FileInv, ExclusionInv, SyncInv,
                        SiblingsUntried, [Next]_vars
                 PROVE  Day!Next \/ UNCHANGED [b \in Batches |-> DayStatus(b)]
        OBVIOUS
    <2>1. Day!Next \/ DayMap' = DayMap
        BY DayStep
    <2>2. DayMap' = DayMap => UNCHANGED [b \in Batches |-> DayStatus(b)]
        BY DEF DayMap
    <2>3. QED BY <2>1, <2>2
<1>4. QED
    BY <1>1, <1>2, <1>3, TypeInvariant, NoClears, PTL DEF Spec, ImplementsDay, Day!Spec
===============================================================================
