--------------------------- MODULE TelegramDelivery ---------------------------
(***************************************************************************)
(* The Telegram delivery of waybill bundles: scripts/send_waybills_telegram *)
(* .py run by several processes (closeout, watcher resume, control bot,     *)
(* operator) over the SEND batches of the day, each batch with its own      *)
(* telegram_send_ledger.json, and the operator's clear-stuck-send-entry of  *)
(* scripts/ops_day_control.py.                                              *)
(*                                                                          *)
(* A sender holds one channel-wide flock for its whole run.  It works on an *)
(* in-memory copy of the ledger (mem) and saves the whole copy after each   *)
(* change.  The clear command takes no lock: it reads, edits and saves the  *)
(* ledger of the newest batch in two separate steps.                        *)
(*                                                                          *)
(* A definition that stands directly above another one with the same        *)
(* parameters (TimeoutMeansFailed above Recorded) is a plausible bug in it: *)
(* nothing refers to it, the mutation runs put it in the other's place.     *)
(***************************************************************************)
EXTENDS Naturals, FiniteSets

CONSTANTS
    Batches,        \* SEND batch directories under MERGED/SEND
    Keys,           \* the pdf_keys of a manifest
    Dates,          \* target dates
    TargetDate,     \* the target date of each batch
    Senders,        \* sender processes
    Nobody,         \* no lock holder, no ledger file, no batch
    MaxRetries,     \* DEFAULT_RATE_LIMIT_RETRIES
    GatewayErrors,  \* may a non-ok HTTP reply follow an accepted document?
    MaxClears,      \* bound: runs of clear-stuck-send-entry
    MaxCrashes,     \* bound: sender processes killed
    MaxCopies       \* bound: copies of one document that are counted

ASSUME DateAssumption == TargetDate \in [Batches -> Dates]
ASSUME BoundAssumption ==
    /\ MaxRetries \in Nat /\ MaxClears \in Nat /\ MaxCrashes \in Nat
    /\ MaxCopies \in Nat \ {0}
    /\ GatewayErrors \in BOOLEAN

VARIABLES
    built,      \* batches whose manifest is on disk
    newest,     \* newest[d]: the batch of date d with the latest mtime
    ledger,     \* ledger[b]: the ledger file of b, Nobody when there is none
    lock,       \* the sender that holds the channel lock
    pc, batch, mem, todo, cur, tries,   \* a sender's control and locals
    barred,     \* batches whose request the halt gate refuses now
    calls,      \* calls[b]: documents posted for b since the barrier bars it (2 = many)
    delivered,  \* delivered[b][k]: copies of k that reached Telegram
    operator,   \* the clear command between its read and its save
    clears, crashes

vars == <<built, newest, ledger, lock, pc, batch, mem, todo, cur, tries,
          barred, calls, delivered, operator, clears, crashes>>

disk == <<built, newest, ledger>>
local == <<batch, mem, todo, cur, tries>>
world == <<barred, calls, delivered>>
others == <<operator, clears, crashes>>

(***************************************************************************)
(* Ledger entries.  "touched" says that the entry has a history.            *)
(***************************************************************************)
States == {"pending", "api_started", "confirmed", "failed", "unsure"}
Entry == [state : States, touched : BOOLEAN]
LedgerFile == [Keys -> Entry]
DefaultEntry == [state |-> "pending", touched |-> FALSE]
EmptyLedger == [k \in Keys |-> DefaultEntry]

ASSUME NobodyAssumption == Nobody \notin Senders \cup Batches \cup LedgerFile

Attempted(file) ==
    file # Nobody /\ \E k \in Keys : file[k].state # "pending" \/ file[k].touched

Siblings(b) == {c \in built \ {b} : TargetDate[c] = TargetDate[b]}

ConfirmedSibling(b) ==
    \E c \in Siblings(b) : ledger[c] # Nobody
        /\ \E k \in Keys : ledger[c][k].state = "confirmed"
SiblingAttempt(b) ==
    \E c \in Siblings(b) : ledger[c] = Nobody \/ Attempted(ledger[c])

\* A confirmed entry is immutable in the copy that is edited.
SetEntryForgetful(file, k, state) ==
    IF file[k].state = "confirmed" THEN file
    ELSE [file EXCEPT ![k] = [state |-> state, touched |-> state # "pending"]]
SetEntry(file, k, state) ==
    IF file[k].state = "confirmed" THEN file
    ELSE [file EXCEPT ![k] = [state |-> state, touched |-> TRUE]]

Sendable(file) == {k \in Keys : file[k].state \in {"pending", "failed"}}
Unresolved(file) == {k \in Keys : file[k].state \in {"unsure", "api_started"}}

\* The state a document is recorded in for each answer of the API.
TimeoutMeansFailed == [accepted |-> "confirmed", rerouted |-> "unsure",
                       refused |-> "failed", doubt |-> "failed"]
TimeoutMeansSent == [accepted |-> "confirmed", rerouted |-> "unsure",
                     refused |-> "failed", doubt |-> "confirmed"]
Recorded == [accepted |-> "confirmed", rerouted |-> "unsure",
             refused |-> "failed", doubt |-> "unsure"]
Answers == {"accepted", "rerouted", "refused", "doubt"}
Control == {"idle", "preflight", "load", "status", "next", "gate", "post", "done"}
           \cup Answers
NoClear == [batch |-> Nobody]
Clearing == [batch : Batches, key : Keys, file : LedgerFile]

-------------------------------------------------------------------------------
Init ==
    /\ built = {}
    /\ newest = [d \in Dates |-> Nobody]
    /\ ledger = [b \in Batches |-> Nobody]
    /\ lock = Nobody
    /\ pc = [s \in Senders |-> "idle"]
    /\ batch = [s \in Senders |-> Nobody]
    /\ mem = [s \in Senders |-> EmptyLedger]
    /\ todo = [s \in Senders |-> {}]
    /\ cur = [s \in Senders |-> Nobody]
    /\ tries = [s \in Senders |-> 0]
    /\ barred = {}
    /\ calls = [b \in Batches |-> 0]
    /\ delivered = [b \in Batches |-> [k \in Keys |-> 0]]
    /\ operator = NoClear
    /\ clears = 0 /\ crashes = 0

Goto(s, label) == pc' = [pc EXCEPT ![s] = label]

\* The process is gone: its locals with it, and its flock.
Exit(s) ==
    /\ Goto(s, "idle")
    /\ lock' = Nobody
    /\ batch' = [batch EXCEPT ![s] = Nobody]
    /\ mem' = [mem EXCEPT ![s] = EmptyLedger]
    /\ todo' = [todo EXCEPT ![s] = {}]
    /\ cur' = [cur EXCEPT ![s] = Nobody]
    /\ tries' = [tries EXCEPT ![s] = 0]

\* Edit one entry of the sender's copy and save the copy over the file.
EditOnly(s, k, state) ==
    /\ mem' = [mem EXCEPT ![s] = SetEntry(mem[s], k, state)]
    /\ ledger' = ledger
Save(s, k, state) ==
    LET file == SetEntry(mem[s], k, state)
    IN  /\ mem' = [mem EXCEPT ![s] = file]
        /\ ledger' = [ledger EXCEPT ![batch[s]] = file]

-------------------------------------------------------------------------------
(* Environment: the batch builder and the halt barrier.                     *)

BuildBatch(b) ==
    /\ b \notin built
    /\ built' = built \cup {b}
    /\ newest' = [newest EXCEPT ![TargetDate[b]] = b]
    /\ UNCHANGED <<ledger, lock, pc, local, world, others>>

\* The owner halts the request of b, or a fresh READY lifts the barrier.
MoveBarrier(b) ==
    /\ barred' = IF b \in barred THEN barred \ {b} ELSE barred \cup {b}
    /\ calls' = [calls EXCEPT ![b] = 0]
    /\ UNCHANGED <<disk, lock, pc, local, delivered, others>>

-------------------------------------------------------------------------------
(* One run of a sender.                                                     *)

\* The manifest is given; the lock is taken without waiting.  A process that
\* finds it taken reports TELEGRAM_SEND_LOCKED and changes nothing.
Start(s, b) ==
    /\ pc[s] = "idle" /\ b \in built
    /\ lock = Nobody
    /\ lock' = s
    /\ batch' = [batch EXCEPT ![s] = b]
    /\ Goto(s, "preflight")
    /\ UNCHANGED <<disk, mem, todo, cur, tries, world, others>>

\* Preflight, manifest re-read, date exclusion, configuration, chat identity
\* and artifact checks may each stop the run before the next side effect.
GiveUp(s) ==
    /\ pc[s] \in {"preflight", "load", "status", "next"}
    /\ Goto(s, "done")
    /\ UNCHANGED <<disk, lock, local, world, others>>

CheckSiblings(s) ==
    /\ pc[s] = "preflight"
    /\ Goto(s, IF SiblingAttempt(batch[s]) THEN "done" ELSE "load")
    /\ UNCHANGED <<disk, lock, local, world, others>>

\* Load or create the ledger, save it, and select within the scope that the
\* store filter leaves; any unresolved entry of the scope stops the run.
LoadAndSelect(s) ==
    LET b == batch[s]
        file == IF ledger[b] = Nobody THEN EmptyLedger ELSE ledger[b]
    IN  /\ pc[s] = "load"
        /\ mem' = [mem EXCEPT ![s] = file]
        /\ ledger' = [ledger EXCEPT ![b] = file]
        /\ \E scope \in SUBSET Keys, chosen \in SUBSET Keys :
             /\ chosen \subseteq scope \cap Sendable(file)      \* max_pdfs
             /\ IF scope \cap Unresolved(file) # {} \/ scope \cap Sendable(file) = {}
                THEN todo' = todo /\ Goto(s, "done")
                ELSE todo' = [todo EXCEPT ![s] = chosen] /\ Goto(s, "status")
        /\ UNCHANGED <<built, newest, lock, batch, cur, tries, world, others>>

\* The pre-send status message goes out only through the halt gate.
PreStatus(s) ==
    /\ pc[s] = "status"
    /\ Goto(s, IF batch[s] \in barred THEN "done" ELSE "next")
    /\ UNCHANGED <<disk, lock, local, world, others>>

\* Halt gate, then the api_started record before the first API call.
NextDocument(s) ==
    /\ pc[s] = "next" /\ todo[s] # {} /\ batch[s] \notin barred
    /\ \E k \in todo[s] :
         /\ cur' = [cur EXCEPT ![s] = k]
         /\ todo' = [todo EXCEPT ![s] = @ \ {k}]
         /\ Save(s, k, "api_started")
    /\ tries' = [tries EXCEPT ![s] = 0]
    /\ Goto(s, "gate")
    /\ UNCHANGED <<built, newest, lock, batch, world, others>>

NoMoreDocuments(s) ==
    /\ pc[s] = "next" /\ (todo[s] = {} \/ batch[s] \in barred)
    /\ Goto(s, "done")
    /\ UNCHANGED <<disk, lock, local, world, others>>

\* The gate is read again before every API call, retries included.
PassGateUnread(s) ==
    /\ pc[s] = "gate"
    /\ Goto(s, "post")
    /\ UNCHANGED <<disk, lock, local, world, others>>
PassGate(s) ==
    /\ pc[s] = "gate" /\ batch[s] \notin barred
    /\ Goto(s, "post")
    /\ UNCHANGED <<disk, lock, local, world, others>>

HaltedBeforeCall(s) ==
    /\ pc[s] = "gate" /\ batch[s] \in barred
    /\ Save(s, cur[s], "pending")
    /\ Goto(s, "done")
    /\ UNCHANGED <<built, newest, lock, batch, todo, cur, tries, world, others>>

\* Telegram's side: does this call leave a copy in the chat?
Copy(s) ==
    LET b == batch[s] IN
    /\ delivered[b][cur[s]] < MaxCopies
    /\ delivered' = [delivered EXCEPT ![b][cur[s]] = @ + 1]
NoCopy == delivered' = delivered

\* An answer with retry_after: sleep and call again, a bounded number of times.
RetryUncounted(s) == Goto(s, "gate") /\ tries' = tries
RetryUnbounded(s) == Goto(s, "gate") /\ tries' = [tries EXCEPT ![s] = @ + 1]
RateLimited(s) ==
    IF tries[s] < MaxRetries
    THEN Goto(s, "gate") /\ tries' = [tries EXCEPT ![s] = @ + 1]
    ELSE Goto(s, "refused") /\ tries' = tries

\* What sendDocument returns: success in the pinned chat or another one; an
\* answer that is not ok; a timeout or transport error (ambiguous); or 429.
Post(s) ==
    /\ pc[s] = "post"
    /\ calls' = [calls EXCEPT ![batch[s]] =
                    IF batch[s] \in barred /\ @ < 2 THEN @ + 1 ELSE @]
    /\ \/ Copy(s) /\ Goto(s, "accepted") /\ tries' = tries
       \/ Copy(s) /\ Goto(s, "rerouted") /\ tries' = tries
       \/ NoCopy /\ Goto(s, "refused") /\ tries' = tries
       \/ GatewayErrors /\ Copy(s) /\ Goto(s, "refused") /\ tries' = tries
       \/ (Copy(s) \/ NoCopy) /\ Goto(s, "doubt") /\ tries' = tries
       \/ NoCopy /\ RateLimited(s)
    /\ UNCHANGED <<disk, lock, batch, mem, todo, cur, barred, others>>

\* Record the answer.  A success continues; a copy in another chat stops the
\* run; any other failure stops it under fail_fast and continues without it.
Record(s) ==
    /\ pc[s] \in Answers
    /\ Save(s, cur[s], Recorded[pc[s]])
    /\ \/ pc[s] # "rerouted" /\ Goto(s, "next")
       \/ pc[s] # "accepted" /\ Goto(s, "done")
    /\ UNCHANGED <<built, newest, lock, batch, todo, cur, tries, world, others>>

\* Every return path goes through the finally clause that frees the lock.
Finish(s) ==
    /\ pc[s] = "done"
    /\ Exit(s)
    /\ UNCHANGED <<disk, world, others>>

\* A killed process: the kernel drops its flock, a call in flight may land.
Crash(s) ==
    /\ pc[s] # "idle" /\ crashes < MaxCrashes
    /\ crashes' = crashes + 1
    /\ Exit(s)
    /\ NoCopy \/ (pc[s] = "post" /\ Copy(s))
    /\ UNCHANGED <<disk, barred, calls, operator, clears>>

-------------------------------------------------------------------------------
(* clear-stuck-send-entry: no lock, newest batch of the date, whole file.   *)

ClearRead(d, k) ==
    LET b == newest[d] IN
    /\ operator = NoClear /\ clears < MaxClears
    /\ b # Nobody /\ ledger[b] # Nobody
    /\ ledger[b][k].state # "confirmed"
    /\ operator' = [batch |-> b, key |-> k, file |-> ledger[b]]
    /\ clears' = clears + 1
    /\ UNCHANGED <<disk, lock, pc, local, world, crashes>>

ClearSave ==
    /\ operator # NoClear
    /\ ledger' = [ledger EXCEPT ![operator.batch] =
                     SetEntry(operator.file, operator.key, "pending")]
    /\ operator' = NoClear
    /\ UNCHANGED <<built, newest, lock, pc, local, world, clears, crashes>>

-------------------------------------------------------------------------------
Step(s) ==
    \/ GiveUp(s) \/ CheckSiblings(s) \/ LoadAndSelect(s) \/ PreStatus(s)
    \/ NextDocument(s) \/ NoMoreDocuments(s) \/ PassGate(s)
    \/ HaltedBeforeCall(s) \/ Post(s) \/ Record(s) \/ Finish(s)

Next ==
    \/ \E b \in Batches : BuildBatch(b) \/ MoveBarrier(b)
    \/ \E s \in Senders : Step(s) \/ Crash(s) \/ \E b \in Batches : Start(s, b)
    \/ \E d \in Dates, k \in Keys : ClearRead(d, k)
    \/ ClearSave

Spec == Init /\ [][Next]_vars

\* A started run is executed by the operating system until it returns: every
\* API call has a timeout and every retry a bound.  Nothing makes anyone start
\* a run, build a batch or halt.
FairSpec == Spec /\ \A s \in Senders : WF_vars(Step(s))

-------------------------------------------------------------------------------
TypeOK ==
    /\ built \subseteq Batches
    /\ newest \in [Dates -> Batches \cup {Nobody}]
    /\ ledger \in [Batches -> LedgerFile \cup {Nobody}]
    /\ lock \in Senders \cup {Nobody}
    /\ pc \in [Senders -> Control]
    /\ batch \in [Senders -> Batches \cup {Nobody}]
    /\ mem \in [Senders -> LedgerFile]
    /\ todo \in [Senders -> SUBSET Keys]
    /\ cur \in [Senders -> Keys \cup {Nobody}]
    /\ tries \in [Senders -> 0..MaxRetries]
    /\ barred \subseteq Batches
    /\ calls \in [Batches -> 0..2]
    /\ delivered \in [Batches -> [Keys -> 0..MaxCopies]]
    /\ operator \in Clearing \cup {NoClear}
    /\ clears \in 0..MaxClears /\ crashes \in 0..MaxCrashes

\* A confirmed entry of any ledger file stands for a document that reached
\* the chat, whatever was cleared, crashed, retried or written from a stale copy.
ConfirmedMeansDelivered ==
    \A b \in Batches, k \in Keys :
        ledger[b] # Nobody /\ ledger[b][k].state = "confirmed"
            => delivered[b][k] > 0

\* Two batches built for one target date never both put documents in the
\* chat (_other_batch_attempt_reason), crashes and clears included.
OneBatchPerDate ==
    \A b, c \in Batches :
        /\ TargetDate[b] = TargetDate[c]
        /\ \E k \in Keys : delivered[b][k] > 0
        /\ \E k \in Keys : delivered[c][k] > 0
        => b = c

\* While nobody clears entries by hand, every delivered document is still
\* accounted for by an entry that no run selects again.
DeliveryAccounted ==
    \A b \in Batches, k \in Keys : delivered[b][k] > 0 =>
        /\ ledger[b] # Nobody
        /\ ledger[b][k].state \in {"confirmed", "api_started", "unsure"}

\* No document reaches the chat twice, across runs, crashes and retries.
AtMostOnce == \A b \in Batches, k \in Keys : delivered[b][k] <= 1

\* After a halt at most one document call of the batch goes out: the one that
\* had passed the gate already (the retry loop reads the gate again).
HaltLetsOneCallThrough == \A b \in barred : calls[b] <= 1

\* The ledger of a batch, once attempted, never looks unattempted again: it
\* keeps blocking sibling batches whatever is crashed or cleared.
AttemptIsForever ==
    [][\A b \in Batches : Attempted(ledger[b]) => Attempted(ledger'[b])]_vars

\* GOOGLE_OPS_BOARD_PHASE1_CONTRACT.md:400: a confirmed pdf_key is immutable.
ConfirmedImmutable ==
    [][\A b \in Batches, k \in Keys :
          (ledger[b] # Nobody /\ ledger[b][k].state = "confirmed")
              => ledger'[b][k].state = "confirmed"]_vars

\* Every run that took the channel lock gives it back: retries, failed
\* documents and halts do not keep other senders out for ever.
EveryRunEnds == \A s \in Senders : pc[s] # "idle" ~> pc[s] = "idle"

-------------------------------------------------------------------------------
(* What delivery promises to the owner's chat.                              *)
Promise == INSTANCE DeliveryPromise WITH
    copies <- delivered,
    acknowledged <- {d \in Batches \X Keys :
                        /\ ledger[d[1]] # Nobody
                        /\ ledger[d[1]][d[2]].state = "confirmed"}

\* Delivery without hand-made clears implements the promise.
ImplementsPromise == Promise!Spec

-------------------------------------------------------------------------------
(* What a closeout may rely on: the ledgers of the day, each as one word.   *)
DayStatus(b) ==
    IF b \notin built THEN "unbuilt"
    ELSE IF ledger[b] = Nobody THEN "absent"
    ELSE IF ~Attempted(ledger[b]) THEN "pending"
    ELSE IF \A k \in Keys : ledger[b][k].state = "confirmed" THEN "confirmed"
    ELSE "attempted"

Day == INSTANCE BatchDay WITH status <- [b \in Batches |-> DayStatus(b)]

\* Without hand-made clears the ledgers only move from absent to pending, tried
\* and confirmed, each by one step, and a ledger is first tried only while no other
\* batch of its date is: two senders, a crash or a batch built meanwhile included.
ImplementsDay == Day!Spec
===============================================================================
