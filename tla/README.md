# Verification of the retail operations core

TLA+ models of the parts of this repository that run concurrently, may stop
anywhere and touch the outside world: the daily closeout with its checkpoint, the
ledger of orders that must still be shipped, the waybill documents sent to a
Telegram chat, the owner's stop button, the owner's alerts, and the messages that
ask customers for a size. Each module is
translated from the code that `PROJECT.json` ("map") names for its definitions;
TLC checks small instances and the TLA+ proof system proves the central
properties for every value of the constants.

## The system

A Kaspi seller's daily closeout runs on one workstation. Launchd starts short
Python processes by the clock; they share JSON files under `runtime/state` and
`MERGED/SEND`, a Google Sheet (the *board*) that employees edit, an SQLite
database, and services that cannot be asked what they did.

| Component | Code | State | Operations | Talks to |
|---|---|---|---|---|
| Closeout and backstop | `scripts/run_google_ops_board_closeout.py`, `..._closeout_scheduler.py` | one checkpoint file per date, the automation lock | lock, load and rebase, scope, six stages, pin, deliver, finish | everything |
| Board day state | `core/ops/google_board_day_state.py` | store states of a day, in the checkpoint | set a state, without the lock | closeout, day control |
| Shipping obligations | `core/ops/waybill_shipping_obligations.py`, `scripts/reconcile_shipping_obligation_ledger.py` | one obligation ledger | select, reconcile, require, register; repair | closeout, Kaspi API |
| Order stages | `core/integrations/kaspi_order_stage.py`, `core/ops/expected_shipping_status.py` | none | classify a payload | obligations, selector |
| Telegram delivery | `scripts/send_waybills_telegram.py`, `core/integrations/telegram_bot.py` | one `telegram_send_ledger.json` per SEND batch, one channel-wide flock | a run: lock, preflight, sibling check, load and select, per document gate / record / call / record | halt barrier (reads), Telegram |
| Day control | `scripts/ops_day_control.py` | none of its own | clear a stuck entry, settle a store, terminate a day, send one store | delivery ledger, day state |
| Halt barrier | `scripts/google_ops_board_automation_common.py` | one barrier file | persist (`/halt`), evaluate (every gate; may rewrite the file) | all runners |
| Control bot | `scripts/waybill_telegram_control_bot.py` | update offset, pending READY | `/halt`, `/ready`, status commands | board, barrier, closeout |
| Watcher | `scripts/run_google_ops_board_closeout_watch_scheduler.py` | debounce file | poll, stamp a blank READY, launch the closeout | board, barrier |
| Alert outbox | `core/alerts/ops_alert_outbox.py` | append-only JSONL | enqueue, flush undelivered, flush held | Telegram |
| SEND batches, WhatsApp | `core/ops/waybill_send_batch.py`, `scripts/send_waybills_whatsapp.py` | manifest and WhatsApp ledger per batch | build, initialise, transition, resolve | delivery (manifest) |
| Size requests | `core/ops/customer_size_request.py`, the `kaspi_customer_chat` and `kaspi_customer_size` scripts | request ledger (SQLite) | plan, approve, check, send, record, accept; by hand: send, record; record a reply | customer chat, operators |
| Order sync | `core/sync` | orders in SQLite | upsert windows | Kaspi API |
| Money | `core/db/ledger.py`, `core/transfer_ledger` | ledger entries | post, import, match | exports, mail |
| Engines and reports | `core/calc`, `core/po`, `core/cashflow`, `core/sales`, `core/validation`, ... | tables | batch computations | database |

What is hard about it:

* **Doubt.** A Telegram call that times out may have delivered; an order that the
  API does not list may still be owed.
* **Crashes.** Any process may be killed between two steps. The kernel drops its
  flock and nothing else is undone; a sender goes on when its closeout dies.
* **Files without locks.** The halt barrier, the clear command, the day state, the
  repair tool and every reader of the outbox read, decide and write in separate
  steps.
* **Stale copies.** A closeout holds its checkpoint and its obligation ledger in
  memory for minutes and writes them whole.
* **Humans.** Employees edit single cells of the board, the operator settles
  stores by hand, and the owner halts, at any moment.

The properties that make each part correct: an OK on the board stands for a
confirmed batch of exactly the required stores, no batch is built once one may
have gone out but for two named overlaps, and an operator's mark is never lost
(closeout); an obligation
stays open until a terminal stage is seen, and a closeout requires what still
waits (obligations); a document reaches the chat at most once and only one batch
of a date ever does (delivery); a halted request never goes on (barrier); an
alert is never lost but in an incomplete line or by its age, never sent twice without a known reason and never sent while
it is held (outbox); a customer is asked again only for a known reason, and what a
customer answered is kept (size requests). `PROJECT.json` ("hazards") lists what a test would hardly
reach, line by line, with the properties that cover it.

## Modules

```
DeliveryPromise      what delivery promises: no processes, no files
BatchDay             the batches of a date and which of them may be tried: no processes
TelegramDelivery     senders, ledgers, lock, clear command
                                          implements DeliveryPromise and BatchDay
  TelegramDeliveryProofs, MCTelegramDelivery
HaltBarrier          barrier file, board row, gates, /halt, /ready, watcher
  HaltBarrierProofs, MCHaltBarrier
OrderStage           which stage an order is in: pure operators
ShippingObligations  the ledger of owed orders, closeout and repair tool   EXTENDS OrderStage
  ShippingObligationsProofs, MCShippingObligations
Closeout             a day of closeouts: lock, checkpoint, stages, batches, senders, marks
                                          implements BatchDay
  CloseoutProofs, MCCloseout
AlertOutbox          append-only file, deliveries, flushes
  AlertOutboxProofs, MCAlertOutbox
SizeRequests         request ledger, planner, live-send chain, operators, recorders
  SizeRequestsProofs, MCSizeRequests
```

The four state machines of the closeout's surroundings meet as follows.
`Closeout` has the day as a whole and shows of a batch only what the others read
of it: absent, pending, attempted or confirmed. `TelegramDelivery` is what happens
inside its sender, with `BuildBatch` for `Closeout`'s `Build`. The two are joined by
`BatchDay`: a batch is unbuilt, absent (no ledger yet), pending, attempted or
confirmed, in that order, and is first attempted only while no other batch of its
date ever was. `TelegramDelivery` implements it with ledgers of documents, a lock and
crashes (`DayStatus`); `Closeout`, which has those five words for a ledger, implements
it with closeouts that overlap, die and rebuild. So `Closeout` assumes of a sender no
more than its actions say, and the one promise that both make about a day holds of
both sides.
`ShippingObligations` is what happens between `Closeout`'s `Scope` and `Require`
and again at the end, with orders where `Closeout` has stores. `HaltBarrier` is
the gate in front of every external step, which appears elsewhere as a step that
may stop (`StopRun`, `MoveBarrier`).

An operator that stands directly above another one with the same parameters (say
`TimeoutMeansFailed` above `Recorded`) is a plausible bug in it; no definition
refers to it. It takes the other's place to show that a property can fail.

### Closeout

`run[r]` is a process: its step, the READY request it was started for (`want`),
the resumed stages (`done`), the stores it requires (`scope`), its copy of the
checkpoint (`mem`) and, as history, the stores settled when it scoped (`before`).
`file` is the checkpoint: which request it is for, the stages recorded as ok, the
pinned stores and batch, the attempt marker and the day states. `batch[b]` is a
folder under `MERGED/SEND`, `sender[b]` the process that delivers it and `waiting`
the closeout, if any, that waits for the one now at work. `editor` is what an
operator's tool read before it writes, and `byhand` the batch whose sender the tool
started. `path`, `fd` and `held` are the lock file's name, who has which inode open,
and who locked it. As history, `marks` are the stores settled by hand and `exposed`
those whose mark met a working closeout or was lost with the file; `rebuilt` says that a
batch was built after an attempt, `beside` that a sender which no closeout waits for
was the first to attempt a batch while a closeout worked, and `bypassed` that the
lock let two in.

| Action | Code |
|---|---|
| `Launch`, `Open`, `Flock`, `Unlock`, `Unlink` | `GoogleOpsBoardAutomationLock` around the subprocess: the lock belongs to the launcher, and `__exit__` removes the file by name |
| `Load` | with and without `--resume`: fresh checkpoint with the recorded day states, refusal, rebase for a new READY, or the contiguous valid stages |
| `Bind` | `_guard_request_delivery_attempt_binding`: all SEND folders of the date are searched for attempts |
| `Scope` | `_apply_store_day_state_scope` reads the day states from the file as it is now |
| `RunStage`, `Require`, `Build`, `BuildFails`, `SkipBuild` | the stages in order; each write puts the run's whole copy into the file |
| `Gate`, `LaunchSender`, `Returned` | manifest against required orders, attempt marker before the sender, ledger after it |
| `AutoSent`, `Finalize`, `LastWrite` | best-effort day states, OK on the board, the last write of the copy |
| `SenderStart`, `SenderStep`, `SenderEnd` | the sender, by what `TelegramDelivery` shows of it |
| `MarkRead`, `MarkWrite` | `set_store_day_state`: the last read, and the replacement |
| `SendByHand`, `AutoSentRead`, `MarkWrite`, `ToolEnd` | `send-store-telegram`: a sender for the newest batch, without the automation lock; AUTO_SENT for the named stores after it succeeded |
| `StopRun`, `KillLauncher`, `LoseCheckpoint`, `Stamp` | errors and halts, kills, a lost file, a new READY |

The contents of documents, sizes and reports are left out; a required order is
represented by its store, because day states, scopes and batches are per store.

The operator's tool picks the newest batch first and starts its sender later, and
between the two a closeout may build another one: `SendByHand` takes any batch that
was built. `--store` narrows what that sender sends; here a sender may stop at any
document, so a part is covered. A sender that finds nothing to send for the named
stores returns ok, and the tool then records AUTO_SENT for a store that the batch has
no document of: `AutoSentRead` allows it. A tool that finds the channel locked ends
without a write and is not shown.

One operator's tool runs at a time. This is an assumption about the operator, not
about the code: `set_store_day_state` takes no lock, and of two tools that read the
file before either replaces it, the second would drop the first one's mark.
`terminate-day` is one tool that makes several marks, one after the other.

### ShippingObligations and OrderStage

`truth[o]` is what Kaspi has of an order, as the payload fields that
`classify_kaspi_order_stage` reads, and `Moves` what may follow in an order's life.
`OrderStage!Classify` is that function rule by rule. The closeout keeps the orders
it selected (`active`), its copy of the ledger (`copy`), the orders somebody spared
(other store, waiver, settled store) and the `required` ones; the repair tool keeps
the file it read (`prior`) and its `candidate`.

| Action | Code |
|---|---|
| `Select` | `fetch_api_active_order_ids_by_store`: any part of what the window covers, since a failing page ends the listing without an error |
| `Reconcile` | exact reads under the budget, then `reconcile_shipping_obligations`; one uncovered uncertainty ends the run |
| `Require` | the ledger is saved, the required orders are the union of selection and unresolved entries, less the spared ones |
| `Ship`, `NothingToShip`, `Register` | the shipping stage or the zero-order branch, then `_register_current_obligations_after_success` saves the copy with the selected orders |
| `Decide`, `VerifyBackup`, `Apply`, `StopTool` | `reconcile_shipping_obligation_ledger.py`: decide on what was read (a contradictory order stays open), check that the file is still that, write |
| `Move`, `Tomorrow`, `StopRun` | orders change, days pass, runs fail anywhere |

Bulk reads are exact reads here (both give the order's payload or an error).

### TelegramDelivery

A sender is a process with a control label and four locals: the batch, its copy
of the ledger (`mem`), the documents still to send (`todo`) and the current one
(`cur`), with `tries` for the rate-limit loop. `ledger[b]` is the file of batch
`b` (`Nobody`: none yet). A ledger entry is its state and whether it has a
history, which is all that the sibling check reads.

| Action | Code |
|---|---|
| `Start`, `Finish`, `Crash` | flock of `_acquire_telegram_send_lock` and its `finally` |
| `CheckSiblings` | `_other_batch_attempt_reason`: a same-date batch with an attempt, or without a ledger, stops the run |
| `LoadAndSelect` | load or create, save, store filter, selection; an unresolved entry in scope stops the run |
| `NextDocument` | gate, `api_started` saved before the call |
| `PassGate`, `HaltedBeforeCall`, `Post`, `RateLimited` | `_send_document_with_rate_limit_retry` around `send_document` |
| `Record` | confirmed, unsure or failed; fail-fast or continue |
| `GiveUp` | every other early return before a side effect (configuration, artifacts, preflight) |
| `ClearRead`, `ClearSave` | `clear-stuck-send-entry`, which takes no lock: read and check, then write the whole file |
| `BuildBatch`, `MoveBarrier` | the batch builder and the halt gate's answer, as environment |

Data is abstracted to what a run tells apart: a document is its key, the store
filter and `max_pdfs` are arbitrary subsets, an answer is one of *accepted*,
*rerouted* (another chat id), *refused*, *doubt* (timeout) or *rate limited*.
`GatewayErrors` adds an error reply for a document that was taken. `delivered`
counts copies in the chat and exists only in the model.

### HaltBarrier

`row[d]` is the Run_Control row of date `d` in the legacy_v3 layout (READY/HOLD
and `ready_set_at`); `barrier` the single-slot file; each process has the row it
read (`seen`), its request (`job`) and the barrier it is about to write (`snap`).
A gate is three steps without a lock: read the row (`Poll` and `Watch`,
`ReadStamp`, `ReadLive`, `ReadManifest`, `ReadBack`), load and evaluate
(`Evaluate`), write the whole barrier back when something was proven (`Write`).
The predicates `RequestHalted`, `ExactHold`, `PostHalt`, `Proven`, `Blocked` and
`AllowFreshBlank` are the parts of `evaluate_closeout_halt_barrier`; `Persist`
is `persist_closeout_halt_barrier`. `/halt` is `HaltCommand`, `SetHold`,
`ReadBack`, an evaluation and `HaltCommitted`, or `HaltFails` at any point with
`HaltReplay` or `HaltDropped` (the message is too old) after it. `WriteStamp`
writes the whole row that was read, as the legacy layout does.

Two approximations: the bot's load and save of the barrier in `persist`, and its
read and write of the row, are one step each (only the bot does either); a
closeout started by the bot is the bot itself, since its one thread waits for it.

### AlertOutbox

`file[a]` is the latest event of an alert that can be parsed, which is all that
`_latest_entries` returns; `torn` says that the last line is incomplete, and the
next append is glued to it and lost with it. The texts are not ASCII, so a cut may
fall inside a character: then the file is no UTF-8 (`unreadable`), every later
flush and every enqueueing with a key raises, and only `OSError` is caught. Nothing in the
code repairs such a file. A read that fails with `OSError` looks like an empty file.

| Action | Code |
|---|---|
| `Enqueue` | `enqueue_alert` up to the append: with a key, the duplicate check by the caller's own `dedup_window`; the check finds nothing when its read fails (`blind`) |
| `AppendQueued`, `QueuedFails` | `_append_event` of the queued event: written, nothing written, a part of the line, or the whole line before `fsync` raised |
| `Send`, `Record` | `_deliver`: up to three sends, then the outcome is appended and a failing append swallowed |
| `FlushUndelivered`, `FlushHeld`, `TakeUndelivered`, `TakeHeld`, `Release` | a flush takes snapshots (`todo`) and works on them later; a held alert is released by an event of its own |
| `Crash`, `Tick` | a killed process, the clock |

An alert that no flush delivered within `max_age_hours` is given up by
`flush_undelivered`, which `Recoverable` says; held ones have no age. `messy`,
`racing`, `glued` and `blind` are histories that name the exact exceptions under
which an alert may be sent twice, duplicated or lost.

Three approximations: a line that lacks only its newline is treated as an incomplete
one that does not parse; the texts have none of the Unicode line separators at which
`splitlines` would cut an event in two; and the wall clock never goes back. A flush
whose read fails does nothing, so it is no step.

### SizeRequests

`ledger` is the set of rows: the order, the ledger key (a hash that includes the
sku, which the order sync may complete later), the status, and whether
`request_sent_at` and a size are set. `pc[c]` and `call[c]` are a run of the planner
or of a recorder, or an operator at work, with what it read; `stage[a]` is how far
an approval directory has come. `asks` and `replies` are the world's; the rest is
history that names each exception the properties make.

| Action | Code |
|---|---|
| `PlanRead`, `PlanLookup`, `PlanSave` | `load_missing_size_candidates`, the lookup by key and by order, then the upsert with its CASE on the status and the merge of duplicate rows in one transaction |
| `Approve`, `Preflight`, `Ready`, `RecordResult` | the approval packet, the preflight, and the executor before and after the message; they read the ledger and write files of the approval directory |
| `AcceptRead`, `AcceptSave` | `record_live_send_canary_acceptance` |
| `Pick`, `ManualRead`, `ManualSave` | the manual-assist queue and `record_manual_size_request_action` |
| `ReplyRead`, `ReplySave` | `record_customer_reply_observations` |
| `HelperSends`, `OperatorSends`, `Enrich`, `Close`, `Crash` | the browser helper, people, the order sync, failures |

A recorder reads in autocommit mode and its transaction begins with its UPDATE, so
each call is two steps. A plan of several orders is several calls, all but the
first of which look their rows up inside the transaction. One template, the default
of every script, is asked for. `POLLING`, `REPLY_OBSERVED`, `SIZE_CONFIRMED`,
`UNKNOWN_SEND_OUTCOME` and `SEND_IN_PROGRESS` are written by no code and left out;
the five manual outcomes without a message are one status (`set_aside`).

## Runs

| Run | Instance | Shows |
|---|---|---|
| `delivery_core` | 2 same-date batches, 2 documents, 2 senders, 2 retries, 2 crashes, fairness | `AtMostOnce`, `DeliveryAccounted`, `HaltLetsOneCallThrough`, `ImplementsPromise`, `ImplementsDay`, `EveryRunEnds`, types |
| `delivery_clears` | 2 batches, 2 documents, 1 sender, 1 clear, 1 crash, gateway errors | what survives hand-made clears and false refusals: `ConfirmedMeansDelivered`, `OneBatchPerDate`, `AttemptIsForever` |
| `halt_gates` | 2 dates, 2 workers that overlap on the first, clock 2, 2 halts | `IgnoredOnlyIfLost`, `TodaysHaltHolds`, `NoPassWithoutFreshReady`, types |
| `alert_delivery` | 2 processes, 2 alerts; all kinds without a key, plain ones with a key, a clock, windows of 1 and 2 and a file that no longer decodes | `SentOnlyWhenAllowed`, `Recoverable`, `OnceUnlessMessy`, `DedupHolds`, types |
| `obligations_days` | 2 orders, 2 days, budget 1, 1 repair | `NeverDropped`, `DischargedMeansDone`, `RequiredCoversPromised`, `RequiredWasSeen`, types |
| `closeout_day` | 2 processes, 3 launches, 2 stores, 2 requests, 2 batches, 1 sender by hand, 1 fault | `OkMeansDelivered`, `OneReadyDelivered`, `NothingBuiltAfterAttempt`, `SettledNotSent`, `MarksSurvive`, `OneCloseoutAtATime`, `ImplementsDay`, types |
| `size_requests` | 1 order, 2 keys, 2 callers, 2 approvals, 2 messages, 2 replies | `AskedAgainKnown`, `ReopenedKnown`, `SizeKept`, `SentNeverForgotten`, `OneRowPerOrder`, types |
| `confirmed_overwritten` | 1 sender, 1 clear | finding: a confirmation can be lost |
| `halt_lost_to_gate` | 1 date, 1 worker | finding: a gate's stale write removes a newer halt |
| `stale_ready_stamped` | 1 date, 1 worker, 1 halt | finding: the watcher stamps a READY from before the halt |
| `obligations_zero` | 2 orders, no repair | finding: a failed page of the listing makes a zero-order completion |
| `closeout_rebuilt` | 1 process, 2 requests | finding: a batch that was only built bars the next one |

Bounds. `MaxRetries`, `MaxTries`, `MaxAge`, `Windows` and `MaxOpen` are constants of
the code made small; the other `Max...` bound the environment. Two documents are
needed for a run to go on after one; two senders for the lock and for a restart
next to a crash; two batches for the sibling rule; `MaxCopies` = 2 tells a second
copy from a first. Two halts and two times are what it takes to lose a halt to an
older copy or another date, and equal times are included. Two days and a window of
0 age an order beyond the selector; two open orders exhaust a budget of one; the
situations accepted, cancelling, handed and archived are one packable, one
transitional, one discharging and one that tells nothing, and the others
(issued, cancelled, returning, returned) differ from these only in the name of the
stage. Two processes and three launches let a closeout follow a killed one while
its sender lives; two requests and two batches are one rebase and one rebuild; one
sender by hand is enough to send the older batch while the younger is built. Two
windows are a caller whose repeats come sooner than another caller allows.
Every call on the request ledger concerns the rows of one order, so one order is
enough; two keys make duplicate rows, two callers a lost update, two messages a
second one, and two replies an answer after an unclear one.

Constraints cut products of independent things, each named in its MC module:
`KindsOrKeys` (kinds and repeats of alerts, or keys, windows, a clock and a file that
no longer decodes), `OverlapOnFirstDate` (two workers at once only before midnight),
`FirstIsDueFirst` (the first order is due on day one) and `AtMostTwoTroubles` (of a
second READY, marks, a sender by hand and a fault at most two, and none of the first
three once the lock was bypassed, where a fault leaves two launches; with marks or a
sender by hand two launches and one process at a time, and beside a fault or a sender
by hand marks of one store). The theorems
have none of these bounds. Symmetry is used where documents, senders, workers,
processes, stores, alerts, callers or keys are interchangeable, never in a run with
a liveness property. Deadlock is checked except where the pool of alerts, of days,
of launches or of messages runs out.

Fairness. Only `EveryRunEnds` needs any: `WF_vars(Step(s))`, a started process is
scheduled until it returns. The code justifies it: every HTTP call has a timeout,
the rate-limit loop counts its retries, and the lock is taken without waiting.
Nobody is assumed to start a run, to halt or to crash. No liveness is stated of
closeouts: what starts them again is a person's READY, which nothing promises.

### What the findings say

Five runs end in a counterexample; `PROJECT.json` ("findings") quotes the text that
each one contradicts.

* *Ledger.* The clear command may write back an entry that a running sender
  confirmed in between.
* *Stop.* A gate that proved something about an older barrier overwrites a newer
  halt; and the watcher combines a row read before HOLD with a barrier loaded
  after it. `IgnoredOnlyIfLost`, `TodaysHaltHolds` and `NoPassWithoutFreshReady`
  bound the damage.
* *Obligations.* The selector does not notice a page that failed, so an order that
  no earlier closeout registered can be missing from a closeout that ends well.
  `RequiredCoversPromised` says that registered orders are safe from this.
* *Closeout.* A batch that was built and not sent bars every later batch of the date,
  since a sender cannot tell it from an attempted one. It blocks and sends nothing
  wrong (`OkMeansDelivered`, `ImplementsDay`).

Seven more things the models show. Every HTTP error reply counts
as "not sent", a gateway's included, and such a document is sent again. The
barrier has one slot, so a halt for another date replaces one that is still in
force; `TodaysHaltHolds` says that no halt of the running date is lost like this,
since only a halt of the date that runs at its arrival takes the slot. And the delivery stage is recorded by the sender's return code: the record
may say ok for a batch that is not confirmed, which `OkMeansDelivered` survives
because a resume reads the ledger again. A store settled before the first closeout
of a date leaves a file that a resuming closeout refuses (`Load`). A sender started by
hand for an unsent older batch, between a closeout's search for attempts (`Bind`) and
its `Build`, leaves a batch built after an attempt without any fault; the new batch is
then refused by the sibling rule, so nothing is sent twice (`ImplementsDay`), but the
closeout cannot end. One alert cut inside a character stops every flush of the outbox
until somebody edits the file. And the upsert
keeps fewer statuses than the recorders do: an order whose reply showed no size is
planned again by the next plan and then passes both checks before a message, so its
customer may be asked again; `AskedAgainKnown` and `ReopenedKnown` say that nothing
but this, overlapping checks, an unrecorded message and a recorder's lost race can
do that.

## Proofs

`TelegramDeliveryProofs` (any batches, keys, dates, senders, bounds):

* `TypeCorrect`: types.
* `ConfirmedCorrect`, `OneBatchCorrect`, `AttemptCorrect`: the three properties
  that survive clears and gateway errors. One-batch-per-date needs the ledger
  file to follow the sender: a batch in the chat has an attempted file, an
  attempted file stays attempted, and the sender past `CheckSiblings` holds the
  lock while no sibling is attempted, so no sibling becomes attempted beside it.
* `HaltCorrect` from `HaltInv`: while a sender past the gate has yet to make its
  call, no call was made since the barrier bars the batch, and the lock leaves it
  the only sender.
* `OnceCorrect`, `AccountedCorrect` and `PromiseCorrect` assume `Trusting` (no clears, no gateway
  errors), without which they are false. The invariant says that the sender's copy
  and the file agree, and that a document in the chat has an entry that no
  selection takes, so that a document about to be posted has no copy yet.
* `DayCorrect` assumes `MaxClears = 0`: what an operator empties by hand goes back
  to pending. `DayStep` maps each step to one of `BatchDay` or to a stutter;
  `SiblingsUntried` says that a sender past `CheckSiblings` sees no other batch of
  its date tried until it ends.

`HaltBarrierProofs` (any dates, workers, clock, number of halts):

* `TypeCorrect`: types.
* `IgnoredCorrect`. `IgnoredOnlyIfLost` is not inductive: a gate that is about to
  write may restore an older barrier. `HaltInv` adds that the file covers every
  halt that was not lost (same date, not older), and that the copy of a gate
  about to write covers every halt that existed when it loaded the file.
* `PassCorrect`. `PassInv` adds that every stamp in the row, a copy of it or a
  request was once carried by a READY (`StampsKnown`), and that a barrier marked
  superseded, in the file or in a copy to be written, has a stamp later than it
  (`Supersessions`).
* `TodayCorrect` from `DateInv`: no halt names a date that is still to come, and a
  halt that another one replaced names a date that has passed.

`ShippingObligationsProofs` (any orders, groups, window, budget, days, repairs):

* `TypeCorrect`, `ObligationsKept`, `DischargesSound`, `PromisedIsRequired` and
  `RequiredIsFresh` come from one invariant. What must stay open in the file must
  stay open in every copy that may be written over it: the closeout's copy between
  its two saves (`CopyInv`) and the repair's candidate against the file it was read
  from (`CandidateInv`), where `VerifiedInv` says that after its check of the file
  only entries rewritten in the window differ from it. `SeenInv` and `OwedInv` say
  why the copy holds as unresolved exactly what the run has seen waiting or spared.
* `PoliciesAgree`: the selection and the ledger's policy classify a payload by
  different rules (`Classify`, `ObligationStage`) and yet agree, for every payload, on
  whether the order is to be shipped. `RequiredCoversPromised` rests on it.

`CloseoutProofs` (any processes, stores, requests, batches, launches, faults):

* `TypeCorrect`, and `LockExcludes` from `LockInv`: unless it was bypassed, whoever
  works has its launcher's lock, every lock is on the inode that has the name, and
  nobody else has it locked.
* `DeliveredWhenOk`. `RunInv` follows a run: its copy is for its own request, past
  the build it has a pinned batch for that request and for the required stores, and
  past the delivery, resumed or not, that batch is confirmed. `FolderInv` and
  `FolderKept` say that a batch never changes its request or stores and a confirmed
  ledger stays so.
* `MarksKept` and `SettledLeftOut` from `MarkInv`: a mark that was not exposed, and
  whose store the tool has not sent since, is in
  the file, in the tool's copy and in the copy of every run, and a run that has
  scoped leaves the store out of what it requires.
* `OneDeliveryADay` from `AloneInv`: whoever is waited for is at its delivery step,
  past the build (`Waited`), so a sender that attempts a batch beside a run which is
  still to build is either one that nobody waits for (`beside`), or one whose run and
  that run are two that work at once (`bypassed`). Without both, a run that is still
  to build has seen no attempted batch and there is none (`Clean`).
* `DayCorrect` from `ChannelInv`: one sender at a time, and a sender that was not
  refused sees no other batch tried. It needs neither the automation lock nor the
  checkpoint. `OneBatchTried` is `BatchDay`'s theorem `OneTriedADay` carried over, and
  `OneReadyCorrect` joins it with `DeliveredWhenOk`: two READYs shown as OK that had
  something to send were delivered by the same batch, so they are the same.

`AlertOutboxProofs` (any callers, alerts, keys, windows, tries, clock):

* `TypeCorrect`, with `InHand`: a process has an alert in hand exactly while it
  appends or delivers it.
* `SentCorrect` from `Provenance`: every event, in the file, in a snapshot or in
  hand, agrees with what the alert was enqueued as, and one that is not held any
  more was released or never held.
* `RecoverableCorrect` from `Outcomes`: what says delivered was sent, and an
  accepted alert whose event was not glued is in the file; with `Provenance`, one that
  is not delivered is one of the events a flush takes unless its age excludes it.
* `OnceCorrect` from `Handled`: two processes hold one alert only as `messy`, an
  alert that was sent is in the hands of one that has yet to send it only as
  `messy`, and is deliverable in the file only while its sender has yet to record.
* `DedupCorrect` from `Spaced`: whatever may still reach the file was appended, and
  a later enqueueing that can read the file finds it, by its own window, unless it
  was glued, or is being appended, and then the calls overlap.

`SizeRequestsProofs` (any orders, keys, approvals, callers, messages, replies):

* `TypeCorrect`, `OneRowCorrect`, `SentCorrect` and `SizeKeptCorrect` need little
  more than what each of the four writing actions does to a row (`PlannedRows`,
  `UpdatedRows`, `RepliedRows`); the best-ranked row that a merge keeps is a
  classified one if there is any.
* `ReopenedCorrect` from `RowsKnown`: a planned row may come from one that was set
  aside or had an unclear reply, so those carry the reason as well.
* `AskedAgainCorrect` from `ChecksKnown`: an approval or an operator past a check
  that came after a message passed it because the ledger was not told or because of
  a row that `RowsKnown` explains; what is asked later is only counted.

The assumptions are those named in the modules: the processes are a finite set
(`ProcessesAssumption`; an unused inode must exist), `TargetDate` is a function,
`Nobody`, `Absent` and `None` are no ordinary values, `Bot` is no worker,
`Situations` are known ones, and the bounds are natural numbers.

### What the refuted contracts lack

A counterexample shows one way for a contract to fail; these theorems show that
there is no other. Each has the contract, or what a guarantee of the model excepts,
under one more assumption about every step or state, which is what a change of the
code would give:

| Theorem | Assumed of every behaviour | Then |
|---|---|---|
| `LockedClearsKeepConfirmed` | no run holds the channel lock while a clear is between its read and its save (`Exclusive`) | `ConfirmedImmutable`, gateway errors and crashes included |
| `WindowIsTheCause` | no halt is persisted while a gate holds a barrier that it will write (`HaltsBetweenWrites`) | `BarredWhileGatesRace` |
| `LockedGatesObeyToday` | the same | no request goes on that a halt of the running date bars |
| `FullListingOwesNothing` | a listing that is used is complete (`FullListing`) | `ZeroOrderMeansNothingOwed` |
| `LockedCheckSpaces` | one enqueueing at a time is between its duplicate check and its append (`OneEnqueuer`) | alerts of one key are the later caller's window apart, unless an event was glued or a check read nothing (`SpacedIfRead`) |
| `TransactionsKeepSizes` | one caller at a time is between its read and its save (`OneSaver`) | a classified size stays ready until a later reply, and only an unclear reply has a row planned again |

Every assumption is met by behaviours in which all actions occur: those where
processes take turns. The proofs find the
invariant that the missing lock breaks: every copy that will be saved equals the file
(`SyncInv`), knows every halt (`RaceInv`), or was read from the row it will save over
(`StillAsRead`).

Only model-checked: `EveryRunEnds`, liveness being out of the prover's reach, and the
counterexamples. For `ManifestIsNoAttempt` and `StaleReadyStaysBarred` no assumption
short of the contract itself was found worth a theorem: the first needs a rule for
when a batch may be built that the code has no trace of, the second that a row read
before a halt is never combined with a barrier loaded after it.

## Not modelled

Left out on purpose: wording and layout of messages, captions and reports, file
formats, the sheet's split_v1 layout, the unreadable-barrier branch (blocks
everything), the watcher's opt-in automatic size fill, and dry runs, which write
only evidence files of their own.

Of the closeout: preflight and readiness reports, the size stage's own
computation, the shipped-truth sync's own work and the daily index. Of the
shipping policies: the classifier for database rows, the CRM reflection and the
handover watch, which are pure functions that no modelled state depends on.

* WhatsApp ledger: a retired channel; the closeout never launches that sender.
* Size requests: the board patch that takes a classified size to the sheet, the
  no-send probes, the resident browser controller, and packets and reports, which
  only read the ledger.
* Order sync, stock and transfer ledgers, run tracking: rows of an SQLite database,
  changed by hand-started commands under its transactions.
* Clients of Kaspi, mail and exchanges: their answers are inputs of the modules.
* Engines, reports, parsers, workbook tools and the policy registry: computations
  over tables and files in one process, most of the repository's lines. They have
  no interleavings, retries or recoveries; tests of their numbers say more about
  them than a model would.
