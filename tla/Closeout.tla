-------------------------------- MODULE Closeout --------------------------------
(***************************************************************************)
(* One day of closeouts (scripts/run_google_ops_board_closeout.py): the      *)
(* automation lock they run under, the day's checkpoint file, the stages     *)
(* that a later run resumes, the send batches that are built and pinned, the *)
(* sender that is started as a process of its own, and the operator's tool   *)
(* (scripts/ops_day_control.py), which without that lock starts a sender too *)
(* and writes the day states of stores (core/ops/google_board_day_state.py)  *)
(* into the same checkpoint file.                                           *)
(*                                                                          *)
(* A batch is delivered as TelegramDelivery says; here its ledger is absent, *)
(* pending, attempted or confirmed.  READY requests of the day are numbered. *)
(*                                                                          *)
(* A definition that stands directly above another one with the same        *)
(* parameters is a plausible bug in it; nothing refers to it.               *)
(***************************************************************************)
EXTENDS Integers, FiniteSets

CONSTANTS
    Runs,           \* processes that may run a closeout
    Stores,
    MaxReady,       \* bound: READY requests of the day
    MaxBatches,     \* bound: batches built for the day
    MaxLaunches,    \* bound: closeouts launched
    MaxByHand,      \* bound: senders started by the operator's tool
    MaxFaults       \* bound: processes killed and checkpoints lost

ASSUME ProcessesAssumption == IsFiniteSet(Runs) /\ Runs # {} /\ Stores # {}
ASSUME BoundsAssumption ==
    /\ MaxReady \in Nat \ {0} /\ MaxBatches \in Nat /\ MaxLaunches \in Nat
    /\ MaxByHand \in Nat /\ MaxFaults \in Nat

VARIABLES
    ready, finished,        \* the board: the READY request, the requests stamped OK
    file,                   \* the checkpoint
    batch, sender,          \* the SEND folder, and the sender process of each batch
    waiting,                \* the closeout that waits for the sender now at work
    run,                    \* the closeouts
    path, fd, held,         \* the lock file: its name, who has what open, who locked
    editor,                 \* the operator's tool between its read and its write
    byhand,                 \* the batch whose sender the operator's tool has started
    launches, handed, faults,
    marks,      \* history: stores the operator has settled, and not sent since
    exposed,    \* history: marks written while a closeout ran, or lost with the file
    rebuilt,    \* history: a batch was built after one was attempted
    beside,     \* history: while a closeout worked a sender nobody waits for sent
    bypassed    \* history: the lock was dropped, or unlinked while open elsewhere

board == <<ready, finished>>
folder == <<batch, sender, waiting>>
lock == <<path, fd, held>>
tool == <<editor, byhand>>
counters == <<launches, handed, faults>>
history == <<marks, exposed, rebuilt, beside, bypassed>>
vars == <<board, file, folder, run, lock, tool, counters, history>>

-------------------------------------------------------------------------------
StageOrder == <<"size_writeback", "shipping", "download_waybills",
                "build_waybills", "delivery_send", "shipped_truth_sync">>
StageNames == {StageOrder[i] : i \in DOMAIN StageOrder}
External == {"shipping", "download_waybills", "build_waybills", "delivery_send"}

\* "SETTLED": fulfilled by hand or postponed.
DayStates == {"PENDING", "AUTO_SENT", "SETTLED"}

Batches == 1..MaxBatches
Checkpoint == [kind : {"absent", "marks only", "closeout"}, for : 0..MaxReady,
               stages : SUBSET StageNames, required : SUBSET Stores,
               pin : 0..MaxBatches, attempt : BOOLEAN, days : [Stores -> DayStates]]
Absent == [kind |-> "absent", for |-> 0, stages |-> {}, required |-> {},
           pin |-> 0, attempt |-> FALSE, days |-> [s \in Stores |-> "PENDING"]]

Unbuilt == [for |-> 0, stores |-> {}, ledger |-> "absent"]
Built == {b \in Batches : batch[b].for # 0}
IsNext(b) == b \notin Built /\ \A a \in 1..(b - 1) : a \in Built
Attempted(b) == batch[b].ledger \in {"attempted", "confirmed"}

Outside == {"idle", "open", "flock", "unlock", "unlink"}
Steps == {"load", "bind", "scope", "size_writeback", "required", "shipping",
          "download_waybills", "build_waybills", "gate", "launch", "sending",
          "auto_sent", "shipped_truth_sync", "finalize", "last"}
Idle == [pc |-> "idle", want |-> 0, done |-> {}, scope |-> {}, before |-> {},
         mem |-> Absent]

Working(r) == run[r].pc \in Steps
At(r, step) == run[r].pc = step
Goto(r, step) == run' = [run EXCEPT ![r].pc = step]

\* A run that ends has its lock released, if somebody holds it for the run.
End(r) ==
    run' = [run EXCEPT ![r] = [Idle EXCEPT !.pc = IF r \in held THEN "unlock" ELSE "idle"]]

Init ==
    /\ ready = 1 /\ finished = {}
    /\ file = Absent
    /\ batch = [b \in Batches |-> Unbuilt] /\ sender = [b \in Batches |-> "none"]
    /\ waiting = {}
    /\ run = [r \in Runs |-> Idle]
    /\ path = 0 /\ fd = [r \in Runs |-> 0] /\ held = {}
    /\ editor = <<>> /\ byhand = 0 /\ launches = 0 /\ handed = 0 /\ faults = 0
    /\ marks = {} /\ exposed = {}
    /\ rebuilt = FALSE /\ beside = FALSE /\ bypassed = FALSE

-------------------------------------------------------------------------------
(* GoogleOpsBoardAutomationLock.  The launcher of a closeout holds the lock  *)
(* for it; a lock is on the file that was opened, whatever its name is now.  *)

Inodes == 1..(Cardinality(Runs) + 1)
Unused == CHOOSE i \in Inodes : i # path /\ \A r \in Runs : fd[r] # i

\* The watcher, the backstop or a person starts a closeout for the READY that
\* stands on the board and has no OK status.
Launch(r) ==
    /\ At(r, "idle") /\ launches < MaxLaunches /\ launches' = launches + 1
    /\ ready \notin {f.for : f \in finished}
    /\ run' = [run EXCEPT ![r].pc = "open", ![r].want = ready]
    /\ UNCHANGED <<board, file, folder, lock, tool, handed, faults, history>>

Open(r) ==
    /\ At(r, "open") /\ Goto(r, "flock")
    /\ path' = IF path = 0 THEN Unused ELSE path
    /\ fd' = [fd EXCEPT ![r] = path']
    /\ UNCHANGED <<board, file, folder, held, tool, counters, history>>

ContendedNever(r) == FALSE
Contended(r) == \E q \in held : fd[q] = fd[r]

Flock(r) ==
    /\ At(r, "flock")
    /\ IF Contended(r)
       THEN /\ run' = [run EXCEPT ![r] = Idle]
            /\ fd' = [fd EXCEPT ![r] = 0] /\ UNCHANGED held
       ELSE Goto(r, "load") /\ held' = held \cup {r} /\ UNCHANGED fd
    /\ UNCHANGED <<board, file, folder, path, tool, counters, history>>

Unlock(r) ==
    /\ At(r, "unlock") /\ Goto(r, "unlink")
    /\ held' = held \ {r} /\ fd' = [fd EXCEPT ![r] = 0]
    /\ UNCHANGED <<board, file, folder, path, tool, counters, history>>

\* The file is removed by name, whichever file has the name by now.
Unlink(r) ==
    /\ At(r, "unlink") /\ Goto(r, "idle")
    /\ path' = 0
    /\ bypassed' = (bypassed \/ \E q \in Runs : path # 0 /\ fd[q] = path)
    /\ UNCHANGED <<board, file, folder, fd, held, tool, counters, marks, exposed,
                   rebuilt, beside>>

-------------------------------------------------------------------------------
(* What a run resumes.                                                      *)

FreshWithoutDays(r) == [Absent EXCEPT !.kind = "closeout", !.for = run[r].want]
Fresh(r) ==
    [Absent EXCEPT !.kind = "closeout", !.for = run[r].want, !.days = file.days]

\* A stage counts if it is recorded as ok, a build or delivery only with its pin,
\* a delivery only if its ledger confirms every document now.
ValidByRecord(c, stage) ==
    /\ stage \in c.stages
    /\ stage \in {"build_waybills", "delivery_send"} => c.pin # 0
Valid(c, stage) ==
    /\ stage \in c.stages
    /\ stage \in {"build_waybills", "delivery_send"} => c.pin # 0
    /\ stage = "delivery_send" => batch[c.pin].ledger = "confirmed"

Contiguous(c) ==
    {StageOrder[i] : i \in {j \in DOMAIN StageOrder :
                                \A k \in 1..j : Valid(c, StageOrder[k])}}

\* Batches of the day that may have been attempted, by their ledgers or by the
\* marker of the checkpoint in hand.
AttemptsByMarker(c) == {b \in Built : c.attempt /\ b = c.pin}
Attempts(c) == {b \in Built : Attempted(b) \/ (c.attempt /\ b = c.pin)}

\* _guard_request_delivery_attempt_binding
Bound(r) ==
    LET c == run[r].mem IN
    \/ Attempts(c) = {}
    \/ /\ Attempts(c) = {c.pin} /\ batch[c.pin].for = run[r].want
       /\ "build_waybills" \in run[r].done

\* _rebase_checkpoint_for_ready_request refuses another request's checkpoint
\* after an attempt; a missing ledger after an attempt is refused as well.
Resumable(r) ==
    /\ file.for # run[r].want =>
        ~file.attempt /\ (file.pin # 0 => ~Attempted(file.pin))
    /\ file.for = run[r].want /\ file.attempt => batch[file.pin].ledger # "absent"

Current(r) == ready = run[r].want

LoadFresh(r) ==
    run' = [run EXCEPT ![r].pc = "bind", ![r].mem = Fresh(r)]

Load(r, resume) ==
    /\ At(r, "load") /\ Current(r)
    /\ IF ~resume \/ file.kind = "absent" THEN LoadFresh(r)
       ELSE IF file.kind = "marks only" \/ ~Resumable(r) THEN End(r)
       ELSE IF file.for # run[r].want THEN LoadFresh(r)
       ELSE run' = [run EXCEPT ![r].pc = "bind", ![r].mem = file,
                               ![r].done = Contiguous(file)]
    /\ UNCHANGED <<board, file, folder, lock, tool, counters, history>>

Bind(r) ==
    /\ At(r, "bind") /\ Current(r) /\ Bound(r) /\ Goto(r, "scope")
    /\ UNCHANGED <<board, file, folder, lock, tool, counters, history>>

\* The required orders of a settled store are left out, by the file as it is now.
Scope(r) ==
    /\ At(r, "scope")
    /\ run' = [run EXCEPT ![r].pc = "size_writeback", ![r].before = marks,
                          ![r].scope = {s \in Stores : file.days[s] # "SETTLED"}]
    /\ UNCHANGED <<board, file, folder, lock, tool, counters, history>>

-------------------------------------------------------------------------------
(* The stages.  Each write puts the run's whole copy into the file.         *)

Recorded(c, stage, ok) ==
    [c EXCEPT !.stages = IF ok THEN @ \cup {stage} ELSE @ \ {stage}]

\* A stage whose subprocess either succeeds or fails, and is recorded.
RunStage(r, stage, next) ==
    /\ At(r, stage)
    /\ IF stage \in run[r].done THEN Goto(r, next) /\ UNCHANGED file
       ELSE /\ Current(r)
            /\ \E ok \in BOOLEAN :
                /\ file' = Recorded(run[r].mem, stage, ok)
                /\ IF ok THEN run' = [run EXCEPT ![r].pc = next, ![r].mem = file']
                   ELSE End(r)
    /\ UNCHANGED <<board, folder, lock, tool, counters, history>>

AnyScope(r) == TRUE
SameScope(r) == run[r].scope = run[r].mem.required

\* Resumed external stages need the orders they were run for; otherwise the
\* required orders are pinned.  With none the run has nothing to send.
Require(r) ==
    LET c == [run[r].mem EXCEPT !.required = run[r].scope]
        next == IF run[r].scope = {} THEN "finalize" ELSE "shipping"
    IN  /\ At(r, "required")
        /\ IF run[r].done \cap External # {}
           THEN SameScope(r) /\ Goto(r, next) /\ UNCHANGED file
           ELSE file' = c /\ run' = [run EXCEPT ![r].pc = next, ![r].mem = c]
        /\ UNCHANGED <<board, folder, lock, tool, counters, history>>

\* The build makes a new batch.  Pinned and recorded, it is the run's; the run may
\* also end in between, or fail to pin it, by whatever the build returned.
Build(r) ==
    LET pinned(b) == [Recorded(run[r].mem, "build_waybills", TRUE) EXCEPT !.pin = b]
    IN  /\ At(r, "build_waybills") /\ "build_waybills" \notin run[r].done /\ Current(r)
        /\ rebuilt' = (rebuilt \/ \E a \in Built : Attempted(a))
        /\ \E b \in Batches :
            /\ IsNext(b)
            /\ batch' = [batch EXCEPT ![b] =
                   [for |-> run[r].want, stores |-> run[r].mem.required, ledger |-> "absent"]]
            /\ \/ /\ file' = pinned(b)
                  /\ run' = [run EXCEPT ![r].pc = "gate", ![r].mem = pinned(b)]
               \/ /\ End(r)
                  /\ \/ UNCHANGED file
                     \/ \E ok \in BOOLEAN :
                            file' = Recorded(run[r].mem, "build_waybills", ok)
        /\ UNCHANGED <<board, sender, waiting, lock, tool, counters, marks, exposed, beside,
                       bypassed>>

BuildFails(r) ==
    /\ At(r, "build_waybills") /\ "build_waybills" \notin run[r].done /\ Current(r) /\ End(r)
    /\ \E ok \in BOOLEAN : file' = Recorded(run[r].mem, "build_waybills", ok)
    /\ UNCHANGED <<board, folder, lock, tool, counters, history>>

SkipBuild(r) ==
    /\ At(r, "build_waybills") /\ "build_waybills" \in run[r].done /\ Goto(r, "gate")
    /\ UNCHANGED <<board, file, folder, lock, tool, counters, history>>

\* The pinned batch must be for the pinned required orders; then the attempt is
\* marked in the file before the sender is started.
Gate(r) ==
    LET c == run[r].mem IN
    /\ At(r, "gate")
    /\ batch[c.pin].for = c.for /\ batch[c.pin].stores = c.required
    /\ IF "delivery_send" \in run[r].done
       THEN Goto(r, "shipped_truth_sync") /\ UNCHANGED file
       ELSE /\ Current(r)
            /\ file' = [c EXCEPT !.attempt = TRUE]
            /\ run' = [run EXCEPT ![r].pc = "launch", ![r].mem.attempt = TRUE]
    /\ UNCHANGED <<board, folder, lock, tool, counters, history>>

\* A second sender finds the channel locked and returns.
ChannelFree == \A b \in Batches : sender[b] = "none"

LaunchSender(r) ==
    /\ At(r, "launch") /\ Current(r) /\ Goto(r, "sending")
    /\ IF ChannelFree
       THEN sender' = [sender EXCEPT ![run[r].mem.pin] = "started"] /\ waiting' = {r}
       ELSE UNCHANGED <<sender, waiting>>
    /\ UNCHANGED <<board, file, batch, lock, tool, counters, history>>

\* The sender is back.  Its return code is no proof, the ledger is; but the stage
\* is recorded by the return code.
Returned(r) ==
    /\ At(r, "sending") /\ r \notin waiting
    /\ \E ok \in BOOLEAN :
        /\ file' = Recorded(run[r].mem, "delivery_send", ok)
        /\ IF ok /\ batch[run[r].mem.pin].ledger = "confirmed"
           THEN run' = [run EXCEPT ![r].pc = "auto_sent", ![r].mem = file']
           ELSE End(r)
    /\ UNCHANGED <<board, folder, lock, tool, counters, history>>

SentStateUnknown == "SENT"
SentState == "AUTO_SENT"

\* _stamp_manifest_stores_auto_sent, best effort, in the file as it is; the run
\* takes over the day states, not the rest.
AutoSent(r) ==
    /\ At(r, "auto_sent")
    /\ \E stamped \in SUBSET batch[run[r].mem.pin].stores :
        LET days == [s \in Stores |-> IF s \in stamped THEN SentState ELSE file.days[s]]
        IN  /\ file' = [file EXCEPT !.days = days,
                            !.kind = IF @ = "absent" /\ stamped # {} THEN "marks only" ELSE @]
            /\ run' = [run EXCEPT ![r].pc = "shipped_truth_sync", ![r].mem.days = days]
    /\ UNCHANGED <<board, folder, lock, tool, counters, history>>

Finalize(r) ==
    /\ At(r, "finalize") /\ Current(r) /\ Goto(r, "last")
    /\ finished' = finished \cup {[for |-> run[r].want, stores |-> run[r].scope]}
    /\ UNCHANGED <<ready, file, folder, lock, tool, counters, history>>

LastWrite(r) ==
    /\ At(r, "last") /\ file' = run[r].mem /\ End(r)
    /\ UNCHANGED <<board, folder, lock, tool, counters, history>>

-------------------------------------------------------------------------------
(* The sender of a batch, by what TelegramDelivery shows of it.             *)

\* A sibling batch without a ledger counts as an attempted one.
SiblingConfirmed(b) == \E c \in Built \ {b} : batch[c].ledger \notin {"pending", "attempted"}
SiblingAttempt(b) == \E c \in Built \ {b} : batch[c].ledger # "pending"

SenderStart(b) ==
    /\ sender[b] = "started" /\ ~SiblingAttempt(b)
    /\ sender' = [sender EXCEPT ![b] = "sending"]
    /\ batch' = [batch EXCEPT ![b].ledger = IF @ = "absent" THEN "pending" ELSE @]
    /\ UNCHANGED <<board, file, waiting, run, lock, tool, counters, history>>

\* Of a batch that is sent for some of its stores only the rest is not confirmed.
SenderStep(b) ==
    /\ sender[b] = "sending"
    /\ \/ /\ batch[b].ledger = "pending" /\ batch' = [batch EXCEPT ![b].ledger = "attempted"]
          /\ beside' = (beside \/ (waiting = {} /\ \E r \in Runs : Working(r)))
       \/ /\ batch[b].ledger = "attempted" /\ batch' = [batch EXCEPT ![b].ledger = "confirmed"]
          /\ UNCHANGED beside
    /\ UNCHANGED <<board, file, sender, waiting, run, lock, tool, counters, marks, exposed,
                   rebuilt, bypassed>>

\* It finishes, is refused, fails, is halted or is killed.
SenderEnd(b) ==
    /\ sender[b] # "none" /\ sender' = [sender EXCEPT ![b] = "none"] /\ waiting' = {}
    /\ UNCHANGED <<board, file, batch, run, lock, tool, counters, history>>

-------------------------------------------------------------------------------
(* The employee, the operator, and faults.                                  *)

Stamp ==
    /\ ready < MaxReady /\ ready' = ready + 1
    /\ UNCHANGED <<finished, file, folder, run, lock, tool, counters, history>>

\* set_store_day_state: the last read, and the replacement of the whole file.  One
\* operator's tool runs at a time.
MarkRead(s) ==
    /\ editor = <<>> /\ byhand = 0 /\ s \notin marks /\ editor' = <<s, file>>
    /\ UNCHANGED <<board, file, folder, run, lock, byhand, counters, history>>

MarkWrite ==
    LET s == editor[1]
        state == IF byhand = 0 THEN "SETTLED" ELSE "AUTO_SENT"
    IN  /\ editor # <<>> /\ editor' = <<>>
        /\ file' = [editor[2] EXCEPT !.days[s] = state,
                        !.kind = IF @ = "absent" THEN "marks only" ELSE @]
        /\ marks' = IF byhand = 0 THEN marks \cup {s} ELSE marks \ {s}
        /\ exposed' = IF byhand = 0 /\ \E r \in Runs : Working(r) THEN exposed \cup {s} ELSE exposed
        /\ UNCHANGED <<board, folder, run, lock, byhand, counters, rebuilt, beside, bypassed>>

\* send-store-telegram, with no automation lock: the batch that was the newest when
\* the tool looked, and by now need not be.  With the channel locked it ends.
SendByHand(b) ==
    /\ editor = <<>> /\ byhand = 0 /\ handed < MaxByHand /\ handed' = handed + 1
    /\ b \in Built /\ ChannelFree
    /\ byhand' = b /\ sender' = [sender EXCEPT ![b] = "started"]
    /\ UNCHANGED <<board, file, batch, waiting, run, lock, editor, launches, faults, history>>

\* The tool's sender is back and succeeded: the named stores become AUTO_SENT, those
\* the batch has no document of included.
AutoSentRead(s) ==
    /\ byhand # 0 /\ editor = <<>> /\ (waiting # {} \/ sender[byhand] = "none")
    /\ batch[byhand].ledger # "absent"
    /\ s \in batch[byhand].stores => Attempted(byhand)
    /\ editor' = <<s, file>>
    /\ UNCHANGED <<board, file, folder, run, lock, byhand, counters, history>>

\* The tool ends or is killed; a sender that it waits for goes on.
ToolEnd ==
    /\ byhand # 0 /\ editor = <<>> /\ byhand' = 0
    /\ UNCHANGED <<board, file, folder, run, lock, editor, counters, history>>

\* A run ends at a check that fails, by a halt or an error, or is killed; a sender
\* that it waits for goes on.
StopRun(r) ==
    /\ Working(r) /\ End(r) /\ waiting' = waiting \ {r}
    /\ UNCHANGED <<board, file, batch, sender, lock, tool, counters, history>>

\* The launcher is killed: with its closeout, or alone, and then the closeout goes
\* on without the lock.
KillLauncher(r) ==
    /\ r \in held /\ faults < MaxFaults /\ faults' = faults + 1
    /\ held' = held \ {r} /\ fd' = [fd EXCEPT ![r] = 0]
    /\ \/ /\ run' = [run EXCEPT ![r] = Idle] /\ waiting' = waiting \ {r}
          /\ UNCHANGED bypassed
       \/ Working(r) /\ bypassed' = TRUE /\ UNCHANGED <<run, waiting>>
    /\ UNCHANGED <<board, file, batch, sender, path, tool, launches, handed, marks,
                   exposed, rebuilt, beside>>

LoseCheckpoint ==
    /\ file.kind # "absent" /\ faults < MaxFaults /\ faults' = faults + 1
    /\ file' = Absent /\ exposed' = exposed \cup marks
    /\ UNCHANGED <<board, folder, run, lock, tool, launches, handed, marks, rebuilt,
                   beside, bypassed>>

-------------------------------------------------------------------------------
Next ==
    \/ \E r \in Runs :
        \/ Launch(r) \/ Open(r) \/ Flock(r) \/ Unlock(r) \/ Unlink(r)
        \/ \E resume \in BOOLEAN : Load(r, resume)
        \/ Bind(r) \/ Scope(r) \/ RunStage(r, "size_writeback", "required") \/ Require(r)
        \/ RunStage(r, "shipping", "download_waybills")
        \/ RunStage(r, "download_waybills", "build_waybills")
        \/ Build(r) \/ BuildFails(r) \/ SkipBuild(r) \/ Gate(r) \/ LaunchSender(r) \/ Returned(r)
        \/ AutoSent(r) \/ RunStage(r, "shipped_truth_sync", "finalize")
        \/ Finalize(r) \/ LastWrite(r) \/ StopRun(r) \/ KillLauncher(r)
    \/ \E b \in Batches : SenderStart(b) \/ SenderStep(b) \/ SenderEnd(b) \/ SendByHand(b)
    \/ Stamp \/ MarkWrite \/ ToolEnd \/ LoseCheckpoint
    \/ \E s \in Stores : MarkRead(s) \/ AutoSentRead(s)

Spec == Init /\ [][Next]_vars

-------------------------------------------------------------------------------
(* What must hold.                                                          *)

\* Every variable holds a value of its kind (the files, the board, the processes).
TypeOK ==
    /\ ready \in 1..MaxReady
    /\ finished \subseteq [for : 1..MaxReady, stores : SUBSET Stores]
    /\ file \in Checkpoint
    /\ batch \in [Batches -> [for : 0..MaxReady, stores : SUBSET Stores,
                              ledger : {"absent", "pending", "attempted", "confirmed"}]]
    /\ sender \in [Batches -> {"none", "started", "sending"}]
    /\ run \in [Runs -> [pc : Outside \cup Steps, want : 0..MaxReady,
                         done : SUBSET StageNames, scope : SUBSET Stores,
                         before : SUBSET Stores, mem : Checkpoint]]
    /\ path \in Inodes \cup {0} /\ fd \in [Runs -> Inodes \cup {0}] /\ held \subseteq Runs
    /\ waiting \subseteq Runs
    /\ editor = <<>> \/ editor \in Stores \X Checkpoint
    /\ byhand \in 0..MaxBatches
    /\ launches \in 0..MaxLaunches /\ handed \in 0..MaxByHand /\ faults \in 0..MaxFaults
    /\ marks \subseteq Stores /\ exposed \subseteq Stores
    /\ {rebuilt, beside, bypassed} \subseteq BOOLEAN

\* A READY that the board shows as OK had nothing to send, or a batch of its own,
\* of exactly the stores it required, is confirmed: whatever was resumed, recorded
\* by return code, lost or killed, and with two closeouts at once.
OkMeansDelivered ==
    \A f \in finished : f.stores = {} \/
        \E b \in Built : /\ batch[b].for = f.for /\ batch[b].stores = f.stores
                         /\ batch[b].ledger = "confirmed"

\* A day's documents go out for one READY: two requests that the board shows as OK
\* and that had something to send are one and the same, with the same stores.
OneReadyDelivered ==
    \A f, g \in finished : f.stores # {} /\ g.stores # {} => f = g

\* No batch is built for the day after one was attempted, whatever happened to the
\* checkpoint, its marker and the READY request, by whomever it was sent: unless a
\* sender that no closeout waits for (it outlived its closeout, or the operator's
\* tool started it) sent while a closeout worked, or two closeouts got past the lock.
NothingBuiltAfterAttempt == rebuilt => beside \/ bypassed

\* A sender that a closeout waits for has no store in its batch that the operator
\* had settled before this run scoped its orders, however old the batch is.
SettledNotSent ==
    \A r \in Runs : At(r, "sending") =>
        batch[run[r].mem.pin].stores \cap (run[r].before \ exposed) = {}

\* A mark that the operator makes while no closeout works survives every closeout,
\* resume, change of READY, failure and later mark of the day, until the operator's
\* tool itself sends the store.
MarksSurvive == \A s \in marks \ exposed : file.days[s] = "SETTLED"

\* Two closeouts work at the same time only after a launcher was killed alone, or
\* the lock file was unlinked while another process had it open.
OneCloseoutAtATime ==
    bypassed \/ \A p, q \in Runs : Working(p) /\ Working(q) => p = q

\* A batch that was only built is no attempt: while nothing was attempted, a sender
\* that is started is not refused because of another batch.
ManifestIsNoAttempt ==
    \A b \in Batches : sender[b] = "started" /\ SiblingAttempt(b) =>
        \E c \in Built \ {b} : Attempted(c)

-------------------------------------------------------------------------------
(* The day of BatchDay, which the senders of TelegramDelivery implement.     *)
Day == INSTANCE BatchDay WITH
    TargetDate <- [b \in Batches |-> "today"],
    status <- [b \in Batches |-> IF batch[b].for = 0 THEN "unbuilt" ELSE batch[b].ledger]

\* Whatever the closeouts build, launch, leave behind or do at the same time, the
\* batches of the day follow BatchDay: never are two of them tried.
ImplementsDay == Day!Spec
===============================================================================
