----------------------------- MODULE HaltBarrier -----------------------------
(***************************************************************************)
(* The owner's stop: the local halt barrier file of                         *)
(* scripts/google_ops_board_automation_common.py, written by the Telegram   *)
(* control bot when it handles /halt and read - and rewritten - by every    *)
(* gate of the watcher, the closeout and the Telegram sender, next to the   *)
(* Run_Control row of the Google Board that employees, the bot and the      *)
(* watcher edit.                                                            *)
(*                                                                          *)
(* A gate reads the row, loads the barrier and, when the row proves HOLD or *)
(* a fresh READY, writes the whole barrier back: three steps without a      *)
(* lock.  A definition that stands directly above another one with the same *)
(* parameters is a plausible bug in it; nothing refers to it.               *)
(***************************************************************************)
EXTENDS Naturals

CONSTANTS
    Dates,      \* target dates, numbered in calendar order
    Workers,    \* processes that pass gates: watcher, closeout, sender
    Bot,        \* the Telegram control bot
    Absent,     \* no barrier file, no snapshot
    MaxTime,    \* bound: the clock
    MaxHalts    \* bound: /halt updates

ASSUME DatesAssumption == Dates \subseteq Nat /\ Dates # {}
ASSUME BotAssumption == Bot \notin Workers
ASSUME TimeAssumption == MaxTime \in Nat \ {0} /\ MaxHalts \in Nat

VARIABLES
    now, today,     \* the clock and the current target date
    row,            \* row[d]: Run_Control's ready_for_closeout and ready_set_at
    barrier,        \* the barrier file
    pc, job, seen, snap,    \* a process's control, request, row read, file to write
    updates,        \* /halt updates received
    known,          \* history: halts that existed when a gate loaded the file
    halts,          \* history: halts that were persisted
    raced,          \* history: halts persisted inside a gate's load-write window
    replaced,       \* history: halts overwritten by the halt of another date
    ignored,        \* history: halts of a request that a gate let pass
    stamps,         \* history: ready_set_at values that READY rows carried
    chosen          \* history: when the READY of a row was last chosen by a human

board == <<now, today, row>>
process == <<pc, job, seen, snap, known>>
lost == <<raced, replaced>>
history == <<halts, lost, ignored, stamps, chosen>>
vars == <<board, barrier, process, updates, history>>

Blank == 0
Times == 1..MaxTime
Stamp == Times \cup {Blank}
Row == [value : {"HOLD", "READY"}, at : Stamp]
Request == [target : Dates, at : Stamp, began : Stamp]
Halt == [target : Dates, at : Times]
BarrierStates == {"PENDING_HOLD", "HOLD_CONFIRMED", "SUPERSEDED"}
Barrier == [target : Dates, at : Times, key : 0..MaxHalts, state : BarrierStates]

\* Absent is no barrier.
ASSUME AbsentAssumption == Absent \notin Barrier

Procs == Workers \cup {Bot}
Gates == {"watching", "stamping", "live", "manifest", "halting"}
\* A gate that has decided to write the file.
Writing == [watching |-> "watching write", stamping |-> "stamping write",
            live |-> "live write", halting |-> "halting write"]
Control == {"idle", "polled", "observed", "unblocked", "stamp", "gate", "act",
            "hold", "readback", "reloaded", "returned", "replay",
            "watching write", "stamping write", "live write", "halting write"}
           \cup Gates

-------------------------------------------------------------------------------
(* evaluate_closeout_halt_barrier, for a barrier b that exists.             *)

RequestHaltedStrictly(b, r) ==
    b.target = r.target /\ r.at # Blank /\ r.at < b.at
RequestHalted(b, r) ==
    b.target = r.target /\ r.at # Blank /\ r.at <= b.at

ExactHold(b, r, line) ==
    b.target = r.target /\ line.value = "HOLD" /\ line.at = Blank

PostHaltAnyStamp(b, line) ==
    line.value = "READY" /\ line.at # Blank
PostHalt(b, line) ==
    line.value = "READY" /\ line.at # Blank /\ line.at > b.at

\* The state the row proves; a proof is written to the file.
Proven(b, r, line) ==
    IF ExactHold(b, r, line) THEN [b EXCEPT !.state = "HOLD_CONFIRMED"]
    ELSE IF PostHalt(b, line) THEN [b EXCEPT !.state = "SUPERSEDED"]
    ELSE b

Blocked(b, r, line) ==
    \/ RequestHalted(b, r)
    \/ ExactHold(b, r, line)
    \/ b.state # "SUPERSEDED" /\ ~PostHalt(b, line)

\* A READY without a stamp may get one only after HOLD was proven, or on a
\* later date than the halt's.
AllowFreshBlank(b, r, line) ==
    /\ b.state = "HOLD_CONFIRMED" \/ r.target > b.target
    /\ line.value = "READY" /\ line.at = Blank

Open(b, r, line) == b = Absent \/ ~Blocked(b, r, line)
Fresh(b, r, line) == b # Absent /\ AllowFreshBlank(b, r, line)
Stampable(line) == line.value = "READY" /\ line.at = Blank

\* Where a gate sends the process: the watcher stamps a READY without a stamp
\* (or reads the row again, when that is not allowed) or launches a closeout, a
\* closeout and the sender go on to act.
Outcome(gate, b, r, line) ==
    CASE gate = "watching" ->
            IF Fresh(b, r, line) THEN "observed"
            ELSE IF ~Open(b, r, line) \/ line.value = "HOLD" THEN "idle"
            ELSE IF Stampable(line) THEN "unblocked" ELSE "gate"
      [] gate = "stamping" ->
            IF Stampable(line) /\ (Open(b, r, line) \/ Fresh(b, r, line))
            THEN "stamp" ELSE "polled"
      [] gate \in {"live", "manifest"} -> IF Open(b, r, line) THEN "act" ELSE "idle"
      [] gate = "halting" -> "returned"

-------------------------------------------------------------------------------
NoRow == [value |-> "HOLD", at |-> Blank]

Init ==
    /\ now = 1 /\ today \in Dates /\ \A d \in Dates : today <= d
    /\ row = [d \in Dates |-> NoRow]
    /\ barrier = Absent
    /\ pc = [p \in Procs |-> "idle"]
    /\ job = [p \in Procs |-> [target |-> today, at |-> Blank, began |-> Blank]]
    /\ seen = [p \in Procs |-> NoRow]
    /\ snap = [p \in Procs |-> Absent]
    /\ updates = 0
    /\ known = [p \in Procs |-> {}]
    /\ halts = {} /\ raced = {} /\ replaced = {}
    /\ ignored = {} /\ stamps = {}
    /\ chosen = [d \in Dates |-> 1]

Goto(p, label) == pc' = [pc EXCEPT ![p] = label]

\* A process forgets what it read.
Leave(p) ==
    /\ Goto(p, "idle")
    /\ job' = [job EXCEPT ![p] = [target |-> today, at |-> Blank, began |-> Blank]]
    /\ seen' = [seen EXCEPT ![p] = NoRow]
    /\ snap' = [snap EXCEPT ![p] = Absent]
    /\ known' = [known EXCEPT ![p] = {}]

Tick ==
    /\ now < MaxTime
    /\ now' = now + 1
    /\ UNCHANGED <<today, row, barrier, process, updates, history>>

Midnight ==
    /\ \E d \in Dates : d > today /\ today' = d
    /\ UNCHANGED <<now, row, barrier, process, updates, history>>

-------------------------------------------------------------------------------
(* The Run_Control row.                                                     *)

\* An employee edits one cell; ready_set_at stays what it was.
EmployeeReady ==
    /\ row[today].value = "HOLD"
    /\ row' = [row EXCEPT ![today].value = "READY"]
    /\ chosen' = [chosen EXCEPT ![today] = now]
    /\ UNCHANGED <<now, today, barrier, process, updates, halts, lost, ignored, stamps>>

EmployeeHold ==
    /\ row[today].value = "READY"
    /\ row' = [row EXCEPT ![today].value = "HOLD"]
    /\ UNCHANGED <<now, today, barrier, process, updates, history>>

\* /ready: READY stamped with the time of the command, unless it already is;
\* the bot then passes a gate for that request before it arms the closeout.
BotReady ==
    LET stamped == row[today].value = "READY" /\ row[today].at # Blank
        line == IF stamped THEN row[today] ELSE [value |-> "READY", at |-> now]
    IN  /\ pc[Bot] = "idle"
        /\ row' = [row EXCEPT ![today] = line]
        /\ job' = [job EXCEPT ![Bot] = [target |-> today, at |-> line.at, began |-> Blank]]
        /\ chosen' = IF stamped THEN chosen ELSE [chosen EXCEPT ![today] = now]
        /\ stamps' = stamps \cup {line.at}
        /\ Goto(Bot, "gate")
        /\ UNCHANGED <<now, today, barrier, seen, snap, known, updates, halts, lost, ignored>>

-------------------------------------------------------------------------------
(* Gates.                                                                   *)

\* A poll of the watcher goes on only when a first read of today's row shows
\* READY; the row is read again for its gate, and its request is the row's own.
Poll(w) ==
    /\ pc[w] = "idle" /\ row[today].value = "READY"
    /\ job' = [job EXCEPT ![w] = [target |-> today, at |-> Blank, began |-> Blank]]
    /\ Goto(w, "polled")
    /\ UNCHANGED <<board, barrier, seen, snap, known, updates, history>>

Watch(w) ==
    LET d == job[w].target IN
    /\ pc[w] = "polled"
    /\ job' = [job EXCEPT ![w] = [target |-> d, at |-> row[d].at, began |-> Blank]]
    /\ seen' = [seen EXCEPT ![w] = row[d]]
    /\ Goto(w, "watching")
    /\ UNCHANGED <<board, barrier, snap, known, updates, history>>

\* _revalidate_watch_mutation: the row is read again before it is stamped.  The
\* stamp is the time of the poll when a barrier was evaluated, else the present.
ReadStamp(w) ==
    LET d == job[w].target IN
    /\ pc[w] \in {"observed", "unblocked"}
    /\ job' = [job EXCEPT ![w] = [target |-> d, at |-> row[d].at,
                   began |-> IF pc[w] = "observed" THEN job[w].began ELSE now]]
    /\ seen' = [seen EXCEPT ![w] = row[d]]
    /\ Goto(w, "stamping")
    /\ UNCHANGED <<board, barrier, snap, known, updates, history>>

\* A poll or a run that stops between two gates: the row is gone or READY is
\* too young, Google fails, the process is killed.
GiveUp(p) ==
    /\ pc[p] \in {"polled", "observed", "unblocked", "stamp", "gate"}
    /\ Leave(p)
    /\ UNCHANGED <<board, barrier, updates, history>>

\* A closeout's gates read the live row.
ReadLive(p) ==
    /\ pc[p] = "gate"
    /\ seen' = [seen EXCEPT ![p] = row[job[p].target]]
    /\ Goto(p, "live")
    /\ UNCHANGED <<board, barrier, job, snap, known, updates, history>>

\* The sender's gate is given a READY row made from its manifest.
ReadManifest(p) ==
    /\ pc[p] = "gate"
    /\ seen' = [seen EXCEPT ![p] = [value |-> "READY", at |-> job[p].at]]
    /\ Goto(p, "manifest")
    /\ UNCHANGED <<board, barrier, job, snap, known, updates, history>>

\* The halt says that request r must not go on.
Bars(h, r) == h.target = r.target /\ r.at # Blank /\ r.at <= h.at

\* The process goes where its gate's decision about barrier b sends it.
Decide(p, gate, b) ==
    LET next == Outcome(gate, b, job[p], seen[p]) IN
    IF next = "idle" THEN Leave(p)
    ELSE /\ Goto(p, next)
         /\ snap' = [snap EXCEPT ![p] = IF next = "returned" THEN b ELSE Absent]
         /\ known' = [known EXCEPT ![p] = {}]
         /\ job' = [job EXCEPT ![p].began =
                       CASE next = "observed" -> now
                         [] next = "stamp" -> @
                         [] OTHER -> Blank]
         /\ seen' = [seen EXCEPT ![p] = IF next = "stamp" THEN @ ELSE NoRow]

\* Load the barrier and decide.  A changed barrier is written in a later step
\* (persist_safe_transition; the sender's gate never writes).
Evaluate(p, gate) ==
    LET proven == IF barrier = Absent THEN Absent ELSE Proven(barrier, job[p], seen[p])
    IN  /\ pc[p] = gate
        /\ IF proven # barrier /\ gate # "manifest"
           THEN /\ snap' = [snap EXCEPT ![p] = proven]
                /\ known' = [known EXCEPT ![p] = halts]
                /\ Goto(p, Writing[gate])
                /\ UNCHANGED <<job, seen>>
           ELSE Decide(p, gate, barrier)
        /\ ignored' = IF Outcome(gate, proven, job[p], seen[p]) \in {"gate", "act"}
                      THEN ignored \cup {h \in halts : Bars(h, job[p])}
                      ELSE ignored
        /\ UNCHANGED <<board, barrier, updates, halts, lost, stamps, chosen>>

\* Write the barrier that was proven, whatever the file holds by now.
Write(p, gate) ==
    /\ gate # "manifest" /\ pc[p] = Writing[gate]
    /\ barrier' = snap[p]
    /\ raced' = raced \cup (halts \ known[p])
    /\ IF gate = "halting"
       THEN /\ Goto(p, "reloaded")
            /\ snap' = [snap EXCEPT ![p] = Absent]
            /\ known' = [known EXCEPT ![p] = {}]
            /\ UNCHANGED <<job, seen>>
       ELSE Decide(p, gate, snap[p])
    /\ UNCHANGED <<board, updates, halts, replaced, ignored, stamps, chosen>>

\* The external action that the gate guards; then the next gate or the end.
Act(p) ==
    /\ pc[p] = "act"
    /\ \/ Leave(p)
       \/ Goto(p, "gate") /\ UNCHANGED <<job, seen, snap, known>>
    /\ UNCHANGED <<board, barrier, updates, history>>

\* The watcher writes back the whole row that it read, now with a stamp.
WriteStamp(w) ==
    /\ pc[w] = "stamp"
    /\ row' = [row EXCEPT ![job[w].target] = [seen[w] EXCEPT !.at = job[w].began]]
    /\ stamps' = stamps \cup {job[w].began}
    /\ Leave(w)
    /\ UNCHANGED <<now, today, barrier, updates, halts, lost, ignored, chosen>>

-------------------------------------------------------------------------------
(* The bot handles /halt: barrier, HOLD, readback, proof, acknowledgement.   *)

\* persist_closeout_halt_barrier: an exact replay or an older halt of the same
\* date leaves the file; everything else overwrites it.
PersistUntimed(d, key) ==
    IF barrier # Absent /\ barrier.target = d /\ barrier.key = key
    THEN UNCHANGED <<barrier, replaced>>
    ELSE /\ barrier' = [target |-> d, at |-> Blank, key |-> key, state |-> "PENDING_HOLD"]
         /\ replaced' = replaced \cup {h \in halts : h.target # d}
PersistAnyDate(d, key) ==
    IF barrier # Absent /\ (barrier.key = key \/ now <= barrier.at)
    THEN UNCHANGED <<barrier, replaced>>
    ELSE /\ barrier' = [target |-> d, at |-> now, key |-> key, state |-> "PENDING_HOLD"]
         /\ replaced' = replaced \cup {h \in halts : h.target # d}
Persist(d, key) ==
    IF /\ barrier # Absent /\ barrier.target = d
       /\ barrier.key = key \/ now <= barrier.at
    THEN UNCHANGED <<barrier, replaced>>
    ELSE /\ barrier' = [target |-> d, at |-> now, key |-> key, state |-> "PENDING_HOLD"]
         /\ replaced' = replaced \cup {h \in halts : h.target # d}

HaltCommand ==
    /\ pc[Bot] = "idle" /\ updates < MaxHalts
    /\ updates' = updates + 1
    /\ Persist(today, updates + 1)
    /\ halts' = halts \cup {[target |-> today, at |-> now]}
    /\ job' = [job EXCEPT ![Bot] = [target |-> today, at |-> Blank, began |-> Blank]]
    /\ Goto(Bot, "hold")
    /\ UNCHANGED <<board, seen, snap, known, raced, ignored, stamps, chosen>>

\* A failed /halt is not acknowledged: Telegram hands it out again.
HaltReplay ==
    /\ pc[Bot] = "replay" /\ job[Bot].target = today
    /\ Persist(today, updates)
    /\ halts' = IF barrier' = barrier THEN halts
                ELSE halts \cup {[target |-> today, at |-> now]}
    /\ Goto(Bot, "hold")
    /\ UNCHANGED <<board, job, seen, snap, known, updates, raced, ignored, stamps, chosen>>

\* After five minutes or midnight the message is too old and is acknowledged.
HaltDropped ==
    /\ pc[Bot] = "replay"
    /\ Leave(Bot)
    /\ UNCHANGED <<board, barrier, updates, history>>

SetHold ==
    /\ pc[Bot] = "hold"
    /\ row' = [row EXCEPT ![job[Bot].target] = NoRow]
    /\ Goto(Bot, "readback")
    /\ UNCHANGED <<now, today, barrier, job, seen, snap, known, updates, history>>

ReadBack ==
    /\ pc[Bot] = "readback"
    /\ row[job[Bot].target] = NoRow
    /\ seen' = [seen EXCEPT ![Bot] = NoRow]
    /\ Goto(Bot, "halting")
    /\ UNCHANGED <<board, barrier, job, snap, known, updates, history>>

\* The barrier that the evaluation returned, loaded again after a write.
Proof == IF pc[Bot] = "reloaded" THEN barrier ELSE snap[Bot]
HoldProven == Proof # Absent /\ Proof.state = "HOLD_CONFIRMED"

\* Google failed, the readback differs, the barrier does not show the proof, or
\* the bot is killed before it acknowledges the update.
HaltFails ==
    /\ pc[Bot] \in {"hold", "readback", "halting", "halting write", "reloaded", "returned"}
    /\ Goto(Bot, "replay")
    /\ snap' = [snap EXCEPT ![Bot] = Absent]
    /\ known' = [known EXCEPT ![Bot] = {}]
    /\ UNCHANGED <<board, barrier, job, seen, updates, history>>

HaltCommitted ==
    /\ pc[Bot] \in {"reloaded", "returned"} /\ HoldProven
    /\ Leave(Bot)
    /\ UNCHANGED <<board, barrier, updates, history>>

-------------------------------------------------------------------------------
Next ==
    \/ Tick \/ Midnight \/ EmployeeReady \/ EmployeeHold \/ BotReady
    \/ \E w \in Workers : Poll(w) \/ Watch(w) \/ ReadStamp(w) \/ WriteStamp(w)
    \/ \E p \in Procs : GiveUp(p) \/ ReadLive(p) \/ ReadManifest(p) \/ Act(p)
    \/ \E p \in Procs, gate \in Gates : Evaluate(p, gate) \/ Write(p, gate)
    \/ HaltCommand \/ HaltReplay \/ HaltDropped
    \/ SetHold \/ ReadBack \/ HaltFails \/ HaltCommitted

Spec == Init /\ [][Next]_vars

-------------------------------------------------------------------------------
\* Types: the barrier, the row and every copy a process holds are well formed.
TypeOK ==
    /\ now \in Times /\ today \in Dates
    /\ row \in [Dates -> Row]
    /\ barrier \in Barrier \cup {Absent}
    /\ pc \in [Procs -> Control]
    /\ job \in [Procs -> Request]
    /\ seen \in [Procs -> Row]
    /\ snap \in [Procs -> Barrier \cup {Absent}]
    /\ updates \in 0..MaxHalts
    /\ known \in [Procs -> SUBSET Halt]
    /\ halts \subseteq Halt /\ raced \subseteq Halt
    /\ replaced \subseteq Halt /\ ignored \subseteq Halt
    /\ stamps \subseteq Stamp
    /\ chosen \in [Dates -> Times]

\* A barred request passes a gate only when its halt is gone from the file in
\* one of two ways: it was persisted while a gate held an older copy that it
\* wrote back, or another date's halt took the only slot of the file.
IgnoredOnlyIfLost == ignored \subseteq raced \cup replaced

\* The only slot of the file costs the current date nothing: a halt of today is
\* ignored only when a gate wrote an older copy back.
TodaysHaltHolds == \A h \in ignored : h.target = today => h \in raced

\* Whatever races, a process may go on to act only when the file holds no halt or
\* some READY carried a stamp later than the halt in the file.
Released(b) == b = Absent \/ \E s \in stamps : s > b.at
NoPassWithoutFreshReady ==
    [][\A p \in Procs : pc[p] # "act" /\ pc'[p] = "act" => Released(barrier')]_vars

\* GOOGLE_OPS_BOARD_PHASE1_CONTRACT.md:115 and the docstring of
\* evaluate_closeout_halt_barrier: a request older than a halt stays barred for
\* ever.  Stated for halts that the halt of no other date replaced in the file, so
\* that only the unlocked load-write window of the gates can lose them.
BarredWhileGatesRace == ignored \subseteq replaced

\* GOOGLE_OPS_BOARD_PHASE1_CONTRACT.md:115: a READY chosen before a halt is
\* stale and never gets a stamp later than the halt.
StaleReadyStaysBarred ==
    \A d \in Dates, h \in halts :
        h.target = d /\ row[d].value = "READY" /\ chosen[d] < h.at => row[d].at <= h.at
===============================================================================
