----------------------------- MODULE AlertOutbox -----------------------------
(***************************************************************************)
(* The owner's alert outbox, core/alerts/ops_alert_outbox.py: an            *)
(* append-only JSONL file shared by every runner.  A process appends a      *)
(* queued event, sends the alert to Telegram with retries and appends the   *)
(* outcome; held alerts wait for flush_held, local_only alerts never leave. *)
(*                                                                          *)
(* The file's lock covers one append.  Everything read from the file - the  *)
(* duplicate check, the snapshots that a flush delivers - is used later,    *)
(* when another process may have appended.  A read may fail, which looks    *)
(* like an empty file, and a line cut inside a character makes every later  *)
(* read raise.  file[a] is the latest event of alert a, which is all that   *)
(* any reader looks at (_latest_entries).  A definition that stands         *)
(* directly above another one with the same parameters is a plausible bug   *)
(* in it; nothing refers to it.                                             *)
(***************************************************************************)
EXTENDS Integers

CONSTANTS
    Callers,    \* processes that enqueue or flush
    Alerts,     \* alert ids (uuid4), each given out once
    Keys,       \* dedup keys
    NoKey,      \* the empty dedup key
    None,       \* no event
    Kinds,      \* what callers ask for: "plain", "held", "local_only"
    Windows,    \* dedup_window of the callers: 30 minutes, an hour, 370 days
    MaxAge,     \* max_age_hours of flush_undelivered
    MaxTries,   \* sends of one delivery: three
    MaxTime     \* bound: the clock

ASSUME KeyAssumption == NoKey \notin Keys
ASSUME KindAssumption == Kinds \subseteq {"plain", "held", "local_only"}
ASSUME NumberAssumption ==
    Windows \subseteq Nat \ {0} /\ MaxAge \in Nat /\ MaxTries \in Nat \ {0} /\ MaxTime \in Nat

VARIABLES
    now,
    file,       \* file[a]: latest event of alert a that can be parsed
    torn,       \* the last line of the file is incomplete
    unreadable, \* a line was cut inside a character: the file is no UTF-8 any more
    pc, cur, todo, mode, tries,     \* a process: control, alert, snapshots, flush
    kind,       \* history: what alert a was enqueued as
    window,     \* history: the dedup_window of a's caller, 0 before
    blind,      \* history: alerts enqueued although the file could not be read
    accepted,   \* history: alerts whose queued event was appended
    released,   \* history: alerts that flush_held released
    sent,       \* history: messages the owner got for a, 2 is "two or more"
    glued,      \* history: alerts with an event lost in an incomplete line
    messy,      \* history: alerts whose delivery met one of the known hazards
    racing      \* history: pairs of alerts whose enqueueing overlapped

process == <<pc, cur, todo, mode, tries>>
disk == <<file, torn, unreadable>>
history == <<kind, window, blind, accepted, released, sent, glued, messy, racing>>
vars == <<now, disk, process, history>>

Times == 0..MaxTime
\* "failed" stands for telegram_failed_notified too, which nothing tells apart.
Deliverable == {"queued", "failed"}
Statuses == Deliverable \cup {"delivered", "local_only"}
Entry == [id : Alerts, key : Keys \cup {NoKey}, held : BOOLEAN, status : Statuses,
          created : Times]

ASSUME NoneAssumption == None \notin Entry \cup {"plain", "held", "local_only"}

-------------------------------------------------------------------------------
Init ==
    /\ now = 0
    /\ file = [a \in Alerts |-> None] /\ torn = FALSE /\ unreadable = FALSE
    /\ pc = [p \in Callers |-> "idle"]
    /\ cur = [p \in Callers |-> None]
    /\ todo = [p \in Callers |-> {}]
    /\ mode = [p \in Callers |-> "none"]
    /\ tries = [p \in Callers |-> 0]
    /\ kind = [a \in Alerts |-> None]
    /\ window = [a \in Alerts |-> 0]
    /\ blind = {} /\ accepted = {} /\ released = {} /\ glued = {} /\ messy = {} /\ racing = {}
    /\ sent = [a \in Alerts |-> 0]

Tick ==
    /\ now < MaxTime
    /\ now' = now + 1
    /\ UNCHANGED <<disk, process, history>>

Goto(p, label) == pc' = [pc EXCEPT ![p] = label]

\* The end of a call, or of one alert of a flush.
EndCall(p) ==
    /\ Goto(p, "idle")
    /\ cur' = [cur EXCEPT ![p] = None]
    /\ todo' = [todo EXCEPT ![p] = {}]
    /\ mode' = [mode EXCEPT ![p] = "none"]
    /\ tries' = [tries EXCEPT ![p] = 0]

NextAlert(p) ==
    IF todo[p] = {} THEN EndCall(p)
    ELSE /\ Goto(p, "flush")
         /\ cur' = [cur EXCEPT ![p] = None]
         /\ tries' = [tries EXCEPT ![p] = 0]
         /\ UNCHANGED <<todo, mode>>

Deliver(p) ==
    /\ Goto(p, "send")
    /\ tries' = [tries EXCEPT ![p] = 1]
    /\ UNCHANGED <<todo, mode>>

\* Alerts that process p has in hand.
Holds(p, a) ==
    \/ cur[p] # None /\ cur[p].id = a
    \/ \E e \in todo[p] : e.id = a

-------------------------------------------------------------------------------
(* _append_event: the line is written, or glued to an incomplete one and lost *)
(* with it.                                                                   *)

Append(e) ==
    /\ IF torn THEN /\ torn' = FALSE /\ glued' = glued \cup {e.id}
                    /\ UNCHANGED file
       ELSE /\ file' = [file EXCEPT ![e.id] = e]
            /\ UNCHANGED <<torn, glued>>
    /\ UNCHANGED unreadable

\* The append raises: nothing was written, or a part of the line, possibly of its
\* last character, or all of it before fsync failed.
AppendFails(e) ==
    \/ UNCHANGED <<disk, glued>>
    \/ torn' = TRUE /\ unreadable' \in {unreadable, TRUE} /\ UNCHANGED <<file, glued>>
    \/ Append(e)

\* enqueue_alert: an alert with the same key that is young enough for this caller
\* suppresses it, whatever became of that one; nothing changes then.
DuplicateDelivered(key, span) ==
    \E a \in Alerts : /\ file[a] # None /\ file[a].key = key
                      /\ now - file[a].created < span
                      /\ file[a].status \in {"delivered", "local_only"}
Duplicate(key, span) ==
    \E a \in Alerts : /\ file[a] # None /\ file[a].key = key
                      /\ now - file[a].created < span

\* Without a key nothing is read.  With one, a file that is no UTF-8 raises, and a
\* read that fails with an OSError finds no duplicate.
Enqueue(p, a, key, as, span) ==
    /\ pc[p] = "idle" /\ kind[a] = None
    /\ \/ key = NoKey /\ UNCHANGED blind
       \/ key # NoKey /\ ~unreadable /\ ~Duplicate(key, span) /\ UNCHANGED blind
       \/ key # NoKey /\ blind' = blind \cup {a}
    /\ cur' = [cur EXCEPT ![p] =
                 [id |-> a, key |-> key, held |-> as = "held", created |-> now,
                  status |-> IF as = "local_only" THEN "local_only" ELSE "queued"]]
    /\ kind' = [kind EXCEPT ![a] = as]
    /\ window' = [window EXCEPT ![a] = span]
    /\ racing' = racing \cup {{a, cur[q].id} : q \in {r \in Callers : pc[r] = "append"}}
    /\ Goto(p, "append")
    /\ UNCHANGED <<now, disk, todo, mode, tries, accepted, released, sent, glued, messy>>

\* The queued event: only then the alert is delivered, unless it is held or local.
AppendQueued(p) ==
    /\ pc[p] = "append"
    /\ Append(cur[p])
    /\ accepted' = accepted \cup {cur[p].id}
    /\ IF cur[p].held \/ cur[p].status = "local_only" THEN EndCall(p)
       ELSE Deliver(p) /\ UNCHANGED cur
    /\ UNCHANGED <<now, kind, window, blind, released, sent, messy, racing>>

QueuedFails(p) ==
    /\ pc[p] = "append"
    /\ AppendFails(cur[p])
    /\ EndCall(p)
    /\ UNCHANGED <<now, kind, window, blind, accepted, released, sent, messy, racing>>

-------------------------------------------------------------------------------
(* _deliver                                                                  *)

OneMore(n) == IF n < 2 THEN n + 1 ELSE 2

\* Telegram accepts the message and says so, takes it while the call times out,
\* or refuses it.  Only the first is a success.
SuccessUnlessRaised(answer) == answer # "doubt"
Success(answer) == answer = "ok"

TriesLeftTooMany(p) == tries[p] <= MaxTries
TriesLeft(p) == tries[p] < MaxTries

Send(p) ==
    \E answer \in {"ok", "doubt", "no"} :
        /\ pc[p] = "send"
        /\ sent' = IF answer = "no" THEN sent
                   ELSE [sent EXCEPT ![cur[p].id] = OneMore(@)]
        /\ messy' = IF answer = "doubt" THEN messy \cup {cur[p].id} ELSE messy
        /\ \/ /\ Success(answer)
              /\ cur' = [cur EXCEPT ![p].status = "delivered", ![p].held = FALSE]
              /\ Goto(p, "record") /\ UNCHANGED tries
           \/ /\ ~Success(answer) /\ TriesLeft(p)
              /\ tries' = [tries EXCEPT ![p] = @ + 1]
              /\ UNCHANGED <<cur, pc>>
           \/ /\ ~Success(answer) /\ ~TriesLeft(p)
              /\ cur' = [cur EXCEPT ![p].status = "failed", ![p].held = FALSE]
              /\ Goto(p, "record") /\ UNCHANGED tries
        /\ UNCHANGED <<now, disk, todo, mode, kind, window, blind, accepted, released, glued, racing>>

\* The outcome is appended; when that fails nobody hears of it.
Record(p) ==
    /\ pc[p] = "record"
    /\ Append(cur[p]) \/ AppendFails(cur[p])
    /\ messy' = IF cur[p].status = "delivered" /\ file'[cur[p].id] # cur[p]
                THEN messy \cup {cur[p].id} ELSE messy
    /\ NextAlert(p)
    /\ UNCHANGED <<now, kind, window, blind, accepted, released, sent, racing>>

-------------------------------------------------------------------------------
(* flush_undelivered and flush_held deliver the snapshots that they took.  A  *)
(* read that fails shows them nothing to do, one that raises ends the flush.   *)

UndeliveredAnyStatus ==
    {file[a] : a \in {b \in Alerts :
        file[b] # None /\ ~file[b].held /\ file[b].created >= now - MaxAge}}
Undelivered ==
    {file[a] : a \in {b \in Alerts :
        /\ file[b] # None
        /\ file[b].status \in Deliverable /\ ~file[b].held
        /\ file[b].created >= now - MaxAge}}

HeldBack ==
    {file[a] : a \in {b \in Alerts :
        file[b] # None /\ file[b].held /\ file[b].status \in Deliverable}}

Flush(p, how, entries) ==
    /\ pc[p] = "idle" /\ ~unreadable /\ entries # {}
    /\ todo' = [todo EXCEPT ![p] = entries]
    /\ mode' = [mode EXCEPT ![p] = how]
    /\ Goto(p, "flush")
    /\ messy' = messy \cup {e.id : e \in {f \in entries : \E q \in Callers : Holds(q, f.id)}}
    /\ UNCHANGED <<now, disk, cur, tries, kind, window, blind, accepted, released, sent, glued, racing>>

FlushUndelivered(p) == Flush(p, "undelivered", Undelivered)
FlushHeld(p) == Flush(p, "held", HeldBack)

TakeUndelivered(p) ==
    \E e \in todo[p] :
        /\ pc[p] = "flush" /\ mode[p] = "undelivered"
        /\ todo' = [todo EXCEPT ![p] = @ \ {e}]
        /\ cur' = [cur EXCEPT ![p] = e]
        /\ Goto(p, "send")
        /\ tries' = [tries EXCEPT ![p] = 1]
        /\ UNCHANGED <<now, disk, mode, history>>

TakeHeld(p) ==
    \E e \in todo[p] :
        /\ pc[p] = "flush" /\ mode[p] = "held"
        /\ todo' = [todo EXCEPT ![p] = @ \ {e}]
        /\ cur' = [cur EXCEPT ![p] = [e EXCEPT !.held = FALSE, !.status = "queued"]]
        /\ Goto(p, "release")
        /\ UNCHANGED <<now, disk, mode, tries, history>>

\* The release event: without it the alert stays held, and a later flush delivers
\* an alert whose event reached the file although the append raised.
Release(p) ==
    /\ pc[p] = "release"
    /\ \/ /\ Append(cur[p])
          /\ released' = released \cup {cur[p].id}
          /\ Deliver(p) /\ UNCHANGED cur
       \/ /\ AppendFails(cur[p])
          /\ released' = IF file'[cur[p].id] = cur[p] THEN released \cup {cur[p].id} ELSE released
          /\ NextAlert(p)
    /\ UNCHANGED <<now, kind, window, blind, accepted, sent, messy, racing>>

\* A process dies; what it had sent but not recorded is sent again some day.
Crash(p) ==
    /\ pc[p] # "idle"
    /\ messy' = IF pc[p] = "record" /\ cur[p].status = "delivered" THEN messy \cup {cur[p].id} ELSE messy
    /\ EndCall(p)
    /\ UNCHANGED <<now, disk, kind, window, blind, accepted, released, sent, glued, racing>>

-------------------------------------------------------------------------------
Next ==
    \/ Tick
    \/ \E p \in Callers :
          \/ \E a \in Alerts, key \in Keys \cup {NoKey}, as \in Kinds, span \in Windows :
                Enqueue(p, a, key, as, span)
          \/ AppendQueued(p) \/ QueuedFails(p) \/ Send(p) \/ Record(p)
          \/ FlushUndelivered(p) \/ FlushHeld(p) \/ TakeUndelivered(p) \/ TakeHeld(p)
          \/ Release(p) \/ Crash(p)

Spec == Init /\ [][Next]_vars

-------------------------------------------------------------------------------
\* Types: events and the alerts that processes hold are well formed.
TypeOK ==
    /\ now \in Times
    /\ file \in [Alerts -> Entry \cup {None}] /\ torn \in BOOLEAN /\ unreadable \in BOOLEAN
    /\ pc \in [Callers -> {"idle", "append", "send", "record", "flush", "release"}]
    /\ cur \in [Callers -> Entry \cup {None}]
    /\ todo \in [Callers -> SUBSET Entry]
    /\ mode \in [Callers -> {"none", "undelivered", "held"}]
    /\ tries \in [Callers -> 0..MaxTries]
    /\ kind \in [Alerts -> Kinds \cup {None}]
    /\ window \in [Alerts -> Windows \cup {0}]
    /\ blind \subseteq Alerts /\ accepted \subseteq Alerts /\ released \subseteq Alerts
    /\ glued \subseteq Alerts /\ messy \subseteq Alerts
    /\ racing \subseteq SUBSET Alerts
    /\ sent \in [Alerts -> 0..2]

\* enqueue_alert, flush_held: a local_only alert never leaves the machine, and a
\* held one only after flush_held released it, whatever flushes and crashes do.
Allowed(a) == kind[a] = "plain" \/ (kind[a] = "held" /\ a \in released)
SentOnlyWhenAllowed == \A a \in Alerts : sent[a] > 0 => Allowed(a)

\* "Durable": an alert whose queued event was appended to a whole line stays in
\* the file.  It is marked delivered only when the owner got it; otherwise a flush
\* that can read the file takes it, unless it was not held and is older than
\* max_age_hours, when flush_undelivered gives it up.
GivenUp(a) == ~file[a].held /\ file[a].created < now - MaxAge
Recoverable ==
    \A a \in accepted :
        /\ a \notin glued => file[a] # None
        /\ file[a] # None /\ kind[a] # "local_only" =>
              \/ file[a].status = "delivered" /\ sent[a] > 0
              \/ file[a] \in Undelivered \cup HeldBack
              \/ GivenUp(a) /\ file[a].status \in Deliverable

\* The owner gets an alert twice only when Telegram took a message whose call
\* failed, the outcome was not recorded, or two processes held the alert.
OnceUnlessMessy == \A a \in Alerts : sent[a] > 1 => a \in messy

\* enqueue_alert: of two alerts with one key in the file, the later one is at least
\* its own caller's window younger, unless their calls overlapped, an event of
\* theirs was lost in an incomplete line, or the later one's check read nothing.
DedupHolds ==
    \A a, b \in Alerts :
        /\ a # b /\ file[a] # None /\ file[b] # None
        /\ file[a].key = file[b].key /\ file[a].key # NoKey
        /\ file[a].created <= file[b].created
        /\ file[b].created - file[a].created < window[b]
        => \/ {a, b} \in racing \/ a \in glued \/ b \in glued
           \/ b \in blind
           \/ a \in blind /\ file[a].created = file[b].created
===============================================================================
