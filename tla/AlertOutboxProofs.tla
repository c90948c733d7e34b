------------------------- MODULE AlertOutboxProofs --------------------------
(***************************************************************************)
(* Theorems about AlertOutbox, for any processes, alerts, keys, windows,   *)
(* numbers of tries and clock.                                              *)
(***************************************************************************)
EXTENDS AlertOutbox, TLAPS

\* A process has an alert in hand exactly while it appends or delivers it.
InHand == \A p \in Callers : cur[p] # None <=> pc[p] \in {"append", "send", "record", "release"}

-------------------------------------------------------------------------------
(* Types.                                                                     *)

LEMMA EndCallTyped ==
    ASSUME TypeOK, InHand, NEW p \in Callers, EndCall(p)
    PROVE  /\ pc' \in [Callers -> {"idle", "append", "send", "record", "flush", "release"}]
           /\ cur' \in [Callers -> Entry \cup {None}] /\ todo' \in [Callers -> SUBSET Entry]
           /\ mode' \in [Callers -> {"none", "undelivered", "held"}]
           /\ tries' \in [Callers -> 0..MaxTries]
           /\ InHand'
  BY NumberAssumption DEF EndCall, Goto, TypeOK, InHand

LEMMA NextAlertTyped ==
    ASSUME TypeOK, InHand, NEW p \in Callers, NextAlert(p)
    PROVE  /\ pc' \in [Callers -> {"idle", "append", "send", "record", "flush", "release"}]
           /\ cur' \in [Callers -> Entry \cup {None}] /\ todo' \in [Callers -> SUBSET Entry]
           /\ mode' \in [Callers -> {"none", "undelivered", "held"}]
           /\ tries' \in [Callers -> 0..MaxTries]
           /\ InHand'
  BY EndCallTyped, NumberAssumption DEF NextAlert, Goto, TypeOK, InHand

LEMMA DeliverTyped ==
    ASSUME TypeOK, InHand, NEW p \in Callers, cur[p] # None, Deliver(p), UNCHANGED cur
    PROVE  /\ pc' \in [Callers -> {"idle", "append", "send", "record", "flush", "release"}]
           /\ cur' \in [Callers -> Entry \cup {None}] /\ todo' \in [Callers -> SUBSET Entry]
           /\ mode' \in [Callers -> {"none", "undelivered", "held"}]
           /\ tries' \in [Callers -> 0..MaxTries]
           /\ InHand'
  BY NumberAssumption DEF Deliver, Goto, TypeOK, InHand

LEMMA EntryFacts ==
    ASSUME NEW e \in Entry
    PROVE  /\ e # None /\ e.id \in Alerts /\ e.key \in Keys \cup {NoKey}
           /\ e.status \in Statuses /\ e.created \in Times
  BY NoneAssumption DEF Entry

LEMMA AppendTyped ==
    ASSUME TypeOK, NEW e \in Entry, Append(e) \/ AppendFails(e)
    PROVE  /\ file' \in [Alerts -> Entry \cup {None}] /\ torn' \in BOOLEAN
           /\ unreadable' \in BOOLEAN /\ glued' \subseteq Alerts
  <1>1. e.id \in Alerts
    BY EntryFacts
  <1>2. CASE UNCHANGED <<disk, glued>>
    BY <1>2 DEF TypeOK, disk
  <1>7. CASE torn' = TRUE /\ unreadable' \in {unreadable, TRUE} /\ UNCHANGED <<file, glued>>
    <2>1. torn' \in BOOLEAN /\ unreadable' \in BOOLEAN
      BY <1>7, Zenon DEF TypeOK
    <2> QED
      BY <1>7, <2>1 DEF TypeOK
  <1>3. ASSUME Append(e), torn PROVE torn' = FALSE /\ glued' = glued \cup {e.id} /\ file' = file
    BY <1>3 DEF Append
  <1>4. ASSUME Append(e), ~torn PROVE /\ file' = [file EXCEPT ![e.id] = e]
                                      /\ torn' = torn /\ glued' = glued
    BY <1>4 DEF Append
  <1>5. ASSUME Append(e) PROVE torn' \in BOOLEAN /\ unreadable' \in BOOLEAN
    <2>1. unreadable' = unreadable
      BY <1>5 DEF Append
    <2> QED
      BY <1>3, <1>4, <1>5, <2>1, Zenon DEF TypeOK
  <1>6. ASSUME Append(e) PROVE file' \in [Alerts -> Entry \cup {None}] /\ glued' \subseteq Alerts
    <2>1. file \in [Alerts -> Entry \cup {None}] /\ glued \subseteq Alerts
      BY DEF TypeOK
    <2>2. [file EXCEPT ![e.id] = e] \in [Alerts -> Entry \cup {None}]
      BY <1>1, <2>1
    <2> QED
      BY <1>1, <1>3, <1>4, <1>6, <2>1, <2>2, Zenon
  <1> QED
    BY <1>2, <1>5, <1>6, <1>7 DEF AppendFails

LEMMA InitTyped == Init => TypeOK /\ InHand
  <1>1. 0 \in Times /\ 0 \in 0..MaxTries
    BY NumberAssumption DEF Times
  <1> QED
    <2>1. SUFFICES ASSUME Init PROVE TypeOK /\ InHand
      OBVIOUS
    <2>2. torn \in BOOLEAN /\ unreadable \in BOOLEAN
      BY <2>1 DEF Init
    <2>3. /\ file \in [Alerts -> Entry \cup {None}] /\ cur \in [Callers -> Entry \cup {None}]
          /\ todo \in [Callers -> SUBSET Entry] /\ now \in Times
          /\ tries \in [Callers -> 0..MaxTries] /\ window \in [Alerts -> Windows \cup {0}]
      BY <1>1, <2>1 DEF Init
    <2>4. InHand
      BY <2>1 DEF Init, InHand
    <2> QED
      BY <2>1, <2>2, <2>3, <2>4 DEF Init, TypeOK

LEMMA TypeStep == TypeOK /\ InHand /\ [Next]_vars => TypeOK' /\ InHand'
  <1> SUFFICES ASSUME TypeOK, InHand, [Next]_vars PROVE TypeOK' /\ InHand'
    OBVIOUS
  <1> USE DEF disk, process, history
  <1>1. CASE Tick
    BY <1>1, NumberAssumption DEF Tick, TypeOK, InHand, Times
  <1>2. ASSUME NEW p \in Callers, NEW a \in Alerts, NEW key \in Keys \cup {NoKey},
               NEW as \in Kinds, NEW span \in Windows, Enqueue(p, a, key, as, span)
        PROVE  TypeOK' /\ InHand'
    <2> DEFINE e == [id |-> a, key |-> key, held |-> as = "held", created |-> now,
                     status |-> IF as = "local_only" THEN "local_only" ELSE "queued"]
    <2>1. e \in Entry /\ e # None
      <3>1. now \in Times /\ (as = "held") \in BOOLEAN
        BY DEF TypeOK
      <3>2. (IF as = "local_only" THEN "local_only" ELSE "queued") \in Statuses
        BY DEF Statuses, Deliverable
      <3>3. e \in Entry
        BY <3>1, <3>2 DEF Entry
      <3> QED
        BY <3>3, EntryFacts
    <2>2. /\ cur' = [cur EXCEPT ![p] = e] /\ pc' = [pc EXCEPT ![p] = "append"]
          /\ kind' = [kind EXCEPT ![a] = as] /\ window' = [window EXCEPT ![a] = span]
          /\ UNCHANGED <<now, disk, todo, mode, tries, accepted, released, sent, glued, messy>>
      BY <1>2, Zenon DEF Enqueue, Goto
    <2> HIDE DEF e
    <2>4. blind' \subseteq Alerts
      BY <1>2 DEF Enqueue, TypeOK
    <2>3. racing' \subseteq SUBSET Alerts
      <3>1. \A q \in Callers : pc[q] = "append" => cur[q].id \in Alerts
        BY DEF InHand, TypeOK, Entry
      <3> QED
        BY <1>2, <3>1 DEF Enqueue, TypeOK
    <2> QED
      BY <2>1, <2>2, <2>3, <2>4 DEF TypeOK, InHand
  <1>3. ASSUME NEW p \in Callers, AppendQueued(p)
        PROVE  TypeOK' /\ InHand'
    <2>1. cur[p] \in Entry /\ cur[p] # None /\ cur[p].id \in Alerts
      BY <1>3 DEF AppendQueued, InHand, TypeOK, Entry
    <2>2. CASE EndCall(p)
      BY <1>3, <2>1, <2>2, AppendTyped, EndCallTyped DEF AppendQueued, TypeOK
    <2>3. CASE Deliver(p) /\ UNCHANGED cur
      BY <1>3, <2>1, <2>3, AppendTyped, DeliverTyped DEF AppendQueued, TypeOK
    <2> QED
      BY <1>3, <2>2, <2>3 DEF AppendQueued
  <1>4. ASSUME NEW p \in Callers, QueuedFails(p)
        PROVE  TypeOK' /\ InHand'
    <2>1. cur[p] \in Entry
      BY <1>4 DEF QueuedFails, InHand, TypeOK
    <2> QED
      BY <1>4, <2>1, AppendTyped, EndCallTyped DEF QueuedFails, TypeOK
  <1>5. ASSUME NEW p \in Callers, Send(p)
        PROVE  TypeOK' /\ InHand'
    <2>1. cur[p] \in Entry /\ cur[p].id \in Alerts
      BY <1>5 DEF Send, InHand, TypeOK, Entry
    <2>2. sent' \in [Alerts -> 0..2] /\ messy' \subseteq Alerts
      BY <1>5, <2>1 DEF Send, OneMore, TypeOK
    <2>3. ASSUME NEW s \in {"delivered", "failed"}
          PROVE  [cur[p] EXCEPT !.status = s, !.held = FALSE] \in Entry
      BY <2>1 DEF Entry, Statuses, Deliverable
    <2>4. CASE pc' = pc
      BY <1>5, <2>2, <2>4, NumberAssumption DEF Send, TriesLeft, TypeOK, InHand, Goto
    <2>5. ASSUME NEW s \in {"delivered", "failed"},
                 cur' = [cur EXCEPT ![p].status = s, ![p].held = FALSE],
                 Goto(p, "record") /\ UNCHANGED tries
          PROVE  TypeOK' /\ InHand'
      <3> DEFINE e == [cur[p] EXCEPT !.status = s, !.held = FALSE]
      <3>1. cur' = [cur EXCEPT ![p] = e] /\ e \in Entry /\ e # None
        BY <2>3, <2>5, NoneAssumption
      <3>2. /\ pc' = [pc EXCEPT ![p] = "record"] /\ tries' = tries
            /\ UNCHANGED <<now, disk, todo, mode, kind, window, blind, accepted, released, glued, racing>>
        BY <1>5, <2>5, Zenon DEF Send, Goto
      <3> HIDE DEF e
      <3> QED
        BY <2>2, <3>1, <3>2 DEF TypeOK, InHand
    <2> QED
      BY <1>5, <2>4, <2>5 DEF Send
  <1>6. ASSUME NEW p \in Callers, Record(p)
        PROVE  TypeOK' /\ InHand'
    <2>1. cur[p] \in Entry /\ cur[p].id \in Alerts
      BY <1>6 DEF Record, InHand, TypeOK, Entry
    <2> QED
      BY <1>6, <2>1, AppendTyped, NextAlertTyped DEF Record, TypeOK
  <1>7. ASSUME NEW p \in Callers, FlushUndelivered(p) \/ FlushHeld(p)
        PROVE  TypeOK' /\ InHand'
    <2>1. Undelivered \subseteq Entry /\ HeldBack \subseteq Entry
      BY DEF Undelivered, HeldBack, TypeOK
    <2>2. \A e \in Entry : e.id \in Alerts
      BY DEF Entry
    <2>3. ASSUME NEW entries \in SUBSET Entry, NEW how \in {"undelivered", "held"},
                 Flush(p, how, entries)
          PROVE  TypeOK' /\ InHand'
      BY <2>2, <2>3 DEF Flush, Goto, TypeOK, InHand
    <2> QED
      BY <1>7, <2>1, <2>3 DEF FlushUndelivered, FlushHeld
  <1>8. ASSUME NEW p \in Callers, TakeUndelivered(p) \/ TakeHeld(p)
        PROVE  TypeOK' /\ InHand'
    <2>1. \A e \in todo[p] : e \in Entry
      BY DEF TypeOK
    <2>2. \A e \in Entry : /\ e # None
                           /\ [e EXCEPT !.held = FALSE, !.status = "queued"] \in Entry \ {None}
      <3>1. "queued" \in Statuses
        BY DEF Statuses, Deliverable
      <3> QED
        <4>1. \A e \in Entry : [e EXCEPT !.held = FALSE, !.status = "queued"] \in Entry
          BY <3>1 DEF Entry
        <4> QED
          BY <4>1, EntryFacts
    <2>3. CASE TakeUndelivered(p)
      <3>1. PICK e \in todo[p] :
               /\ todo' = [todo EXCEPT ![p] = @ \ {e}] /\ cur' = [cur EXCEPT ![p] = e]
               /\ pc' = [pc EXCEPT ![p] = "send"] /\ tries' = [tries EXCEPT ![p] = 1]
               /\ UNCHANGED <<now, disk, mode, history>>
        BY <2>3 DEF TakeUndelivered, Goto
      <3>2. 1 \in 0..MaxTries /\ todo[p] \ {e} \in SUBSET Entry
        BY <2>1, NumberAssumption
      <3> QED
        BY <2>1, <2>2, <3>1, <3>2 DEF TypeOK, InHand
    <2>4. CASE TakeHeld(p)
      <3>1. PICK e \in todo[p] :
               /\ todo' = [todo EXCEPT ![p] = @ \ {e}]
               /\ cur' = [cur EXCEPT ![p] = [e EXCEPT !.held = FALSE, !.status = "queued"]]
        BY <2>4 DEF TakeHeld
      <3> DEFINE f == [e EXCEPT !.held = FALSE, !.status = "queued"]
      <3>2. f \in Entry /\ f # None /\ cur' = [cur EXCEPT ![p] = f]
        BY <2>1, <2>2, <3>1
      <3> HIDE DEF f
      <3> QED
        BY <2>4, <3>1, <3>2 DEF TakeHeld, Goto, TypeOK, InHand
    <2> QED
      BY <1>8, <2>3, <2>4
  <1>9. ASSUME NEW p \in Callers, Release(p)
        PROVE  TypeOK' /\ InHand'
    <2>1. cur[p] \in Entry /\ cur[p] # None /\ cur[p].id \in Alerts
      BY <1>9 DEF Release, InHand, TypeOK, Entry
    <2> QED
      BY <1>9, <2>1, AppendTyped, DeliverTyped, NextAlertTyped DEF Release, TypeOK
  <1>10. ASSUME NEW p \in Callers, Crash(p)
         PROVE  TypeOK' /\ InHand'
    <2>1. pc[p] = "record" => cur[p].id \in Alerts
      BY DEF InHand, TypeOK, Entry
    <2> QED
      BY <1>10, <2>1, EndCallTyped DEF Crash, TypeOK
  <1>11. CASE UNCHANGED vars
    BY <1>11 DEF vars, TypeOK, InHand
  <1> QED
    BY <1>1, <1>2, <1>3, <1>4, <1>5, <1>6, <1>7, <1>8, <1>9, <1>10, <1>11 DEF Next

\* Events and what processes hold are well formed, for any numbers of them.
THEOREM TypeCorrect == Spec => []TypeOK
  <1>1. Init => TypeOK /\ InHand
    BY InitTyped
  <1>2. TypeOK /\ InHand /\ [Next]_vars => (TypeOK /\ InHand)'
    BY TypeStep
  <1> QED
    BY <1>1, <1>2, PTL DEF Spec

-------------------------------------------------------------------------------
(* What the calls of an action do to the processes and to the file.           *)

Others(p) == \A q \in Callers \ {p} :
    pc'[q] = pc[q] /\ cur'[q] = cur[q] /\ todo'[q] = todo[q] /\ mode'[q] = mode[q]

LEMMA Dropped ==
    ASSUME TypeOK, NEW p \in Callers, EndCall(p) \/ NextAlert(p)
    PROVE  /\ Others(p) /\ cur'[p] = None /\ pc'[p] \in {"idle", "flush"}
           /\ todo'[p] = {} \/ (todo'[p] = todo[p] /\ mode'[p] = mode[p])
  BY DEF TypeOK, EndCall, NextAlert, Goto, Others

LEMMA Passed ==
    ASSUME TypeOK, NEW p \in Callers, Deliver(p), UNCHANGED cur
    PROVE  /\ Others(p) /\ cur' = cur /\ pc'[p] = "send"
           /\ todo' = todo /\ mode' = mode
  BY DEF TypeOK, Deliver, Goto, Others

LEMMA Appended ==
    ASSUME TypeOK, NEW e \in Entry, Append(e) \/ AppendFails(e)
    PROVE  /\ \A a \in Alerts : file'[a] = file[a] \/ (a = e.id /\ file'[a] = e)
           /\ glued \subseteq glued'
           /\ Append(e) => file'[e.id] = e \/ e.id \in glued'
  <1>1. e.id \in Alerts /\ file \in [Alerts -> Entry \cup {None}]
    BY EntryFacts DEF TypeOK
  <1>2. CASE ~Append(e)
    BY <1>2 DEF AppendFails, disk
  <1>3. CASE Append(e) /\ torn
    BY <1>1, <1>3, Zenon DEF Append
  <1>4. CASE Append(e) /\ ~torn
    <2>1. file' = [file EXCEPT ![e.id] = e] /\ glued' = glued
      BY <1>4 DEF Append
    <2> QED
      BY <1>1, <2>1
  <1> QED
    BY <1>2, <1>3, <1>4

LEMMA InHandIs ==
    ASSUME TypeOK, InHand, NEW p \in Callers, pc[p] \in {"append", "send", "record", "release"}
    PROVE  cur[p] \in Entry /\ cur[p] # None /\ cur[p].id \in Alerts
  BY EntryFacts DEF TypeOK, InHand

-------------------------------------------------------------------------------
(* Where an event comes from: whatever is in the file or in a process agrees  *)
(* with what the alert was enqueued as, and one that is not held any more was *)
(* released or was never held.                                                *)

Sound(e) ==
    /\ kind[e.id] \in Kinds
    /\ kind[e.id] = "local_only" <=> e.status = "local_only"
    /\ e.held => kind[e.id] = "held"
Freed(e) == e.held \/ kind[e.id] # "held" \/ e.id \in released

FileSound == \A a \in Alerts :
    file[a] # None => file[a].id = a /\ Sound(file[a]) /\ Freed(file[a])
TodoSound == \A p \in Callers : \A e \in todo[p] :
    /\ Sound(e) /\ Freed(e) /\ e.status \in Deliverable
    /\ mode[p] = "undelivered" => ~e.held
    /\ mode[p] = "held" => e.held
CurSound == \A p \in Callers :
    /\ cur[p] # None => Sound(cur[p])
    /\ pc[p] \in {"append", "send", "record"} => Freed(cur[p])
    /\ pc[p] \in {"send", "record", "release"} =>
          ~cur[p].held /\ cur[p].status # "local_only"
Provenance == FileSound /\ TodoSound /\ CurSound

LEMMA ProvenanceStep ==
    ASSUME TypeOK, TypeOK', InHand, Provenance, SentOnlyWhenAllowed, [Next]_vars
    PROVE  Provenance' /\ SentOnlyWhenAllowed'
  <1> USE DEF disk, history
  <1>fs. FileSound /\ TodoSound /\ CurSound
    BY DEF Provenance
  <1>ids. /\ \A a \in Alerts : file[a] # None => file[a] \in Entry
          /\ \A p \in Callers : cur[p] # None => cur[p] \in Entry
          /\ \A p \in Callers : todo[p] \subseteq Entry
          /\ \A e \in Entry : e.id \in Alerts
    BY EntryFacts DEF TypeOK
  \* Only Enqueue changes kind, and only of an alert that no event is about.
  <1>kept. ASSUME NEW e \in Entry, UNCHANGED kind, released \subseteq released'
           PROVE  /\ Sound(e) => Sound(e)'
                  /\ Freed(e) => Freed(e)'
    BY <1>kept DEF Sound, Freed
  <1>sent. ASSUME UNCHANGED <<sent, kind>>, released \subseteq released'
           PROVE  SentOnlyWhenAllowed'
    BY <1>sent DEF SentOnlyWhenAllowed, Allowed
  <1>1. CASE Tick \/ UNCHANGED vars
    <2>1. UNCHANGED <<file, pc, cur, todo, mode, kind, released, sent>>
      BY <1>1 DEF Tick, vars, process
    <2> QED
      BY <1>fs, <1>sent, <2>1 DEF Provenance, FileSound, TodoSound, CurSound, Sound, Freed
  <1>2. ASSUME NEW p \in Callers, NEW a \in Alerts, NEW key \in Keys \cup {NoKey},
               NEW as \in Kinds, NEW span \in Windows, Enqueue(p, a, key, as, span)
        PROVE  Provenance' /\ SentOnlyWhenAllowed'
    <2>n. PICK n \in Entry : n = [id |-> a, key |-> key, held |-> as = "held",
                                  created |-> now,
                                  status |-> IF as = "local_only" THEN "local_only" ELSE "queued"]
      <3>1. now \in Times /\ (as = "held") \in BOOLEAN
        BY DEF TypeOK
      <3>2. (IF as = "local_only" THEN "local_only" ELSE "queued") \in Statuses
        BY DEF Statuses, Deliverable
      <3> QED
        BY <3>1, <3>2 DEF Entry
    <2>1. /\ pc[p] = "idle" /\ kind[a] = None
          /\ cur' = [cur EXCEPT ![p] = n] /\ pc' = [pc EXCEPT ![p] = "append"]
          /\ kind' = [kind EXCEPT ![a] = as]
          /\ UNCHANGED <<file, todo, mode, released, sent>>
      BY <1>2, <2>n, Zenon DEF Enqueue, Goto
    <2>2. kind'[a] = as /\ \A b \in Alerts \ {a} : kind'[b] = kind[b]
      BY <2>1 DEF TypeOK
    <2>3. ASSUME NEW e \in Entry, Sound(e)
          PROVE  Sound(e)' /\ (Freed(e) => Freed(e)')
      <3>1. e.id \in Alerts \ {a}
        BY <1>ids, <2>1, <2>3, NoneAssumption, KindAssumption DEF Sound
      <3> QED
        BY <2>1, <2>2, <2>3, <3>1 DEF Sound, Freed
    <2>4. Sound(n)' /\ Freed(n)'
      <3>1. n.id = a /\ (n.held <=> as = "held")
        BY <2>n
      <3>2. n.status = "local_only" <=> as = "local_only"
        BY <2>n
      <3> QED
        BY <2>2, <3>1, <3>2 DEF Sound, Freed
    <2>5. FileSound'
      BY <1>fs, <1>ids, <2>1, <2>3 DEF FileSound
    <2>6. TodoSound'
      BY <1>fs, <1>ids, <2>1, <2>3 DEF TodoSound
    <2>7. CurSound'
      <3>1. ASSUME NEW q \in Callers \ {p}
            PROVE  cur'[q] = cur[q] /\ pc'[q] = pc[q]
        BY <2>1 DEF TypeOK
      <3>2. cur'[p] = n /\ pc'[p] = "append"
        BY <2>1 DEF TypeOK
      <3>3. ASSUME NEW q \in Callers, pc[q] \in {"append", "send", "record"} PROVE cur[q] # None
        BY <3>3 DEF InHand
      <3> QED
        BY <1>fs, <1>ids, <2>3, <2>4, <3>1, <3>2, <3>3 DEF CurSound
    <2>8. SentOnlyWhenAllowed'
      <3>1. \A b \in Alerts : sent[b] > 0 => b # a
        BY <2>1, NoneAssumption DEF SentOnlyWhenAllowed, Allowed
      <3> QED
        BY <2>1, <2>2, <3>1 DEF SentOnlyWhenAllowed, Allowed
    <2> QED
      BY <2>5, <2>6, <2>7, <2>8 DEF Provenance
  \* A process that is done with its alert, or gives up all of them.
  <1>drop. ASSUME NEW p \in Callers, EndCall(p) \/ NextAlert(p),
                  UNCHANGED kind, released \subseteq released'
           PROVE  TodoSound' /\ CurSound'
    <2>1. /\ Others(p) /\ cur'[p] = None /\ pc'[p] \in {"idle", "flush"}
          /\ todo'[p] = {} \/ (todo'[p] = todo[p] /\ mode'[p] = mode[p])
      BY <1>drop, Dropped
    <2>2. \A q \in Callers : pc[q] \in {"append", "send", "record"} => cur[q] # None
      BY DEF InHand
    <2>3. TodoSound'
      BY <1>fs, <1>ids, <1>kept, <1>drop, <2>1 DEF TodoSound, Others
    <2>4. CurSound'
      BY <1>fs, <1>ids, <1>kept, <1>drop, <2>1, <2>2 DEF CurSound, Others
    <2> QED
      BY <2>3, <2>4
  \* A process that goes on to deliver the alert it has in hand.
  <1>pass. ASSUME NEW p \in Callers, Deliver(p), UNCHANGED <<cur, kind>>,
                  released \subseteq released', cur[p] # None,
                  Freed(cur[p])', ~cur[p].held, cur[p].status # "local_only"
           PROVE  TodoSound' /\ CurSound'
    <2>1. Others(p) /\ cur' = cur /\ pc'[p] = "send" /\ todo' = todo /\ mode' = mode
      BY <1>pass, Passed
    <2>2. \A q \in Callers : pc[q] \in {"append", "send", "record"} => cur[q] # None
      BY DEF InHand
    <2>3. TodoSound'
      BY <1>fs, <1>ids, <1>kept, <1>pass, <2>1 DEF TodoSound
    <2>4. CurSound'
      BY <1>fs, <1>ids, <1>kept, <1>pass, <2>1, <2>2 DEF CurSound, Others
    <2> QED
      BY <2>3, <2>4
  \* What is appended must be sound, and released if it is not held any more.
  <1>append. ASSUME NEW e \in Entry, Append(e) \/ AppendFails(e), Sound(e),
                    Freed(e)' \/ file'[e.id] # e, UNCHANGED kind, released \subseteq released'
             PROVE  FileSound'
    <2>1. \A a \in Alerts : file'[a] = file[a] \/ (a = e.id /\ file'[a] = e)
      BY <1>append, Appended
    <2> QED
      BY <1>fs, <1>ids, <1>kept, <1>append, <2>1 DEF FileSound
  <1>3. ASSUME NEW p \in Callers, AppendQueued(p)
        PROVE  Provenance' /\ SentOnlyWhenAllowed'
    <2>1. pc[p] = "append" /\ cur[p] \in Entry /\ cur[p] # None
      BY <1>3, InHandIs DEF AppendQueued
    <2>2. Append(cur[p]) /\ UNCHANGED <<kind, released, sent>>
      BY <1>3 DEF AppendQueued
    <2>3. PICK e \in Entry : e = cur[p]
      BY <2>1
    <2>4. Sound(e) /\ Freed(e)
      BY <1>fs, <2>1, <2>3 DEF CurSound
    <2>7. Freed(e)'
      BY <1>kept, <2>2, <2>4
    <2>8. FileSound' /\ SentOnlyWhenAllowed'
      BY <1>append, <1>sent, <2>2, <2>3, <2>4, <2>7
    <2>5. CASE EndCall(p)
      BY <1>drop, <2>2, <2>5, <2>8 DEF Provenance
    <2>6. CASE Deliver(p) /\ UNCHANGED cur /\ ~(cur[p].held \/ cur[p].status = "local_only")
      <3>1. Freed(cur[p])'
        BY <2>3, <2>6, <2>7
      <3>2. UNCHANGED <<cur, kind>> /\ released \subseteq released'
        BY <2>2, <2>6
      <3> QED
        BY <1>pass, <2>1, <2>6, <2>8, <3>1, <3>2 DEF Provenance
    <2> QED
      BY <1>3, <2>5, <2>6 DEF AppendQueued
  <1>11. ASSUME NEW p \in Callers, QueuedFails(p)
         PROVE  Provenance' /\ SentOnlyWhenAllowed'
    <2>1. pc[p] = "append" /\ cur[p] \in Entry /\ cur[p] # None
      BY <1>11, InHandIs DEF QueuedFails
    <2>2. AppendFails(cur[p]) /\ EndCall(p) /\ UNCHANGED <<kind, released, sent>>
      BY <1>11 DEF QueuedFails
    <2>3. PICK e \in Entry : e = cur[p]
      BY <2>1
    <2>4. Sound(e) /\ Freed(e)
      BY <1>fs, <2>1, <2>3 DEF CurSound
    <2>5. Freed(e)'
      BY <1>kept, <2>2, <2>4
    <2>6. FileSound' /\ SentOnlyWhenAllowed'
      BY <1>append, <1>sent, <2>2, <2>3, <2>4, <2>5
    <2> QED
      BY <1>drop, <2>2, <2>6 DEF Provenance
  <1>4. ASSUME NEW p \in Callers, Crash(p)
        PROVE  Provenance' /\ SentOnlyWhenAllowed'
    <2>1. EndCall(p) /\ UNCHANGED <<file, kind, released, sent>>
      BY <1>4 DEF Crash
    <2>2. FileSound'
      BY <1>fs, <2>1 DEF FileSound, Sound, Freed
    <2> QED
      BY <1>drop, <1>sent, <2>1, <2>2 DEF Provenance
  <1>5. ASSUME NEW p \in Callers, Send(p)
        PROVE  Provenance' /\ SentOnlyWhenAllowed'
    <2>1. pc[p] = "send" /\ cur[p] \in Entry /\ cur[p] # None
      BY <1>5, InHandIs DEF Send
    <2>2. UNCHANGED <<file, todo, mode, kind, released>>
      BY <1>5 DEF Send
    <2>3. Sound(cur[p]) /\ Freed(cur[p]) /\ ~cur[p].held /\ cur[p].status # "local_only"
      BY <1>fs, <2>1 DEF CurSound
    <2>4. Allowed(cur[p].id)
      BY <2>3, KindAssumption DEF Sound, Freed, Allowed
    <2>5. SentOnlyWhenAllowed'
      <3>1. \A a \in Alerts \ {cur[p].id} : sent'[a] = sent[a]
        BY <1>5 DEF Send, TypeOK
      <3> QED
        BY <2>2, <2>4, <3>1 DEF SentOnlyWhenAllowed, Allowed
    <2>6. /\ \A q \in Callers \ {p} : cur'[q] = cur[q] /\ pc'[q] = pc[q]
          /\ \/ cur' = cur /\ pc' = pc
             \/ /\ pc'[p] = "record"
                /\ \E st \in {"delivered", "failed"} :
                      cur'[p] = [cur[p] EXCEPT !.status = st, !.held = FALSE]
      <3>1. CASE cur' = cur /\ pc' = pc
        BY <3>1
      <3>2. ASSUME NEW st \in {"delivered", "failed"}, Goto(p, "record"),
                   cur' = [cur EXCEPT ![p].status = st, ![p].held = FALSE]
            PROVE  /\ \A q \in Callers \ {p} : cur'[q] = cur[q] /\ pc'[q] = pc[q]
                   /\ pc'[p] = "record"
                   /\ cur'[p] = [cur[p] EXCEPT !.status = st, !.held = FALSE]
        BY <3>2 DEF Goto, TypeOK
      <3> QED
        BY <1>5, <3>1, <3>2 DEF Send
    <2>7. FileSound' /\ TodoSound'
      <3>1. ASSUME NEW e \in Entry, Sound(e), Freed(e) PROVE Sound(e)' /\ Freed(e)'
        BY <1>kept, <2>2, <3>1
      <3> QED
        BY <1>fs, <1>ids, <2>2, <3>1 DEF FileSound, TodoSound
    <2>8. CurSound'
      <3>1. ASSUME NEW st \in {"delivered", "failed"},
                   cur'[p] = [cur[p] EXCEPT !.status = st, !.held = FALSE]
            PROVE  /\ cur'[p].id = cur[p].id /\ ~cur'[p].held
                   /\ cur'[p].status # "local_only" /\ kind[cur[p].id] # "local_only"
        <4>1. st \in Statuses /\ cur[p] \in Entry
          BY <2>1 DEF Statuses, Deliverable
        <4> QED
          <5>1. /\ cur'[p].id = cur[p].id /\ cur'[p].status = st
                /\ cur'[p].held = FALSE
            BY <3>1, <4>1 DEF Entry
          <5>2. kind[cur[p].id] # "local_only"
            BY <2>3 DEF Sound
          <5> QED
            BY <5>1, <5>2
      <3>2. Sound(cur[p])' /\ Freed(cur[p])' /\ ~cur'[p].held /\ cur'[p].status # "local_only"
        BY <2>2, <2>3, <2>6, <3>1 DEF Sound, Freed
      <3>3. ASSUME NEW e \in Entry, Sound(e) PROVE Sound(e)' /\ (Freed(e) => Freed(e)')
        BY <1>kept, <2>2, <3>3
      <3>4. \A q \in Callers : pc[q] \in {"append", "send", "record"} => cur[q] # None
        BY DEF InHand
      <3>5. ASSUME NEW q \in Callers \ {p}
            PROVE  /\ cur'[q] # None => Sound(cur[q])'
                   /\ pc'[q] \in {"append", "send", "record"} => Freed(cur[q])'
                   /\ pc'[q] \in {"send", "record", "release"} =>
                         ~cur'[q].held /\ cur'[q].status # "local_only"
        BY <1>fs, <1>ids, <2>6, <3>3, <3>4 DEF CurSound, Sound, Freed
      <3> QED
        BY <3>2, <3>5 DEF CurSound
    <2> QED
      BY <2>5, <2>7, <2>8 DEF Provenance
  <1>6. ASSUME NEW p \in Callers, Record(p)
        PROVE  Provenance' /\ SentOnlyWhenAllowed'
    <2>1. pc[p] = "record" /\ cur[p] \in Entry /\ cur[p] # None
      BY <1>6, InHandIs DEF Record
    <2>2. /\ Append(cur[p]) \/ AppendFails(cur[p])
          /\ NextAlert(p) /\ UNCHANGED <<kind, released, sent>>
      BY <1>6 DEF Record
    <2>3. PICK e \in Entry : e = cur[p]
      BY <2>1
    <2>4. Sound(e) /\ Freed(e)
      BY <1>fs, <2>1, <2>3 DEF CurSound
    <2>5. Freed(e)'
      BY <1>kept, <2>2, <2>4
    <2>6. FileSound' /\ SentOnlyWhenAllowed'
      BY <1>append, <1>sent, <2>2, <2>3, <2>4, <2>5
    <2> QED
      BY <1>drop, <2>2, <2>6 DEF Provenance
  <1>7. ASSUME NEW p \in Callers, NEW how \in {"undelivered", "held"}, NEW entries,
               \/ how = "undelivered" /\ entries = Undelivered
               \/ how = "held" /\ entries = HeldBack,
               Flush(p, how, entries)
        PROVE  Provenance' /\ SentOnlyWhenAllowed'
    <2>1. /\ pc[p] = "idle"
          /\ todo' = [todo EXCEPT ![p] = entries] /\ mode' = [mode EXCEPT ![p] = how]
          /\ pc' = [pc EXCEPT ![p] = "flush"]
          /\ UNCHANGED <<file, cur, kind, released, sent>>
      BY <1>7 DEF Flush, Goto
    <2>2. \A e \in entries :
             /\ e \in Entry /\ Sound(e) /\ Freed(e) /\ e.status \in Deliverable
             /\ how = "undelivered" => ~e.held
             /\ how = "held" => e.held
      BY <1>7, <1>fs, <1>ids DEF FileSound, Undelivered, HeldBack
    <2>3. FileSound' /\ SentOnlyWhenAllowed'
      BY <1>fs, <2>1 DEF FileSound, SentOnlyWhenAllowed, Allowed, Sound, Freed
    <2>4. CurSound'
      BY <1>fs, <2>1 DEF CurSound, Sound, Freed, TypeOK
    <2>5. TodoSound'
      <3>1. ASSUME NEW e \in Entry, Sound(e), Freed(e) PROVE Sound(e)' /\ Freed(e)'
        BY <1>kept, <2>1, <3>1
      <3>2. \A q \in Callers \ {p} : todo'[q] = todo[q] /\ mode'[q] = mode[q]
        BY <2>1 DEF TypeOK
      <3>3. todo'[p] = entries /\ mode'[p] = how
        BY <2>1 DEF TypeOK
      <3> QED
        BY <1>7, <1>fs, <1>ids, <2>2, <3>1, <3>2, <3>3 DEF TodoSound
    <2> QED
      BY <2>3, <2>4, <2>5 DEF Provenance
  <1>8. ASSUME NEW p \in Callers, TakeUndelivered(p)
        PROVE  Provenance' /\ SentOnlyWhenAllowed'
    <2>1. PICK e \in todo[p] :
             /\ mode[p] = "undelivered"
             /\ todo' = [todo EXCEPT ![p] = @ \ {e}] /\ cur' = [cur EXCEPT ![p] = e]
             /\ pc' = [pc EXCEPT ![p] = "send"]
             /\ UNCHANGED <<file, mode, kind, released, sent>>
      BY <1>8 DEF TakeUndelivered, Goto
    <2>2. /\ e \in Entry /\ Sound(e) /\ Freed(e) /\ ~e.held /\ e.status # "local_only"
      BY <1>fs, <1>ids, <2>1 DEF TodoSound, Deliverable
    <2>3. FileSound' /\ SentOnlyWhenAllowed'
      BY <1>fs, <2>1 DEF FileSound, SentOnlyWhenAllowed, Allowed, Sound, Freed
    <2>4. ASSUME NEW f \in Entry, Sound(f) PROVE Sound(f)' /\ (Freed(f) => Freed(f)')
      BY <1>kept, <2>1, <2>4
    <2>5. TodoSound'
      <3>1. \A q \in Callers : todo'[q] \subseteq todo[q] /\ mode'[q] = mode[q]
        BY <2>1 DEF TypeOK
      <3> QED
        BY <1>fs, <1>ids, <2>4, <3>1 DEF TodoSound
    <2>6. CurSound'
      <3>1. \A q \in Callers \ {p} : cur'[q] = cur[q] /\ pc'[q] = pc[q]
        BY <2>1 DEF TypeOK
      <3>2. cur'[p] = e /\ pc'[p] = "send"
        BY <2>1 DEF TypeOK
      <3>3. \A q \in Callers : pc[q] \in {"append", "send", "record"} => cur[q] # None
        BY DEF InHand
      <3> QED
        BY <1>fs, <1>ids, <2>2, <2>4, <3>1, <3>2, <3>3 DEF CurSound
    <2> QED
      BY <2>3, <2>5, <2>6 DEF Provenance
  <1>9. ASSUME NEW p \in Callers, TakeHeld(p)
        PROVE  Provenance' /\ SentOnlyWhenAllowed'
    <2>1. PICK e \in todo[p] :
             /\ mode[p] = "held"
             /\ todo' = [todo EXCEPT ![p] = @ \ {e}]
             /\ cur' = [cur EXCEPT ![p] = [e EXCEPT !.held = FALSE, !.status = "queued"]]
             /\ pc' = [pc EXCEPT ![p] = "release"]
             /\ UNCHANGED <<file, mode, kind, released, sent>>
      BY <1>9 DEF TakeHeld, Goto
    <2>2. e \in Entry /\ Sound(e) /\ e.held
      BY <1>fs, <1>ids, <2>1 DEF TodoSound
    <2>3. PICK f \in Entry : /\ f = [e EXCEPT !.held = FALSE, !.status = "queued"]
                             /\ f.id = e.id /\ f.status = "queued" /\ f.held = FALSE
      <3>1. "queued" \in Statuses
        BY DEF Statuses, Deliverable
      <3> DEFINE g == [e EXCEPT !.held = FALSE, !.status = "queued"]
      <3>2. g \in Entry /\ g.id = e.id /\ g.status = "queued" /\ g.held = FALSE
        BY <2>2, <3>1 DEF Entry
      <3> QED
        BY <3>2, Zenon
    <2>4. Sound(f) /\ ~f.held /\ f.status # "local_only"
      BY <2>2, <2>3 DEF Sound
    <2>5. FileSound' /\ SentOnlyWhenAllowed'
      BY <1>fs, <2>1 DEF FileSound, SentOnlyWhenAllowed, Allowed, Sound, Freed
    <2>6. ASSUME NEW g \in Entry, Sound(g) PROVE Sound(g)' /\ (Freed(g) => Freed(g)')
      BY <1>kept, <2>1, <2>6
    <2>7. TodoSound'
      <3>1. \A q \in Callers : todo'[q] \subseteq todo[q] /\ mode'[q] = mode[q]
        BY <2>1 DEF TypeOK
      <3> QED
        BY <1>fs, <1>ids, <2>6, <3>1 DEF TodoSound
    <2>8. CurSound'
      <3>1. \A q \in Callers \ {p} : cur'[q] = cur[q] /\ pc'[q] = pc[q]
        BY <2>1 DEF TypeOK
      <3>2. cur'[p] = f /\ pc'[p] = "release"
        BY <2>1, <2>3 DEF TypeOK
      <3>3. \A q \in Callers : pc[q] \in {"append", "send", "record"} => cur[q] # None
        BY DEF InHand
      <3> QED
        BY <1>fs, <1>ids, <2>4, <2>6, <3>1, <3>2, <3>3 DEF CurSound
    <2> QED
      BY <2>5, <2>7, <2>8 DEF Provenance
  <1>10. ASSUME NEW p \in Callers, Release(p)
         PROVE  Provenance' /\ SentOnlyWhenAllowed'
    <2>1. pc[p] = "release" /\ cur[p] \in Entry /\ cur[p] # None
      BY <1>10, InHandIs DEF Release
    <2>2. UNCHANGED <<kind, sent>> /\ released \subseteq released'
      BY <1>10 DEF Release
    <2>3. PICK e \in Entry : e = cur[p]
      BY <2>1
    <2>4. Sound(e) /\ ~e.held /\ e.status # "local_only"
      BY <1>fs, <2>1, <2>3 DEF CurSound
    <2>5. CASE /\ Append(cur[p]) /\ released' = released \cup {cur[p].id}
               /\ Deliver(p) /\ UNCHANGED cur
      <3>1. Freed(e)'
        BY <2>3, <2>5 DEF Freed
      <3>2. FileSound' /\ SentOnlyWhenAllowed'
        BY <1>append, <1>sent, <2>2, <2>3, <2>4, <2>5, <3>1
      <3>3. Freed(cur[p])'
        BY <2>3, <2>5, <3>1
      <3> QED
        BY <1>pass, <2>1, <2>2, <2>3, <2>4, <2>5, <3>2, <3>3 DEF Provenance
    <2>6. CASE /\ AppendFails(cur[p]) /\ NextAlert(p)
               /\ released' = IF file'[cur[p].id] = cur[p] THEN released \cup {cur[p].id} ELSE released
      <3>2. Freed(e)' \/ file'[e.id] # e
        BY <2>3, <2>6 DEF Freed
      <3>1. FileSound' /\ SentOnlyWhenAllowed'
        BY <1>append, <1>sent, <2>2, <2>3, <2>4, <2>6, <3>2
      <3> QED
        BY <1>drop, <2>2, <2>6, <3>1 DEF Provenance
    <2> QED
      BY <1>10, <2>5, <2>6 DEF Release
  <1> QED
    BY <1>1, <1>2, <1>3, <1>4, <1>5, <1>6, <1>7, <1>8, <1>9, <1>10, <1>11
       DEF Next, FlushUndelivered, FlushHeld

LEMMA ProvenanceInit == Init => Provenance /\ SentOnlyWhenAllowed
  BY DEF Init, Provenance, FileSound, TodoSound, CurSound, SentOnlyWhenAllowed

\* A local_only alert never leaves the machine and a held one only after it was
\* released, for any processes, alerts and interleaving of flushes and crashes.
THEOREM SentCorrect == Spec => []SentOnlyWhenAllowed
  <1> DEFINE Inv == TypeOK /\ InHand /\ Provenance /\ SentOnlyWhenAllowed
  <1>1. Init => Inv
    BY InitTyped, ProvenanceInit
  <1>2. Inv /\ [Next]_vars => Inv'
    BY TypeStep, ProvenanceStep
  <1> QED
    BY <1>1, <1>2, PTL DEF Spec

-------------------------------------------------------------------------------
(* Nothing accepted is lost: an accepted alert is in the file unless its event *)
(* was glued, and an event says delivered only of an alert that was sent.      *)

Kept == \A a \in accepted : a \notin glued => file[a] # None
FileDelivered == \A a \in Alerts :
    file[a] # None /\ file[a].status = "delivered" => sent[a] > 0
CurDelivered == \A p \in Callers :
    cur[p] # None /\ cur[p].status = "delivered" => pc[p] = "record" /\ sent[cur[p].id] > 0
Outcomes == Kept /\ FileDelivered /\ CurDelivered

LEMMA OutcomesInit == Init => Outcomes
  BY DEF Init, Outcomes, Kept, FileDelivered, CurDelivered

LEMMA OutcomesStep ==
    ASSUME TypeOK, TypeOK', InHand, Provenance, Outcomes, [Next]_vars
    PROVE  Outcomes'
  <1> USE DEF disk, history
  <1>o. Kept /\ FileDelivered /\ CurDelivered
    BY DEF Outcomes
  <1>ids. /\ \A p \in Callers : cur[p] # None => cur[p] \in Entry
          /\ \A e \in Entry : e.id \in Alerts /\ e # None
    BY EntryFacts DEF TypeOK
  \* An append keeps what is in the file, and records delivered only what was sent.
  <1>append. ASSUME NEW e \in Entry, Append(e) \/ AppendFails(e), sent' = sent,
                    e.status = "delivered" => sent[e.id] > 0
             PROVE  /\ accepted' = accepted => Kept'
                    /\ FileDelivered'
    <2>1. /\ \A a \in Alerts : file'[a] = file[a] \/ (a = e.id /\ file'[a] = e)
          /\ glued \subseteq glued'
      BY <1>append, Appended
    <2>2. accepted \subseteq Alerts
      BY DEF TypeOK
    <2> QED
      BY <1>o, <1>ids, <1>append, <2>1, <2>2 DEF Kept, FileDelivered
  <1>drop. ASSUME NEW p \in Callers, EndCall(p) \/ NextAlert(p), sent' = sent
           PROVE  CurDelivered'
    <2>1. Others(p) /\ cur'[p] = None
      BY <1>drop, Dropped
    <2> QED
      BY <1>o, <1>drop, <2>1 DEF CurDelivered, Others
  <1>pass. ASSUME NEW p \in Callers, Deliver(p), UNCHANGED <<cur, sent>>, pc[p] # "record"
           PROVE  CurDelivered'
    <2>1. Others(p) /\ cur' = cur
      BY <1>pass, Passed
    <2> QED
      BY <1>o, <1>pass, <2>1 DEF CurDelivered, Others
  \* A process takes an alert that is not delivered.
  <1>take. ASSUME NEW p \in Callers, NEW e \in Entry, e.status # "delivered",
                  cur' = [cur EXCEPT ![p] = e], sent' = sent,
                  \A q \in Callers \ {p} : pc'[q] = pc[q]
           PROVE  CurDelivered'
    BY <1>o, <1>take DEF CurDelivered, TypeOK
  <1>1. CASE Tick \/ UNCHANGED vars
    <2>1. UNCHANGED <<file, pc, cur, accepted, glued, sent>>
      BY <1>1 DEF Tick, vars, process
    <2> QED
      BY <1>o, <2>1 DEF Outcomes, Kept, FileDelivered, CurDelivered
  <1>2. ASSUME NEW p \in Callers, NEW a \in Alerts, NEW key \in Keys \cup {NoKey},
               NEW as \in Kinds, NEW span \in Windows, Enqueue(p, a, key, as, span)
        PROVE  Outcomes'
    <2>1. /\ pc' = [pc EXCEPT ![p] = "append"]
          /\ \A q \in Callers \ {p} : cur'[q] = cur[q]
          /\ cur'[p].status # "delivered"
          /\ UNCHANGED <<file, accepted, sent, glued>>
      BY <1>2 DEF Enqueue, Goto, TypeOK
    <2> QED
      BY <1>o, <2>1 DEF Outcomes, Kept, FileDelivered, CurDelivered, TypeOK
  <1>3. ASSUME NEW p \in Callers, AppendQueued(p)
        PROVE  Outcomes'
    <2>1. /\ pc[p] = "append" /\ cur[p] \in Entry /\ cur[p] # None
          /\ cur[p].id \in Alerts
      BY <1>3, InHandIs DEF AppendQueued
    <2>2. Append(cur[p]) /\ accepted' = accepted \cup {cur[p].id} /\ sent' = sent
      BY <1>3 DEF AppendQueued
    <2>3. FileDelivered'
      BY <1>o, <1>append, <2>1, <2>2 DEF CurDelivered
    <2>4. Kept'
      <3>1. /\ \A a \in Alerts : file'[a] = file[a] \/ (a = cur[p].id /\ file'[a] = cur[p])
            /\ glued \subseteq glued'
            /\ file'[cur[p].id] = cur[p] \/ cur[p].id \in glued'
        BY <2>1, <2>2, Appended
      <3>3. accepted \subseteq Alerts
        BY DEF TypeOK
      <3> QED
        BY <1>o, <1>ids, <2>1, <2>2, <3>1, <3>3 DEF Kept
    <2>5. CurDelivered'
      BY <1>3, <1>drop, <1>pass, <2>1, <2>2 DEF AppendQueued
    <2> QED
      BY <2>3, <2>4, <2>5 DEF Outcomes
  <1>11. ASSUME NEW p \in Callers, QueuedFails(p)
         PROVE  Outcomes'
    <2>1. pc[p] = "append" /\ cur[p] \in Entry /\ cur[p] # None
      BY <1>11, InHandIs DEF QueuedFails
    <2>2. AppendFails(cur[p]) /\ EndCall(p) /\ UNCHANGED <<accepted, sent>>
      BY <1>11 DEF QueuedFails
    <2>3. Kept' /\ FileDelivered'
      BY <1>o, <1>append, <2>1, <2>2 DEF CurDelivered
    <2> QED
      BY <1>drop, <2>2, <2>3 DEF Outcomes
  <1>4. ASSUME NEW p \in Callers, Crash(p)
        PROVE  Outcomes'
    <2>1. EndCall(p) /\ UNCHANGED <<file, accepted, sent, glued>>
      BY <1>4 DEF Crash
    <2> QED
      BY <1>o, <1>drop, <2>1 DEF Outcomes, Kept, FileDelivered
  <1>5. ASSUME NEW p \in Callers, Send(p)
        PROVE  Outcomes'
    <2>1. /\ pc[p] = "send" /\ cur[p] \in Entry /\ cur[p] # None /\ cur[p].id \in Alerts
      BY <1>5, InHandIs DEF Send
    <2>2. UNCHANGED <<file, accepted, glued>>
      BY <1>5 DEF Send
    <2>3. \A a \in Alerts : sent[a] > 0 => sent'[a] > 0
      BY <1>5, <2>1 DEF Send, OneMore, TypeOK
    <2>4. Kept' /\ FileDelivered'
      BY <1>o, <2>2, <2>3 DEF Kept, FileDelivered
    <2>5. ASSUME NEW q \in Callers \ {p}
          PROVE  pc'[q] = pc[q] /\ cur'[q] = cur[q]
      BY <1>5 DEF Send, Goto, TypeOK
    <2>6. ASSUME cur'[p].status = "delivered"
          PROVE  pc'[p] = "record" /\ sent'[cur'[p].id] > 0
      <3>1. cur[p].status # "delivered"
        BY <1>o, <2>1 DEF CurDelivered
      <3>2. CASE cur' = cur
        BY <2>6, <3>1, <3>2
      <3>3. CASE cur' = [cur EXCEPT ![p].status = "failed", ![p].held = FALSE]
        BY <2>1, <2>6, <3>3 DEF TypeOK, Entry
      <3>4. CASE /\ cur' = [cur EXCEPT ![p].status = "delivered", ![p].held = FALSE]
                 /\ Goto(p, "record")
                 /\ sent' = [sent EXCEPT ![cur[p].id] = OneMore(@)]
        <4>1. cur'[p].id = cur[p].id /\ pc'[p] = "record"
          BY <2>1, <3>4 DEF Goto, TypeOK, Entry
        <4>2. sent'[cur[p].id] > 0
          BY <2>1, <3>4 DEF OneMore, TypeOK
        <4> QED
          BY <4>1, <4>2
      <3> QED
        BY <1>5, <3>2, <3>3, <3>4 DEF Send, Success
    <2>7. CurDelivered'
      BY <1>o, <1>ids, <2>3, <2>5, <2>6 DEF CurDelivered
    <2> QED
      BY <2>4, <2>7 DEF Outcomes
  <1>6. ASSUME NEW p \in Callers, Record(p)
        PROVE  Outcomes'
    <2>1. pc[p] = "record" /\ cur[p] \in Entry /\ cur[p] # None
      BY <1>6, InHandIs DEF Record
    <2>2. /\ Append(cur[p]) \/ AppendFails(cur[p])
          /\ NextAlert(p) /\ UNCHANGED <<accepted, sent>>
      BY <1>6 DEF Record
    <2>3. Kept' /\ FileDelivered'
      BY <1>o, <1>append, <2>1, <2>2 DEF CurDelivered
    <2> QED
      BY <1>drop, <2>2, <2>3 DEF Outcomes
  <1>7. ASSUME NEW p \in Callers, NEW how \in {"undelivered", "held"}, NEW entries,
               Flush(p, how, entries)
        PROVE  Outcomes'
    <2>1. /\ pc[p] = "idle" /\ pc' = [pc EXCEPT ![p] = "flush"]
          /\ UNCHANGED <<file, cur, accepted, sent, glued>>
      BY <1>7 DEF Flush, Goto
    <2> QED
      BY <1>o, <2>1 DEF Outcomes, Kept, FileDelivered, CurDelivered, TypeOK
  <1>8. ASSUME NEW p \in Callers, TakeUndelivered(p)
        PROVE  Outcomes'
    <2>1. PICK e \in todo[p] : /\ cur' = [cur EXCEPT ![p] = e]
                               /\ pc' = [pc EXCEPT ![p] = "send"]
      BY <1>8 DEF TakeUndelivered, Goto
    <2>2. UNCHANGED <<file, accepted, sent, glued>>
      BY <1>8 DEF TakeUndelivered
    <2>3. e \in Entry /\ e.status # "delivered"
      BY DEF TypeOK, Provenance, TodoSound, Deliverable
    <2>4. CurDelivered'
      BY <1>take, <2>1, <2>2, <2>3 DEF TypeOK
    <2> QED
      BY <1>o, <2>2, <2>4 DEF Outcomes, Kept, FileDelivered
  <1>9. ASSUME NEW p \in Callers, TakeHeld(p)
        PROVE  Outcomes'
    <2>1. PICK e \in todo[p] :
             /\ cur' = [cur EXCEPT ![p] = [e EXCEPT !.held = FALSE, !.status = "queued"]]
             /\ pc' = [pc EXCEPT ![p] = "release"]
      BY <1>9 DEF TakeHeld, Goto
    <2>2. UNCHANGED <<file, accepted, sent, glued>>
      BY <1>9 DEF TakeHeld
    <2>3. e \in Entry
      BY DEF TypeOK
    <2>4. PICK f \in Entry : f = [e EXCEPT !.held = FALSE, !.status = "queued"]
                             /\ f.status = "queued"
      <3>1. "queued" \in Statuses
        BY DEF Statuses, Deliverable
      <3> DEFINE g == [e EXCEPT !.held = FALSE, !.status = "queued"]
      <3>2. g \in Entry /\ g.status = "queued"
        BY <2>3, <3>1 DEF Entry
      <3> QED
        BY <3>2, Zenon
    <2>5. CurDelivered'
      BY <1>take, <2>1, <2>2, <2>4 DEF TypeOK
    <2> QED
      BY <1>o, <2>2, <2>5 DEF Outcomes, Kept, FileDelivered
  <1>10. ASSUME NEW p \in Callers, Release(p)
         PROVE  Outcomes'
    <2>1. pc[p] = "release" /\ cur[p] \in Entry /\ cur[p] # None
      BY <1>10, InHandIs DEF Release
    <2>2. /\ Append(cur[p]) \/ AppendFails(cur[p])
          /\ (Deliver(p) /\ UNCHANGED cur) \/ NextAlert(p)
          /\ UNCHANGED <<accepted, sent>>
      BY <1>10 DEF Release
    <2>3. Kept' /\ FileDelivered'
      BY <1>o, <1>append, <2>1, <2>2 DEF CurDelivered
    <2>4. CurDelivered'
      BY <1>drop, <1>pass, <2>1, <2>2
    <2> QED
      BY <2>3, <2>4 DEF Outcomes
  <1> QED
    BY <1>1, <1>2, <1>3, <1>4, <1>5, <1>6, <1>7, <1>8, <1>9, <1>10, <1>11
       DEF Next, FlushUndelivered, FlushHeld

LEMMA OutcomesEnough ==
    ASSUME TypeOK, Provenance, Outcomes
    PROVE  Recoverable
  <1>1. ASSUME NEW a \in accepted, file[a] # None, kind[a] # "local_only"
        PROVE  \/ file[a].status = "delivered" /\ sent[a] > 0
               \/ file[a] \in Undelivered \cup HeldBack
               \/ GivenUp(a) /\ file[a].status \in Deliverable
    <2>1. a \in Alerts /\ file[a] \in Entry
      BY <1>1 DEF TypeOK
    <2>2. file[a].status \in Statuses /\ file[a].status # "local_only"
      BY <1>1, <2>1, EntryFacts DEF Provenance, FileSound, Sound
    <2>3. file[a].status = "delivered" => sent[a] > 0
      BY <1>1, <2>1 DEF Outcomes, FileDelivered
    <2>4. CASE file[a].status \in Deliverable /\ file[a].held
      BY <1>1, <2>1, <2>4 DEF HeldBack
    <2>5. CASE file[a].status \in Deliverable /\ ~file[a].held
      <3>1. file[a].created \in Int /\ now - MaxAge \in Int
        BY <2>1, EntryFacts, NumberAssumption DEF Times, TypeOK
      <3>2. file[a].created >= now - MaxAge \/ file[a].created < now - MaxAge
        BY <3>1
      <3> QED
        BY <1>1, <2>1, <2>5, <3>2 DEF Undelivered, GivenUp
    <2> QED
      BY <1>1, <2>2, <2>3, <2>4, <2>5 DEF Statuses
  <1> QED
    BY <1>1 DEF Recoverable, Outcomes, Kept

\* "Durable": an accepted alert stays in the file unless its event was glued to
\* an incomplete line; it is marked delivered only when the owner got it, and
\* otherwise a flush that reads the file takes it, or finds it too old.
THEOREM RecoverableCorrect == Spec => []Recoverable
  <1> DEFINE Inv == TypeOK /\ InHand /\ Provenance /\ SentOnlyWhenAllowed /\ Outcomes
  <1>1. Init => Inv
    BY InitTyped, ProvenanceInit, OutcomesInit
  <1>2. Inv /\ [Next]_vars => Inv'
    BY TypeStep, ProvenanceStep, OutcomesStep
  <1>3. Inv => Recoverable
    BY OutcomesEnough
  <1> QED
    BY <1>1, <1>2, <1>3, PTL DEF Spec

-------------------------------------------------------------------------------
(* Nobody hears of an alert twice but through a known hazard.  Two processes  *)
(* hold one alert only as messy; a process that still has to send an alert    *)
(* which was sent holds a messy one; and an alert that was sent is deliverable *)
(* in the file only while the process that sent it has yet to record it.      *)

Recording(p, a) == pc[p] = "record" /\ cur[p].id = a /\ cur[p].status = "delivered"

TwoHolders == \A p, q \in Callers : \A a \in Alerts :
    p # q /\ Holds(p, a) /\ Holds(q, a) => a \in messy
OneOfEach == \A p \in Callers :
    /\ \A e, f \in todo[p] : e.id = f.id => e = f
    /\ cur[p] # None => \A e \in todo[p] : e.id # cur[p].id
HeldAndSent == \A p \in Callers : \A a \in Alerts :
    Holds(p, a) /\ sent[a] > 0 => a \in messy \/ Recording(p, a)
SentAndLeft == \A a \in Alerts :
    file[a] # None /\ file[a].status \in Deliverable /\ sent[a] > 0
        => a \in messy \/ \E p \in Callers : Recording(p, a)
Handled == TwoHolders /\ OneOfEach /\ HeldAndSent /\ SentAndLeft /\ OnceUnlessMessy

LEMMA HandledInit == Init => Handled
  BY DEF Init, Handled, TwoHolders, OneOfEach, HeldAndSent, SentAndLeft, OnceUnlessMessy, Holds

LEMMA HandledStep ==
    ASSUME TypeOK, TypeOK', InHand, InHand', Provenance, SentOnlyWhenAllowed, Handled,
           [Next]_vars
    PROVE  Handled'
  <1> USE DEF disk, history
  <1>h. TwoHolders /\ OneOfEach /\ HeldAndSent /\ SentAndLeft /\ OnceUnlessMessy
    BY DEF Handled
  <1>ids. /\ \A p \in Callers : cur[p] # None => cur[p] \in Entry
          /\ \A p \in Callers : todo[p] \subseteq Entry
          /\ \A e \in Entry : e.id \in Alerts /\ e # None
    BY EntryFacts DEF TypeOK
  <1>frame. ASSUME NEW p \in Callers, Others(p), NEW q \in Callers \ {p}, NEW a \in Alerts
            PROVE  /\ Holds(q, a)' <=> Holds(q, a)
                   /\ Recording(q, a)' <=> Recording(q, a)
    BY <1>frame DEF Others, Holds, Recording
  \* p gets no alert, and what it had yet to record it gives up for good.
  <1>quiet. ASSUME NEW p \in Callers, Others(p), sent' = sent, messy \subseteq messy',
                   \A a \in Alerts : Holds(p, a)' => Holds(p, a),
                   \A a \in Alerts : Recording(p, a) =>
                      /\ ~Holds(p, a)'
                      /\ a \in messy' \/ file'[a].status \notin Deliverable,
                   \A a \in Alerts : \/ file'[a] = file[a]
                                     \/ /\ cur[p] # None /\ cur[p].id = a /\ file'[a] = cur[p]
            PROVE  TwoHolders' /\ HeldAndSent' /\ SentAndLeft' /\ OnceUnlessMessy'
    <2>1. \A q \in Callers : \A a \in Alerts : Holds(q, a)' => Holds(q, a)
      BY <1>frame, <1>quiet
    <2>2. TwoHolders'
      BY <1>h, <1>quiet, <2>1 DEF TwoHolders
    <2>3. HeldAndSent'
      BY <1>h, <1>frame, <1>quiet, <2>1 DEF HeldAndSent
    <2>4. OnceUnlessMessy'
      BY <1>h, <1>quiet DEF OnceUnlessMessy
    <2>5. ASSUME NEW a \in Alerts, file'[a] # None, file'[a].status \in Deliverable, sent[a] > 0
          PROVE  a \in messy' \/ \E q \in Callers : Recording(q, a)'
      <3>1. CASE file'[a] = file[a]
        <4>1. a \in messy \/ \E q \in Callers : Recording(q, a)
          BY <1>h, <2>5, <3>1 DEF SentAndLeft
        <4> QED
          BY <1>frame, <1>quiet, <2>5, <4>1
      <3>2. CASE cur[p] # None /\ cur[p].id = a /\ file'[a] = cur[p]
        <4>1. Holds(p, a) /\ ~Recording(p, a)
          BY <2>5, <3>2 DEF Holds, Recording, Deliverable
        <4> QED
          BY <1>h, <1>quiet, <2>5, <4>1 DEF HeldAndSent
      <3> QED
        BY <1>quiet, <3>1, <3>2
    <2>6. SentAndLeft'
      BY <1>quiet, <2>5 DEF SentAndLeft
    <2> QED
      BY <2>2, <2>3, <2>4, <2>6
  <1>1. CASE Tick \/ UNCHANGED vars
    <2>1. UNCHANGED <<file, pc, cur, todo, sent, messy>>
      BY <1>1 DEF Tick, vars, process
    <2> QED
      BY <1>h, <2>1 DEF Handled, TwoHolders, OneOfEach, HeldAndSent, SentAndLeft,
                        OnceUnlessMessy, Holds, Recording
  \* The process gives up its alert, and perhaps the ones it had still to take.
  <1>drop. ASSUME NEW p \in Callers, EndCall(p) \/ NextAlert(p)
           PROVE  /\ Others(p) /\ OneOfEach'
                  /\ \A a \in Alerts : Holds(p, a)' => Holds(p, a)
                  /\ \A a \in Alerts : Recording(p, a) => ~Holds(p, a)'
    <2>1. /\ Others(p) /\ cur'[p] = None
          /\ todo'[p] \subseteq todo[p]
      BY <1>drop, Dropped
    <2>2. OneOfEach'
      BY <1>h, <2>1 DEF OneOfEach, Others
    <2>3. \A a \in Alerts : Holds(p, a)' => Holds(p, a)
      BY <2>1 DEF Holds
    <2>4. \A a \in Alerts : Recording(p, a) => ~Holds(p, a)'
      BY <1>h, <2>1 DEF Holds, Recording, OneOfEach, InHand
    <2> QED
      BY <2>1, <2>2, <2>3, <2>4
  <1>pass. ASSUME NEW p \in Callers, Deliver(p), UNCHANGED cur
           PROVE  /\ Others(p) /\ OneOfEach'
                  /\ \A a \in Alerts : Holds(p, a)' => Holds(p, a)
    <2>1. Others(p) /\ cur' = cur /\ todo' = todo
      BY <1>pass, Passed
    <2> QED
      BY <1>h, <2>1 DEF OneOfEach, Holds
  <1>file. ASSUME NEW p \in Callers, cur[p] \in Entry, cur[p] # None,
                  Append(cur[p]) \/ AppendFails(cur[p])
           PROVE  \A a \in Alerts : \/ file'[a] = file[a]
                                    \/ /\ cur[p] # None /\ cur[p].id = a /\ file'[a] = cur[p]
    BY <1>file, Appended
  <1>2. ASSUME NEW p \in Callers, NEW a \in Alerts, NEW key \in Keys \cup {NoKey},
               NEW as \in Kinds, NEW span \in Windows, Enqueue(p, a, key, as, span)
        PROVE  Handled'
    <2>1. /\ pc[p] = "idle" /\ kind[a] = None /\ pc' = [pc EXCEPT ![p] = "append"]
          /\ \A q \in Callers \ {p} : cur'[q] = cur[q]
          /\ cur'[p].id = a
          /\ UNCHANGED <<file, todo, mode, sent, messy>>
      BY <1>2 DEF Enqueue, Goto, TypeOK
    <2>2. \A q \in Callers : ~Holds(q, a)
      BY <2>1, NoneAssumption, KindAssumption
         DEF Provenance, TodoSound, CurSound, Sound, Holds
    <2>3. sent[a] = 0
      <3>1. sent[a] \in 0..2 /\ ~Allowed(a)
        BY <2>1, NoneAssumption DEF TypeOK, Allowed
      <3> QED
        BY <3>1 DEF SentOnlyWhenAllowed
    <2>4. Others(p) /\ cur[p] = None
      BY <2>1 DEF Others, TypeOK, InHand
    <2>5. \A b \in Alerts : /\ Holds(p, b)' => Holds(p, b) \/ b = a
                            /\ ~Recording(p, b)
      BY <2>1 DEF Holds, Recording
    <2>6. OneOfEach'
      BY <1>h, <1>ids, <2>1, <2>2, <2>4 DEF OneOfEach, Holds, Others
    <2>7. TwoHolders' /\ HeldAndSent' /\ OnceUnlessMessy'
      BY <1>h, <1>frame, <2>1, <2>2, <2>3, <2>4, <2>5
         DEF TwoHolders, HeldAndSent, OnceUnlessMessy
    <2>8. SentAndLeft'
      BY <1>h, <1>frame, <2>1, <2>4, <2>5 DEF SentAndLeft
    <2> QED
      BY <2>6, <2>7, <2>8 DEF Handled
  <1>3. ASSUME NEW p \in Callers, AppendQueued(p)
        PROVE  Handled'
    <2>1. pc[p] = "append" /\ cur[p] \in Entry /\ cur[p] # None
      BY <1>3, InHandIs DEF AppendQueued
    <2>2. /\ Append(cur[p])
          /\ EndCall(p) \/ (Deliver(p) /\ UNCHANGED cur)
          /\ UNCHANGED <<sent, messy>>
      BY <1>3 DEF AppendQueued
    <2>3. \A a \in Alerts : ~Recording(p, a)
      BY <2>1 DEF Recording
    <2> QED
      BY <1>drop, <1>pass, <1>file, <1>quiet, <2>1, <2>2, <2>3 DEF Handled
  <1>11. ASSUME NEW p \in Callers, QueuedFails(p)
         PROVE  Handled'
    <2>1. pc[p] = "append" /\ cur[p] \in Entry /\ cur[p] # None
      BY <1>11, InHandIs DEF QueuedFails
    <2>2. AppendFails(cur[p]) /\ EndCall(p) /\ UNCHANGED <<sent, messy>>
      BY <1>11 DEF QueuedFails
    <2>3. \A a \in Alerts : ~Recording(p, a)
      BY <2>1 DEF Recording
    <2> QED
      BY <1>drop, <1>file, <1>quiet, <2>1, <2>2, <2>3 DEF Handled
  <1>4. ASSUME NEW p \in Callers, Crash(p)
        PROVE  Handled'
    <2>1. EndCall(p) /\ UNCHANGED <<file, sent>> /\ messy \subseteq messy'
      BY <1>4 DEF Crash
    <2>2. \A a \in Alerts : Recording(p, a) => a \in messy'
      BY <1>4 DEF Crash, Recording
    <2> QED
      BY <1>drop, <1>quiet, <2>1, <2>2 DEF Handled
  <1>5. ASSUME NEW p \in Callers, Send(p)
        PROVE  Handled'
    <2>1. /\ pc[p] = "send" /\ cur[p] \in Entry /\ cur[p] # None /\ cur[p].id \in Alerts
      BY <1>5, InHandIs DEF Send
    <2>b. PICK b \in Alerts : b = cur[p].id
      BY <2>1
    <2>2. /\ UNCHANGED <<file, todo, mode>> /\ messy \subseteq messy'
          /\ Others(p) /\ cur'[p] # None /\ cur'[p].id = b
      <3>1. UNCHANGED <<file, todo, mode>> /\ messy \subseteq messy' /\ Others(p)
        BY <1>5 DEF Send, Goto, Others, TypeOK
      <3>2. CASE cur' = cur
        BY <2>1, <2>b, <3>1, <3>2
      <3>3. ASSUME NEW st \in {"delivered", "failed"},
                   cur' = [cur EXCEPT ![p].status = st, ![p].held = FALSE],
                   pc' = [pc EXCEPT ![p] = "record"]
            PROVE  cur'[p] # None /\ cur'[p].id = b
        <4>1. cur'[p].id = b
          BY <2>1, <2>b, <3>3 DEF TypeOK, Entry
        <4>2. cur'[p] # None
          BY <3>3 DEF InHand, TypeOK
        <4> QED
          BY <4>1, <4>2
      <3> QED
        BY <1>5, <3>1, <3>2, <3>3 DEF Send, Goto
    <2>3. /\ \A a \in Alerts \ {b} : sent'[a] = sent[a]
          /\ sent[b] > 0 => sent'[b] > 0
          /\ \/ b \in messy' \/ sent' = sent
             \/ Recording(p, b)' /\ (sent'[b] > 1 => sent[b] > 0)
      <3>1. CASE b \in messy' \/ sent' = sent
        BY <1>5, <2>1, <2>b, <3>1 DEF Send, OneMore, TypeOK
      <3>2. CASE /\ sent' = [sent EXCEPT ![b] = OneMore(@)]
                 /\ pc' = [pc EXCEPT ![p] = "record"]
                 /\ cur' = [cur EXCEPT ![p].status = "delivered", ![p].held = FALSE]
        <4>1. pc'[p] = "record" /\ cur'[p].status = "delivered"
          BY <2>1, <3>2 DEF TypeOK, Entry
        <4> QED
          BY <2>1, <2>2, <2>b, <3>2, <4>1 DEF Recording, OneMore, TypeOK
      <3> QED
        BY <1>5, <2>b, <3>1, <3>2 DEF Send, Success, Goto
    <2>4. b \in Alerts /\ Holds(p, b) /\ \A a \in Alerts : ~Recording(p, a)
      BY <2>1, <2>b DEF Holds, Recording
    <2>5. sent[b] > 0 => b \in messy
      BY <1>h, <2>4 DEF HeldAndSent
    <2>6. \A q \in Callers : \A a \in Alerts : Holds(q, a)' <=> Holds(q, a)
      BY <1>frame, <2>1, <2>2, <2>b DEF Holds
    <2>7. OneOfEach'
      BY <1>h, <2>1, <2>2, <2>b DEF OneOfEach, Others
    <2>8. TwoHolders'
      BY <1>h, <2>2, <2>6 DEF TwoHolders
    <2>9. OnceUnlessMessy'
      BY <1>h, <2>2, <2>3, <2>5 DEF OnceUnlessMessy
    <2>10. HeldAndSent'
      <3>1. ASSUME NEW q \in Callers, NEW a \in Alerts, Holds(q, a), sent'[a] > 0
            PROVE  a \in messy' \/ Recording(q, a)'
        <4>1. CASE a = b /\ q # p
          BY <1>h, <2>2, <2>3, <2>4, <2>5, <3>1, <4>1 DEF TwoHolders
        <4>2. CASE a = b /\ q = p
          BY <2>2, <2>3, <2>5, <3>1, <4>2
        <4>3. CASE a # b
          BY <1>h, <1>frame, <2>2, <2>3, <2>4, <3>1, <4>3 DEF HeldAndSent
        <4> QED
          BY <4>1, <4>2, <4>3
      <3> QED
        BY <2>6, <3>1 DEF HeldAndSent
    <2>11. SentAndLeft'
      <3>1. ASSUME NEW a \in Alerts, file[a] # None, file[a].status \in Deliverable,
                   sent'[a] > 0
            PROVE  a \in messy' \/ \E q \in Callers : Recording(q, a)'
        <4>1. CASE a = b
          BY <2>2, <2>3, <2>5, <3>1, <4>1
        <4>2. CASE a # b
          BY <1>h, <1>frame, <2>2, <2>3, <2>4, <3>1, <4>2 DEF SentAndLeft
        <4> QED
          BY <4>1, <4>2
      <3> QED
        BY <2>2, <3>1 DEF SentAndLeft
    <2> QED
      BY <2>7, <2>8, <2>9, <2>10, <2>11 DEF Handled
  <1>6. ASSUME NEW p \in Callers, Record(p)
        PROVE  Handled'
    <2>1. pc[p] = "record" /\ cur[p] \in Entry /\ cur[p] # None
      BY <1>6, InHandIs DEF Record
    <2>2. /\ Append(cur[p]) \/ AppendFails(cur[p])
          /\ NextAlert(p) /\ sent' = sent /\ messy \subseteq messy'
      BY <1>6 DEF Record
    <2>3. ASSUME NEW a \in Alerts, Recording(p, a)
          PROVE  a \in messy' \/ file'[a].status \notin Deliverable
      BY <1>6, <2>3 DEF Record, Recording, Deliverable
    <2> QED
      BY <1>drop, <1>file, <1>quiet, <2>1, <2>2, <2>3 DEF Handled
  <1>7. ASSUME NEW p \in Callers, NEW how \in {"undelivered", "held"}, NEW entries,
               entries = Undelivered \/ entries = HeldBack, Flush(p, how, entries)
        PROVE  Handled'
    <2>1. /\ pc[p] = "idle" /\ pc' = [pc EXCEPT ![p] = "flush"]
          /\ todo' = [todo EXCEPT ![p] = entries] /\ mode' = [mode EXCEPT ![p] = how]
          /\ UNCHANGED <<file, cur, sent>> /\ messy \subseteq messy'
          /\ \A e \in entries : (\E q \in Callers : Holds(q, e.id)) => e.id \in messy'
      BY <1>7 DEF Flush, Goto
    <2>2. Others(p) /\ cur[p] = None /\ todo'[p] = entries
      BY <2>1 DEF Others, TypeOK, InHand
    <2>3. \A e \in entries : /\ e.id \in Alerts /\ e = file[e.id] /\ e # None
                             /\ e.status \in Deliverable
      BY <1>7 DEF Provenance, FileSound, Undelivered, HeldBack
    <2>4. \A a \in Alerts : /\ Holds(p, a)' <=> \E e \in entries : e.id = a
                            /\ ~Recording(p, a)
      BY <2>1, <2>2 DEF Holds, Recording
    <2>5. OneOfEach'
      BY <1>h, <2>1, <2>2, <2>3 DEF OneOfEach, Others
    <2>6. TwoHolders'
      <3>1. ASSUME NEW q \in Callers \ {p}, NEW a \in Alerts, Holds(p, a)', Holds(q, a)
            PROVE  a \in messy'
        BY <2>1, <2>4, <3>1
      <3> QED
        BY <1>h, <1>frame, <2>1, <2>2, <3>1 DEF TwoHolders
    <2>7. HeldAndSent'
      <3>1. ASSUME NEW a \in Alerts, Holds(p, a)', sent[a] > 0
            PROVE  a \in messy'
        <4>1. PICK e \in entries : e.id = a
          BY <2>4, <3>1
        <4>2. a \in messy \/ \E q \in Callers : Recording(q, a)
          BY <1>h, <2>3, <3>1, <4>1 DEF SentAndLeft
        <4>3. ASSUME NEW q \in Callers, Recording(q, a)
              PROVE  Holds(q, a)
          BY <4>3 DEF Recording, Holds, InHand
        <4> QED
          BY <2>1, <4>1, <4>2, <4>3
      <3> QED
        BY <1>h, <1>frame, <2>1, <2>2, <3>1 DEF HeldAndSent
    <2>8. SentAndLeft' /\ OnceUnlessMessy'
      BY <1>h, <1>frame, <2>1, <2>2, <2>4 DEF SentAndLeft, OnceUnlessMessy
    <2> QED
      BY <2>5, <2>6, <2>7, <2>8 DEF Handled
  \* p moves one of the alerts it took into its hand.
  <1>take. ASSUME NEW p \in Callers, NEW e \in todo[p], NEW f, f.id = e.id, pc[p] = "flush",
                  todo' = [todo EXCEPT ![p] = @ \ {e}], cur' = [cur EXCEPT ![p] = f],
                  \A q \in Callers \ {p} : pc'[q] = pc[q],
                  UNCHANGED <<file, mode, sent, messy>>
           PROVE  Handled'
    <2>1. Others(p) /\ cur'[p] = f /\ todo'[p] = todo[p] \ {e}
      BY <1>take DEF Others, TypeOK
    <2>2. \A a \in Alerts : /\ Holds(p, a)' => Holds(p, a)
                            /\ ~Recording(p, a)
      BY <1>take, <2>1 DEF Holds, Recording
    <2>3. OneOfEach'
      BY <1>h, <1>take, <2>1 DEF OneOfEach, Others
    <2> QED
      BY <1>take, <1>quiet, <2>1, <2>2, <2>3 DEF Handled
  <1>8. ASSUME NEW p \in Callers, TakeUndelivered(p)
        PROVE  Handled'
    <2>1. PICK e \in todo[p] :
             /\ pc[p] = "flush" /\ pc' = [pc EXCEPT ![p] = "send"]
             /\ todo' = [todo EXCEPT ![p] = @ \ {e}] /\ cur' = [cur EXCEPT ![p] = e]
             /\ UNCHANGED <<file, mode, sent, messy>>
      BY <1>8 DEF TakeUndelivered, Goto
    <2> QED
      BY <1>take, <2>1 DEF TypeOK
  <1>9. ASSUME NEW p \in Callers, TakeHeld(p)
        PROVE  Handled'
    <2>1. PICK e \in todo[p] :
             /\ pc[p] = "flush" /\ pc' = [pc EXCEPT ![p] = "release"]
             /\ todo' = [todo EXCEPT ![p] = @ \ {e}]
             /\ cur' = [cur EXCEPT ![p] = [e EXCEPT !.held = FALSE, !.status = "queued"]]
             /\ UNCHANGED <<file, mode, sent, messy>>
      BY <1>9 DEF TakeHeld, Goto
    <2>2. [e EXCEPT !.held = FALSE, !.status = "queued"].id = e.id
      BY <1>ids, <2>1 DEF Entry
    <2> QED
      BY <1>take, <2>1, <2>2 DEF TypeOK
  <1>10. ASSUME NEW p \in Callers, Release(p)
         PROVE  Handled'
    <2>1. pc[p] = "release" /\ cur[p] \in Entry /\ cur[p] # None
      BY <1>10, InHandIs DEF Release
    <2>2. /\ Append(cur[p]) \/ AppendFails(cur[p])
          /\ (Deliver(p) /\ UNCHANGED cur) \/ NextAlert(p)
          /\ UNCHANGED <<sent, messy>>
      BY <1>10 DEF Release
    <2>3. \A a \in Alerts : ~Recording(p, a)
      BY <2>1 DEF Recording
    <2> QED
      BY <1>drop, <1>pass, <1>file, <1>quiet, <2>1, <2>2, <2>3 DEF Handled
  <1> QED
    BY <1>1, <1>2, <1>3, <1>4, <1>5, <1>6, <1>7, <1>8, <1>9, <1>10, <1>11
       DEF Next, FlushUndelivered, FlushHeld

\* The owner gets an alert twice only when a known hazard happened to it, for any
\* number of processes that enqueue, flush and crash.
THEOREM OnceCorrect == Spec => []OnceUnlessMessy
  <1> DEFINE Inv == TypeOK /\ InHand /\ Provenance /\ SentOnlyWhenAllowed /\ Handled
  <1>1. Init => Inv
    BY InitTyped, ProvenanceInit, HandledInit
  <1>2. Inv /\ [Next]_vars => Inv'
    BY TypeStep, ProvenanceStep, HandledStep
  <1>3. Inv => OnceUnlessMessy
    BY DEF Handled
  <1> QED
    BY <1>1, <1>2, <1>3, PTL DEF Spec

-------------------------------------------------------------------------------
(* Duplicates.  The events that can still reach the file are the live ones.    *)
(* Those whose queued event was appended are settled: a later enqueueing that  *)
(* reads the file finds them, unless their event was glued.  One that is being *)
(* appended is not found, but the two enqueueings overlap.                     *)

Settled(e) ==
    \/ \E a \in Alerts : file[a] = e
    \/ \E p \in Callers : pc[p] # "append" /\ cur[p] = e
    \/ \E p \in Callers : e \in todo[p]
Live(e) == Settled(e) \/ \E p \in Callers : pc[p] = "append" /\ cur[p] = e
Same(e, f) == e.id = f.id /\ e.key = f.key /\ e.created = f.created
Close(e, f) ==
    /\ e.id # f.id /\ e.key = f.key /\ e.key # NoKey
    /\ e.created <= f.created /\ f.created - e.created < window[f.id]
\* The ways past the check: it overlapped, an event was lost, it read nothing.
Excused(e, f) ==
    \/ {e.id, f.id} \in racing \/ e.id \in glued \/ f.id \in glued
    \/ f.id \in blind
    \/ e.id \in blind /\ e.created = f.created

Findable == \A e \in Entry : Settled(e) => file[e.id] # None \/ e.id \in glued
OneOrigin == \A e, f \in Entry : Live(e) /\ Live(f) /\ e.id = f.id => Same(e, f)
NotLater == \A e \in Entry : Live(e) => e.created <= now
Apart == \A e, f \in Entry : Live(e) /\ Live(f) /\ Close(e, f) => Excused(e, f)
Spaced == Findable /\ OneOrigin /\ NotLater /\ Apart

LEMMA SpacedInit == Init => Spaced
  <1> SUFFICES ASSUME Init PROVE Spaced
    OBVIOUS
  <1>1. ASSUME NEW e \in Entry PROVE ~Live(e) /\ ~Settled(e)
    BY EntryFacts DEF Init, Live, Settled
  <1> QED
    BY <1>1 DEF Spaced, Findable, OneOrigin, NotLater, Apart

LEMMA SpacedStep ==
    ASSUME TypeOK, TypeOK', InHand, InHand', Provenance, Spaced, [Next]_vars
    PROVE  Spaced'
  <1> USE DEF disk, history
  <1>s. Findable /\ OneOrigin /\ NotLater /\ Apart
    BY DEF Spaced
  <1>ids. /\ \A p \in Callers : cur[p] # None => cur[p] \in Entry
          /\ \A p \in Callers : todo[p] \subseteq Entry
          /\ \A a \in Alerts : file[a] # None => file[a] \in Entry
          /\ \A e \in Entry : e.id \in Alerts /\ e # None /\ e.created \in Times
    BY EntryFacts DEF TypeOK
  <1>num. Times \subseteq Int /\ now \in Int /\ now' \in Int
           /\ Windows \subseteq Nat \ {0}
    BY NumberAssumption DEF Times, TypeOK
  \* Every live event descends from one that was live.
  <1>copied. ASSUME \A e \in Entry : Live(e)' => \E f \in Entry : Live(f) /\ Same(e, f),
                    \A e \in Entry : Settled(e)' =>
                       \/ \E f \in Entry : Settled(f) /\ Same(e, f)
                       \/ file'[e.id] # None \/ e.id \in glued',
                    \A a \in Alerts : file[a] # None => file'[a] # None,
                    now <= now', racing \subseteq racing', glued \subseteq glued',
                    UNCHANGED <<window, blind>>
             PROVE  Spaced'
    <2>1. Findable'
      BY <1>s, <1>ids, <1>copied DEF Findable, Same
    <2>2. OneOrigin'
      BY <1>s, <1>copied DEF OneOrigin, Same
    <2>3. NotLater'
      <3>1. ASSUME NEW e \in Entry, Live(e)'
            PROVE  e.created <= now'
        <4>1. PICK f \in Entry : Live(f) /\ e.created = f.created
          BY <1>copied, <3>1 DEF Same
        <4>2. f.created <= now /\ f.created \in Int
          BY <1>s, <1>ids, <1>num, <4>1 DEF NotLater
        <4> QED
          BY <1>num, <1>copied, <4>1, <4>2
      <3> QED
        BY <3>1 DEF NotLater
    <2>4. Apart'
      <3>1. ASSUME NEW e \in Entry, NEW f \in Entry, Live(e)', Live(f)', Close(e, f)'
            PROVE  Excused(e, f)'
        <4>1. PICK g \in Entry : Live(g) /\ Same(e, g)
          BY <1>copied, <3>1
        <4>2. PICK h \in Entry : Live(h) /\ Same(f, h)
          BY <1>copied, <3>1
        <4>3. Close(g, h)
          BY <1>copied, <3>1, <4>1, <4>2 DEF Close, Same
        <4>4. Excused(g, h)
          BY <1>s, <4>1, <4>2, <4>3 DEF Apart
        <4>5. e.id = g.id /\ f.id = h.id /\ e.created = g.created /\ f.created = h.created
          BY <4>1, <4>2 DEF Same
        <4> QED
          BY <1>copied, <4>4, <4>5 DEF Excused
      <3> QED
        BY <3>1 DEF Apart
    <2> QED
      BY <2>1, <2>2, <2>3, <2>4 DEF Spaced
  \* A step of process p: what it has afterwards descends from something settled,
  \* or was just appended.
  <1>step. ASSUME NEW p \in Callers, Others(p), now' = now, racing' = racing,
                  UNCHANGED <<window, blind>>,
                  glued \subseteq glued',
                  \A a \in Alerts : \/ file'[a] = file[a]
                                    \/ /\ cur[p] # None /\ cur[p].id = a /\ file'[a] = cur[p],
                  \A e \in todo'[p] : Settled(e),
                  \/ cur'[p] = None
                  \/ \E g \in Entry : /\ Same(cur'[p], g) /\ Live(g)
                                      /\ \/ Settled(g) \/ file'[g.id] # None
                                         \/ g.id \in glued'
           PROVE  Spaced'
    <2>1. \A a \in Alerts : file[a] # None => file'[a] # None
      BY <1>step
    <2>2. ASSUME NEW e \in Entry, NEW a \in Alerts, file'[a] = e
          PROVE  Live(e) /\ file'[e.id] # None
      <3>1. CASE file'[a] = file[a]
        <4>1. e.id = a
          BY <1>ids, <2>2, <3>1 DEF Provenance, FileSound
        <4> QED
          BY <1>ids, <2>2, <3>1, <4>1 DEF Live, Settled
      <3>2. CASE cur[p] # None /\ cur[p].id = a /\ file'[a] = cur[p]
        BY <1>ids, <2>2, <3>2 DEF Live, Settled
      <3> QED
        BY <1>step, <3>1, <3>2
    <2>3. ASSUME NEW e \in Entry, NEW q \in Callers, cur'[q] = e
          PROVE  /\ \E f \in Entry : Live(f) /\ Same(e, f)
                 /\ pc'[q] # "append" =>
                       \/ \E f \in Entry : Settled(f) /\ Same(e, f)
                       \/ file'[e.id] # None \/ e.id \in glued'
      <3>1. CASE q = p
        <4>1. PICK g \in Entry : /\ Same(e, g) /\ Live(g)
                                 /\ \/ Settled(g) \/ file'[g.id] # None
                                    \/ g.id \in glued'
          BY <1>step, <1>ids, <2>3, <3>1
        <4> QED
          BY <4>1 DEF Same
      <3>2. CASE q # p
        <4>1. cur[q] = e /\ pc'[q] = pc[q]
          BY <1>step, <2>3, <3>2 DEF Others
        <4> QED
          BY <4>1 DEF Live, Settled, Same
      <3> QED
        BY <3>1, <3>2
    <2>4. ASSUME NEW e \in Entry, NEW q \in Callers, e \in todo'[q]
          PROVE  Settled(e) /\ Live(e)
      BY <1>step, <2>4 DEF Others, Live, Settled
    <2>5. \A e \in Entry : Live(e)' => \E f \in Entry : Live(f) /\ Same(e, f)
      BY <2>2, <2>3, <2>4 DEF Live, Settled, Same
    <2>6. \A e \in Entry : Settled(e)' =>
             \/ \E f \in Entry : Settled(f) /\ Same(e, f)
             \/ file'[e.id] # None \/ e.id \in glued'
      BY <2>2, <2>3, <2>4 DEF Settled, Same
    <2> QED
      BY <1>copied, <1>step, <1>num, <2>1, <2>5, <2>6
  <1>drop. ASSUME NEW p \in Callers, EndCall(p) \/ NextAlert(p)
           PROVE  /\ Others(p) /\ cur'[p] = None
                  /\ \A e \in todo'[p] : Settled(e)
    BY <1>drop, Dropped DEF Settled
  <1>pass. ASSUME NEW p \in Callers, Deliver(p), UNCHANGED cur
           PROVE  Others(p) /\ cur' = cur /\ \A e \in todo'[p] : Settled(e)
    BY <1>pass, Passed DEF Settled
  <1>file. ASSUME NEW p \in Callers, cur[p] \in Entry, cur[p] # None,
                  Append(cur[p]) \/ AppendFails(cur[p])
           PROVE  /\ glued \subseteq glued'
                  /\ \A a \in Alerts : \/ file'[a] = file[a]
                                       \/ /\ cur[p] # None /\ cur[p].id = a /\ file'[a] = cur[p]
    BY <1>file, Appended
  <1>hand. ASSUME NEW p \in Callers, pc[p] # "append", cur[p] \in Entry
           PROVE  \E g \in Entry : Same(cur[p], g) /\ Live(g) /\ Settled(g)
    BY <1>hand DEF Live, Settled, Same
  <1>1. CASE Tick \/ UNCHANGED vars
    <2>1. UNCHANGED <<file, pc, cur, todo, window, blind, racing, glued>> /\ now <= now'
      BY <1>1, <1>num DEF Tick, vars, process
    <2>2. ASSUME NEW e \in Entry
          PROVE  (Live(e)' <=> Live(e)) /\ (Settled(e)' <=> Settled(e)) /\ Same(e, e)
      BY <2>1 DEF Live, Settled, Same
    <2> QED
      BY <1>copied, <2>1, <2>2
  <1>2. ASSUME NEW p \in Callers, NEW a \in Alerts, NEW key \in Keys \cup {NoKey},
               NEW as \in Kinds, NEW span \in Windows, Enqueue(p, a, key, as, span)
        PROVE  Spaced'
    <2>1. /\ pc[p] = "idle" /\ kind[a] = None
          /\ key = NoKey \/ ~Duplicate(key, span) \/ a \in blind'
          /\ blind \subseteq blind' /\ window' = [window EXCEPT ![a] = span]
          /\ pc' = [pc EXCEPT ![p] = "append"]
          /\ \A q \in Callers \ {p} : cur'[q] = cur[q]
          /\ cur'[p].id = a /\ cur'[p].key = key /\ cur'[p].created = now
          /\ racing' = racing \cup {{a, cur[q].id} : q \in {r \in Callers : pc[r] = "append"}}
          /\ UNCHANGED <<now, file, todo, glued>>
      BY <1>2 DEF Enqueue, Goto, TypeOK
    <2>2. \A q \in Callers \ {p} : pc'[q] = pc[q]
      BY <2>1 DEF TypeOK
    <2>w. window'[a] = span /\ \A b \in Alerts \ {a} : window'[b] = window[b]
      BY <2>1 DEF TypeOK
    <2>3. pc'[p] = "append" /\ cur'[p] \in Entry
      BY <2>1 DEF TypeOK, InHand
    <2>n. PICK n \in Entry : n = cur'[p]
      BY <2>3
    <2>4. \A e \in Entry : /\ Live(e)' => Live(e) \/ e = n
                           /\ Settled(e)' => Settled(e)
      <3>1. cur[p] = None
        BY <2>1 DEF InHand
      <3> QED
        BY <1>ids, <2>1, <2>2, <2>3, <2>n, <3>1 DEF Live, Settled
    <2>5. ASSUME NEW e \in Entry, Live(e)
          PROVE  e.id # a
      <3>1. kind[e.id] \in Kinds
        BY <1>ids, <2>5 DEF Live, Settled, Provenance, FileSound, TodoSound, CurSound, Sound
      <3> QED
        BY <2>1, <3>1, NoneAssumption, KindAssumption
    \* Whatever is live is too old to be a duplicate, is lost, or is being appended.
    <2>6. ASSUME NEW e \in Entry, Live(e), e.key = key, key # NoKey, a \notin blind'
          PROVE  \/ now - e.created >= span
                 \/ e.id \in glued \/ {e.id, a} \in racing'
      <3>1. CASE \E q \in Callers : pc[q] = "append" /\ cur[q] = e
        <4>1. {a, e.id} \in racing'
          BY <2>1, <3>1
        <4>2. {a, e.id} = {e.id, a}
          OBVIOUS
        <4> QED
          BY <4>1, <4>2
      <3>2. CASE Settled(e) /\ e.id \notin glued
        <4>1. file[e.id] # None /\ e.id \in Alerts
          BY <1>s, <1>ids, <3>2 DEF Findable
        <4>2. file[e.id] \in Entry /\ file[e.id].id = e.id /\ Live(file[e.id])
          BY <1>ids, <4>1 DEF Provenance, FileSound, Live, Settled
        <4>3. file[e.id].key = key /\ file[e.id].created = e.created
          BY <1>s, <2>6, <4>2 DEF OneOrigin, Same
        <4>4. ~(now - e.created < span)
          BY <2>1, <2>6, <4>1, <4>3 DEF Duplicate
        <4> QED
          <5>1. e.created \in Int
            BY <1>ids, <1>num
          <5> QED
            BY <1>num, <4>4, <5>1
      <3> QED
        BY <2>6, <3>1, <3>2 DEF Live
    <2>7. Findable'
      BY <1>s, <2>1, <2>4 DEF Findable
    <2>8. OneOrigin'
      BY <1>s, <2>1, <2>4, <2>5, <2>n DEF OneOrigin, Same
    <2>9. NotLater'
      BY <1>s, <1>num, <2>1, <2>4, <2>n DEF NotLater
    <2>10. Apart'
      <3>1. ASSUME NEW e \in Entry, NEW f \in Entry, Live(e)', Live(f)', Close(e, f)'
            PROVE  Excused(e, f)'
        <4>num. e.created \in Int /\ f.created \in Int /\ e.id \in Alerts /\ f.id \in Alerts
          BY <1>ids, <1>num
        <4>1. CASE Live(e) /\ Live(f)
          <5>1. f.id \in Alerts \ {a}
            BY <2>5, <4>num, <4>1
          <5>2. Close(e, f)
            BY <2>w, <3>1, <5>1 DEF Close
          <5>3. Excused(e, f)
            BY <1>s, <4>1, <5>2 DEF Apart
          <5> QED
            BY <2>1, <5>3 DEF Excused
        <4>2. CASE Live(e) /\ f = n /\ a \notin blind'
          <5>1. e.key = key /\ key # NoKey /\ now - e.created < span
            BY <2>1, <2>n, <2>w, <3>1, <4>2 DEF Close
          <5> QED
            <6>1. ~(now - e.created >= span)
              BY <1>num, <4>num, <5>1
            <6>2. f.id = a /\ glued' = glued
              BY <2>1, <2>n, <4>2
            <6> QED
              BY <2>6, <4>2, <5>1, <6>1, <6>2 DEF Excused
        <4>3. CASE e = n /\ Live(f)
          <5>1. f.key = key /\ key # NoKey /\ now <= f.created /\ e.created = now /\ e.id = a
            BY <2>1, <2>n, <3>1, <4>3 DEF Close
          <5>2. f.created = now
            BY <1>s, <1>num, <4>num, <4>3, <5>1 DEF NotLater
          <5>3. ~(now - f.created >= span)
            BY <1>num, <4>num, <5>2
          <5>4. {f.id, a} = {a, f.id}
            OBVIOUS
          <5>5. CASE a \in blind'
            BY <5>1, <5>2, <5>5 DEF Excused
          <5>6. CASE a \notin blind'
            <6>1. f.id \in glued \/ {f.id, a} \in racing'
              BY <2>6, <4>3, <5>1, <5>3, <5>6
            <6> QED
              BY <2>1, <5>1, <5>4, <6>1 DEF Excused
          <5> QED
            BY <5>5, <5>6
        <4>4. CASE e = n /\ f = n
          BY <3>1, <4>4 DEF Close
        <4>5. CASE f = n /\ a \in blind'
          BY <2>1, <2>n, <4>5 DEF Excused
        <4> QED
          BY <2>4, <3>1, <4>1, <4>2, <4>3, <4>4, <4>5
      <3> QED
        BY <3>1 DEF Apart
    <2> QED
      BY <2>7, <2>8, <2>9, <2>10 DEF Spaced
  <1>3. ASSUME NEW p \in Callers, AppendQueued(p)
        PROVE  Spaced'
    <2>1. pc[p] = "append" /\ cur[p] \in Entry /\ cur[p] # None /\ cur[p].id \in Alerts
      BY <1>3, InHandIs DEF AppendQueued
    <2>2. /\ Append(cur[p])
          /\ EndCall(p) \/ (Deliver(p) /\ UNCHANGED cur)
          /\ UNCHANGED <<now, window, blind, racing>>
      BY <1>3 DEF AppendQueued
    <2>3. file'[cur[p].id] # None \/ cur[p].id \in glued'
      BY <2>1, <2>2, Appended
    <2>4. Live(cur[p]) /\ Same(cur[p], cur[p])
      BY <2>1 DEF Live, Same
    <2>5. CASE EndCall(p)
      BY <1>drop, <1>file, <1>step, <2>1, <2>2, <2>5
    <2>6. CASE Deliver(p) /\ UNCHANGED cur
      <3>1. \E g \in Entry : /\ Same(cur'[p], g) /\ Live(g)
                             /\ Settled(g) \/ file'[g.id] # None \/ g.id \in glued'
        BY <2>1, <2>3, <2>4, <2>6
      <3> QED
        BY <1>pass, <1>file, <1>step, <2>1, <2>2, <2>6, <3>1
    <2> QED
      BY <2>2, <2>5, <2>6
  <1>11. ASSUME NEW p \in Callers, QueuedFails(p)
         PROVE  Spaced'
    <2>1. cur[p] \in Entry /\ cur[p] # None
      BY <1>11, InHandIs DEF QueuedFails
    <2>2. AppendFails(cur[p]) /\ EndCall(p) /\ UNCHANGED <<now, window, blind, racing>>
      BY <1>11 DEF QueuedFails
    <2> QED
      BY <1>drop, <1>file, <1>step, <2>1, <2>2
  <1>4. ASSUME NEW p \in Callers, Crash(p)
        PROVE  Spaced'
    <2>1. EndCall(p) /\ UNCHANGED <<now, file, window, blind, racing, glued>>
      BY <1>4 DEF Crash
    <2> QED
      BY <1>drop, <1>step, <2>1
  <1>5. ASSUME NEW p \in Callers, Send(p)
        PROVE  Spaced'
    <2>1. pc[p] = "send" /\ cur[p] \in Entry
      BY <1>5, InHandIs DEF Send
    <2>2. UNCHANGED <<now, file, todo, mode, window, blind, racing, glued>> /\ Others(p)
      BY <1>5 DEF Send, Goto, Others, TypeOK
    <2>3. Same(cur'[p], cur[p])
      <3>1. CASE cur' = cur
        BY <3>1 DEF Same
      <3>2. ASSUME NEW st \in {"delivered", "failed"},
                   cur' = [cur EXCEPT ![p].status = st, ![p].held = FALSE]
            PROVE  Same(cur'[p], cur[p])
        BY <2>1, <3>2 DEF TypeOK, Entry, Same
      <3> QED
        BY <1>5, <3>1, <3>2 DEF Send
    <2>4. Live(cur[p]) /\ Settled(cur[p]) /\ \A e \in todo'[p] : Settled(e)
      BY <2>1, <2>2 DEF Live, Settled
    <2> QED
      BY <1>step, <2>1, <2>2, <2>3, <2>4
  <1>6. ASSUME NEW p \in Callers, Record(p)
        PROVE  Spaced'
    <2>1. cur[p] \in Entry /\ cur[p] # None
      BY <1>6, InHandIs DEF Record
    <2>2. /\ Append(cur[p]) \/ AppendFails(cur[p])
          /\ NextAlert(p) /\ UNCHANGED <<now, window, blind, racing>>
      BY <1>6 DEF Record
    <2> QED
      BY <1>drop, <1>file, <1>step, <2>1, <2>2
  <1>7. ASSUME NEW p \in Callers, NEW how \in {"undelivered", "held"}, NEW entries,
               entries = Undelivered \/ entries = HeldBack, Flush(p, how, entries)
        PROVE  Spaced'
    <2>1. /\ pc[p] = "idle" /\ pc' = [pc EXCEPT ![p] = "flush"]
          /\ todo' = [todo EXCEPT ![p] = entries] /\ mode' = [mode EXCEPT ![p] = how]
          /\ UNCHANGED <<now, file, cur, window, blind, racing, glued>>
      BY <1>7 DEF Flush, Goto
    <2>2. Others(p) /\ cur'[p] = None /\ todo'[p] = entries
      BY <2>1 DEF Others, TypeOK, InHand
    <2>3. \A e \in entries : Settled(e)
      BY <1>7 DEF Settled, Undelivered, HeldBack
    <2> QED
      BY <1>step, <2>1, <2>2, <2>3
  <1>8. ASSUME NEW p \in Callers, TakeUndelivered(p) \/ TakeHeld(p)
        PROVE  Spaced'
    <2>1. PICK e \in todo[p] :
             /\ \E label \in {"send", "release"} : pc' = [pc EXCEPT ![p] = label]
             /\ todo' = [todo EXCEPT ![p] = @ \ {e}]
             /\ \/ cur' = [cur EXCEPT ![p] = e]
                \/ cur' = [cur EXCEPT ![p] = [e EXCEPT !.held = FALSE, !.status = "queued"]]
             /\ UNCHANGED <<now, file, mode, window, blind, racing, glued>>
      BY <1>8 DEF TakeUndelivered, TakeHeld, Goto
    <2>2. Others(p) /\ todo'[p] = todo[p] \ {e}
      BY <2>1 DEF Others, TypeOK
    <2>3. e \in Entry /\ Settled(e) /\ Live(e) /\ \A f \in todo'[p] : Settled(f)
      BY <1>ids, <2>1, <2>2 DEF Settled, Live
    <2>4. Same(cur'[p], e)
      <3>1. CASE cur' = [cur EXCEPT ![p] = e]
        BY <3>1 DEF TypeOK, Same
      <3>2. CASE cur' = [cur EXCEPT ![p] = [e EXCEPT !.held = FALSE, !.status = "queued"]]
        <4>1. cur'[p] = [e EXCEPT !.held = FALSE, !.status = "queued"]
          BY <3>2 DEF TypeOK
        <4> QED
          BY <2>3, <4>1 DEF Entry, Same
      <3> QED
        BY <2>1, <3>1, <3>2
    <2> QED
      BY <1>step, <2>1, <2>2, <2>3, <2>4
  <1>9. ASSUME NEW p \in Callers, Release(p)
        PROVE  Spaced'
    <2>1. pc[p] = "release" /\ cur[p] \in Entry /\ cur[p] # None
      BY <1>9, InHandIs DEF Release
    <2>2. /\ Append(cur[p]) \/ AppendFails(cur[p])
          /\ (Deliver(p) /\ UNCHANGED cur) \/ NextAlert(p)
          /\ UNCHANGED <<now, window, blind, racing>>
      BY <1>9 DEF Release
    <2> QED
      BY <1>drop, <1>pass, <1>file, <1>hand, <1>step, <2>1, <2>2
  <1> QED
    BY <1>1, <1>2, <1>3, <1>4, <1>5, <1>6, <1>7, <1>8, <1>9, <1>11
       DEF Next, FlushUndelivered, FlushHeld

LEMMA SpacedEnough ==
    ASSUME TypeOK, Provenance, Spaced
    PROVE  DedupHolds
  <1>1. ASSUME NEW a \in Alerts, NEW b \in Alerts, a # b, file[a] # None, file[b] # None,
               file[a].key = file[b].key, file[a].key # NoKey,
               file[a].created <= file[b].created,
               file[b].created - file[a].created < window[b]
        PROVE  Excused(file[a], file[b])
    <2>1. file[a] \in Entry /\ file[b] \in Entry /\ file[a].id = a /\ file[b].id = b
      BY <1>1 DEF TypeOK, Provenance, FileSound
    <2>2. Live(file[a]) /\ Live(file[b]) /\ Close(file[a], file[b])
      BY <1>1, <2>1 DEF Live, Settled, Close
    <2> QED
      BY <2>1, <2>2 DEF Spaced, Apart
  <1>2. \A a \in Alerts : file[a] # None => file[a].id = a
    BY DEF Provenance, FileSound
  <1> QED
    BY <1>1, <1>2 DEF DedupHolds, Excused

\* Two alerts of one key are in the file within the later caller's window only when
\* their calls overlapped, an event was glued or the later one's check read nothing,
\* for any windows and any number of callers.
THEOREM DedupCorrect == Spec => []DedupHolds
  <1> DEFINE Inv == TypeOK /\ InHand /\ Provenance /\ SentOnlyWhenAllowed /\ Spaced
  <1>1. Init => Inv
    BY InitTyped, ProvenanceInit, SpacedInit
  <1>2. Inv /\ [Next]_vars => Inv'
    BY TypeStep, ProvenanceStep, SpacedStep
  <1>3. Inv => DedupHolds
    BY SpacedEnough
  <1> QED
    BY <1>1, <1>2, <1>3, PTL DEF Spec

-------------------------------------------------------------------------------
(* The lock that is missing: with the check and the append under one lock, two *)
(* alerts of a key within a window mean a glued event or a check that read     *)
(* nothing, which no lock prevents.                                            *)

OneEnqueuer == \A p, q \in Callers : pc[p] = "append" /\ pc[q] = "append" => p = q

SpacedIfRead ==
    \A a, b \in Alerts :
        /\ a # b /\ file[a] # None /\ file[b] # None
        /\ file[a].key = file[b].key /\ file[a].key # NoKey
        /\ file[a].created <= file[b].created
        /\ {a, b} \cap (glued \cup blind) = {}
        => file[b].created - file[a].created >= window[b]

LEMMA AloneInAppend ==
    ASSUME TypeOK, OneEnqueuer', racing = {}, [Next]_vars
    PROVE  racing' = {}
  <1>1. ASSUME NEW p \in Callers, NEW a \in Alerts, NEW key \in Keys \cup {NoKey},
               NEW as \in Kinds, NEW span \in Windows, Enqueue(p, a, key, as, span)
        PROVE  racing' = {}
    <2>1. /\ pc[p] = "idle" /\ pc' = [pc EXCEPT ![p] = "append"]
          /\ racing' = racing \cup {{a, cur[q].id} : q \in {r \in Callers : pc[r] = "append"}}
      BY <1>1 DEF Enqueue, Goto
    <2>2. ASSUME NEW q \in Callers, pc[q] = "append" PROVE FALSE
      <3>1. q # p /\ pc'[q] = "append" /\ pc'[p] = "append"
        BY <2>1, <2>2 DEF TypeOK
      <3> QED
        BY <3>1 DEF OneEnqueuer
    <2> QED
      BY <2>1, <2>2
  <1>2. CASE ~ \E p \in Callers, a \in Alerts, key \in Keys \cup {NoKey}, as \in Kinds,
                span \in Windows : Enqueue(p, a, key, as, span)
    BY <1>2 DEF Next, vars, history, Tick, AppendQueued, QueuedFails, Send, Record,
      FlushUndelivered, FlushHeld, Flush, TakeUndelivered, TakeHeld, Release, Crash
  <1> QED
    BY <1>1, <1>2

\* A lock that a call holds from its duplicate check to its append would close the
\* race and nothing else: then any two alerts of a key in the file whose events were
\* not glued and whose checks could read the file are the later caller's window
\* apart, for any callers, windows and crashes.
THEOREM LockedCheckSpaces == Spec /\ []OneEnqueuer => []SpacedIfRead
  <1> DEFINE NoRace == racing = {}
  <1>1. Init => NoRace
    BY DEF Init
  <1>2. TypeOK /\ OneEnqueuer' /\ NoRace /\ [Next]_vars => NoRace'
    BY AloneInAppend
  <1>3. TypeOK /\ NoRace /\ DedupHolds => SpacedIfRead
    <2> SUFFICES ASSUME TypeOK, NoRace, DedupHolds,
                        NEW a \in Alerts, NEW b \in Alerts,
                        a # b, file[a] # None, file[b] # None,
                        file[a].key = file[b].key, file[a].key # NoKey,
                        file[a].created <= file[b].created,
                        {a, b} \cap (glued \cup blind) = {}
                 PROVE  file[b].created - file[a].created >= window[b]
      BY DEF SpacedIfRead
    <2>1. ~(file[b].created - file[a].created < window[b])
      BY DEF DedupHolds
    <2>3. file[a] \in Entry /\ file[b] \in Entry
      BY DEF TypeOK
    <2>2. file[a].created \in Int /\ file[b].created \in Int /\ window[b] \in Int
      <3>1. window[b] \in Windows \cup {0} /\ Windows \subseteq Int /\ Times \subseteq Int
        BY NumberAssumption DEF TypeOK, Times
      <3>2. file[a].created \in Times /\ file[b].created \in Times
        BY <2>3, EntryFacts
      <3>3. window[b] \in Int
        <4>1. 0 \in Int /\ \A w \in Windows : w \in Int
          BY <3>1
        <4> QED
          BY <3>1, <4>1, Zenon
      <3> QED
        BY <3>1, <3>2, <3>3
    <2> QED
      BY <2>1, <2>2
  <1> QED
    BY <1>1, <1>2, <1>3, TypeCorrect, DedupCorrect, PTL DEF Spec
=============================================================================
