------------------------------ MODULE Reminders ------------------------------
(***************************************************************************)
(* The reminders of app/reminders.py: the store, a list in memory that is  *)
(* written to one JSON file after every change, the requests that create,  *)
(* edit and delete its items (REST handlers and tools), and the scheduler  *)
(* thread that polls the store, hands what is due to the pipeline's        *)
(* callback and advances it.                                               *)
(*                                                                         *)
(* Every operation of the store runs under its lock.  A save opens the     *)
(* file with "w", which empties it, and fills it again: a process that     *)
(* dies in between leaves a file that _load reads as no items at all.      *)
(* A delivery, which may be a whole task of the model, runs without the    *)
(* lock, on the copy that due() made: requests come in between.            *)
(***************************************************************************)
EXTENDS ReminderSchedule, FiniteSets

CONSTANTS Ids,         \* the reminders that are ever created
          Requests,    \* the schedules that clients ask for
          LastTick, MaxEdits, MaxCrashes   \* bounds of the model

ASSUME RequestsAssumption == Requests \subseteq Schedules /\ LastTick \in Nat

VARIABLES items,     \* the items in memory: id -> item, or None
          file,      \* what the file holds when no save is under way
          lock,      \* whose save is under way: "request", "scheduler" or None
          now,
          pc,        \* the scheduler thread
          batch,     \* what due() returned and is still to be delivered
          firing,    \* the occurrence the callback was called for, or None
          life,      \* of an id: "unused", "used", "deleted"
          edits, crashes,
          fired,     \* history: occurrences delivered, as far as the process knows
          settled    \* history: those of them a restart knows of

vars == <<items, file, lock, now, pc, batch, firing, life, edits, crashes, fired, settled>>
store == <<items, file, lock>>
thread == <<pc, batch, firing>>
history == <<fired, settled>>

Items == [sched : Schedules, due : Nat, status : {"pending", "fired"}]

ASSUME NoneAssumption == None \notin Items /\ None \notin {"request", "scheduler"}

NoItems == [i \in Ids |-> None]

\* An occurrence is an item's id with the due time it was armed for.
Occurrences == Ids \X Nat

Pending(held, i) == held[i] # None /\ held[i].status = "pending"

\* The wall clock is universal time here: clock changes are ReminderSchedule's subject.
Following(s) == NextDue(0, s, now)

Init ==
  /\ items = NoItems /\ file = NoItems /\ lock = None
  /\ now = 0
  /\ pc = "wait" /\ batch = {} /\ firing = None
  /\ life = [i \in Ids |-> "unused"]
  /\ edits = 0 /\ crashes = 0
  /\ fired = {} /\ settled = {}
-----------------------------------------------------------------------------
(* Saving *)

\* Mutant: the list is written before it is changed.
Save_BeforeChange(who, new) == lock = None /\ items' = new /\ file' = items /\ UNCHANGED lock

\* An operation of the store: it changes the items in memory, and saves.
Save(who, new) == lock = None /\ items' = new /\ lock' = who /\ UNCHANGED file

FinishSave ==
  /\ lock # None
  /\ lock' = None /\ file' = items
  /\ settled' = fired \ {firing}
  /\ UNCHANGED <<items, now, thread, life, edits, crashes, fired>>
-----------------------------------------------------------------------------
(* Requests: create, update, delete *)

\* A request that next_due cannot place is refused and changes nothing.
Create(i, s) ==
  /\ life[i] = "unused" /\ Following(s) # None
  /\ Save("request", [items EXCEPT ![i] = [sched |-> s, due |-> Following(s), status |-> "pending"]])
  /\ life' = [life EXCEPT ![i] = "used"]
  /\ UNCHANGED <<now, thread, edits, crashes, history>>

\* spec.get(field) or item.get(field)
Merged(s, r) ==
  LET given(asked, held) == IF asked = None THEN held ELSE asked
  IN  [repeat |-> r.repeat, at |-> given(r.at, s.at), time |-> given(r.time, s.time),
       days |-> IF r.days = {} THEN s.days ELSE r.days, every |-> given(r.every, s.every)]

\* The fields of the item when update() returns or raises: an edit without a
\* time, span or instant changes nothing, a weekly one without weekdays has
\* already replaced the time and the span.
Edited(s, m) ==
  CASE m.repeat = "once"     -> IF m.at = None THEN s ELSE Once(m.at)
    [] m.repeat = "interval" -> IF m.every = None THEN s ELSE Interval(m.every)
    [] m.repeat = "daily"    -> IF m.time = None THEN s ELSE Daily(m.time)
    [] m.repeat = "weekly"   -> IF m.time = None THEN s
                                ELSE IF m.days = {} THEN [Weekly(m.time, {}) EXCEPT !.repeat = s.repeat]
                                ELSE Weekly(m.time, m.days)

Edit(i) == items[i] # None /\ edits < MaxEdits /\ edits' = edits + 1

\* Edits the schedule and arms the item again.
Update(i, r) ==
  LET m == Merged(items[i].sched, r)
  IN  /\ Edit(i) /\ Following(m) # None
      /\ Save("request", [items EXCEPT ![i] =
           [sched |-> Edited(items[i].sched, m), due |-> Following(m), status |-> "pending"]])
      /\ UNCHANGED <<now, thread, life, crashes, history>>

\* ValueError: the client is told, the fields assigned so far stay.
UpdateRefused(i, r) ==
  LET m == Merged(items[i].sched, r)
  IN  /\ Edit(i) /\ Following(m) = None /\ lock = None
      /\ items' = [items EXCEPT ![i].sched = Edited(@, m)]
      /\ UNCHANGED <<file, lock, now, thread, life, crashes, history>>

\* Mutant: the item is gone from memory only.
Delete_Unsaved(i) ==
  /\ items[i] # None /\ lock = None
  /\ items' = [items EXCEPT ![i] = None]
  /\ life' = [life EXCEPT ![i] = "deleted"]
  /\ UNCHANGED <<file, lock, now, thread, edits, crashes, history>>

Delete(i) ==
  /\ items[i] # None
  /\ Save("request", [items EXCEPT ![i] = None])
  /\ life' = [life EXCEPT ![i] = "deleted"]
  /\ UNCHANGED <<now, thread, edits, crashes, history>>
-----------------------------------------------------------------------------
(* The scheduler thread *)

\* Mutant: only an item whose minute it is.
IsDue_Exactly(due) == due = now

IsDue(due) == due <= now

\* One round of _run: store.due().
Poll ==
  /\ pc = "wait" /\ lock = None
  /\ batch' = {<<i, items[i].due>> : i \in {j \in Ids : Pending(items, j) /\ IsDue(items[j].due)}}
  /\ pc' = "fire"
  /\ UNCHANGED <<store, now, firing, life, edits, crashes, history>>

Fire(o) ==
  /\ pc = "fire" /\ lock # "scheduler" /\ o \in batch
  /\ batch' = batch \ {o} /\ firing' = o /\ fired' = fired \cup {o}
  /\ pc' \in {"task", "advance"}    \* a task, or a reminder that is read out
  /\ UNCHANGED <<store, now, life, edits, crashes, settled>>

\* A task has an answer and set_last_response keeps it with the item.
TaskAnswers ==
  /\ pc = "task" /\ lock = None
  /\ IF items[firing[1]] # None THEN Save("scheduler", items) ELSE UNCHANGED store
  /\ pc' = "advance"
  /\ UNCHANGED <<now, batch, firing, life, edits, crashes, history>>

\* It has none, or the callback raises: _run logs the exception.
TaskFails ==
  /\ pc = "task" /\ pc' = "advance"
  /\ UNCHANGED <<store, now, batch, firing, life, edits, crashes, history>>

\* Mutant: advance() looks for a next time of one-time items too.
Rolled_OnceToo(item) == [item EXCEPT !.due = Following(item.sched)]

Rolled(item) == IF item.sched.repeat = "once" THEN [item EXCEPT !.status = "fired"]
                ELSE [item EXCEPT !.due = Following(item.sched)]

\* A repeating item whose fields next_due refuses.
Unplaceable(i) == items[i].sched.repeat # "once" /\ Following(items[i].sched) = None

Advance ==
  /\ pc = "advance" /\ lock = None
  /\ pc' = "fire" /\ firing' = None
  /\ LET i == firing[1]
     IN  IF items[i] = None THEN UNCHANGED store
         ELSE ~Unplaceable(i) /\ Save("scheduler", [items EXCEPT ![i] = Rolled(@)])
  /\ UNCHANGED <<now, batch, life, edits, crashes, history>>

\* advance() stands outside the try of _run: the exception ends the thread,
\* after last_fired_at was set in memory.
AdvanceRaises ==
  /\ pc = "advance" /\ lock = None
  /\ items[firing[1]] # None /\ Unplaceable(firing[1])
  /\ pc' = "dead"
  /\ UNCHANGED <<store, now, batch, firing, life, edits, crashes, history>>

EndRound ==
  /\ pc = "fire" /\ batch = {} /\ lock # "scheduler"
  /\ pc' = "wait"
  /\ UNCHANGED <<store, now, batch, firing, life, edits, crashes, history>>
-----------------------------------------------------------------------------
(* The clock and the process *)

Tick ==
  /\ now < LastTick /\ now' = now + 1
  /\ UNCHANGED <<store, thread, life, edits, crashes, history>>

\* What _load makes of the file.
Loaded == IF lock = None THEN file ELSE NoItems

\* The process dies and is started again.
Crash ==
  /\ crashes < MaxCrashes /\ crashes' = crashes + 1
  /\ items' = Loaded /\ file' = Loaded /\ lock' = None
  /\ pc' = "wait" /\ batch' = {} /\ firing' = None
  /\ fired' = settled
  /\ UNCHANGED <<now, life, edits, settled>>

Scheduler ==
  \/ Poll \/ EndRound \/ TaskAnswers \/ TaskFails \/ Advance \/ AdvanceRaises
  \/ \E o \in batch : Fire(o)

Next ==
  \/ \E i \in Ids : Delete(i) \/ \E r \in Requests : Create(i, r) \/ Update(i, r) \/ UpdateRefused(i, r)
  \/ FinishSave \/ Scheduler \/ Tick \/ Crash

Spec == Init /\ [][Next]_vars

\* A save ends, and the thread runs as long as there is something to do.
FairSpec == Spec /\ WF_vars(FinishSave) /\ WF_vars(Scheduler)
-----------------------------------------------------------------------------
(* Properties *)

TypeOK ==
  /\ items \in [Ids -> Items \cup {None}] /\ file \in [Ids -> Items \cup {None}]
  /\ lock \in {None, "request", "scheduler"}
  /\ now \in 0 .. LastTick
  /\ pc \in {"wait", "fire", "task", "advance", "dead"}
  /\ batch \subseteq Occurrences /\ firing \in Occurrences \cup {None}
  /\ life \in [Ids -> {"unused", "used", "deleted"}]
  /\ edits \in Nat /\ crashes \in Nat
  /\ fired \subseteq Occurrences /\ settled \subseteq fired

\* No occurrence is handed out twice: what due() returns was not delivered
\* before, by this process or, if its save had ended, by one before it.
DeliveredOnce == batch \cap fired = {}

\* Between saves memory and file agree on which items there are, which of them
\* are armed and for when (the fields of a refused edit are in memory only).
Persisted ==
  LET armed(held) == [i \in Ids |-> IF held[i] = None THEN None ELSE <<held[i].due, held[i].status>>]
  IN  lock = None => armed(items) = armed(file)

\* An item the user deleted does not come back, whatever thread was working on
\* it and whenever the process is restarted.
DeletedStaysDeleted == \A i \in Ids : life[i] = "deleted" => items[i] = None

\* README.md: "A background scheduler in the container fires items".  An item
\* that is due does not stay so: it is delivered, or edited, or deleted, unless
\* the thread has ended (AdvanceRaises).
DueIsDelivered ==
  \A i \in Ids : []<>(\/ pc = "dead" \/ ~Pending(items, i) \/ items[i].due > now
                     \/ <<i, items[i].due>> \in fired)
=============================================================================
