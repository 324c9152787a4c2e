---------------------------- MODULE Conversation ----------------------------
(***************************************************************************)
(* One conversation of app/conversation.py: its turns and their summary,   *)
(* the pending tool task a 'continue' may resume, the vault document that  *)
(* survives a crash, the replies that read and write it and the compaction *)
(* thread each of them leaves behind.                                      *)
(*                                                                         *)
(* A turn is named after the reply that stores it.  A summary is the       *)
(* sequence of the turns it was made from: what the LLM writes, and the    *)
(* cut at SUMMARY_MAX_CHARS, are left out.  A lock region is one step; a   *)
(* field read outside the lock is a step of its own.                       *)
(***************************************************************************)
EXTENDS Naturals, Sequences

CONSTANTS Replies,           \* utterances and scheduled tasks
          Kinds,             \* the kinds that occur
          KeepRecent,        \* keep_recent_turns
          ResetEvery,        \* RESET_EVERY
          MaxContinuations,  \* config.MAX_CONTINUATIONS
          Serial,            \* whether an utterance waits for the end of the one before
          MaxCrashes,        \* crashes of one run
          None               \* no tool state, no task

AllKinds == {"ask",       \* an utterance other than 'continue'
             "continue",  \* the utterance 'continue'
             "fixed",     \* one without an LLM round: a wake phrase, or STT failed
             "task"}      \* a scheduled task of this conversation

\* config_schema keeps keep_recent_turns at 1 or more.
ASSUME ConversationAssumption ==
  /\ Kinds \subseteq AllKinds
  /\ KeepRecent \in Nat \ {0} /\ ResetEvery \in Nat \ {0}
  /\ MaxContinuations \in Nat /\ MaxCrashes \in Nat
  /\ Serial \in BOOLEAN
  /\ None \notin Replies \cup [task : Replies, count : Nat]

VARIABLES
  turns, summary, compactions, compacting,  \* Conversation, in memory
  toolState,    \* the pending tool task, in memory only
  document,     \* the vault document
  pc, kind, task, seen, count, answered, finalised,  \* per reply: its thread and locals
  comp, snap,   \* per reply: the compaction thread it started
  crashes,
  \* history, read by the properties only
  accepted,     \* the turns stored, in order
  forgotten,    \* the turns dropped with a discarded checkpoint
  resumed,      \* [t] how often the task that began with reply t was resumed
  lastFinal,    \* the task finalised last, if no 'ask' or 'continue' has begun since
  owed          \* [r] lastFinal when reply r began

memory == <<turns, summary, compactions>>
replyVars == <<pc, kind, task, seen, count, answered, finalised>>
compactVars == <<comp, snap>>
taskHistory == <<resumed, lastFinal, owed>>
turnHistory == <<accepted, forgotten>>
vars == <<memory, compacting, toolState, document, replyVars, compactVars, crashes,
          turnHistory, taskHistory>>

States == {"new", "resolve", "resume", "run", "store", "storeOnly", "state", "setState",
           "spawn", "over"}
CompactStates == {"none", "begin", "llm", "apply", "finish", "over"}

ToolStates == [task : Replies, count : Nat] \cup {None}
Documents == [turns : Seq(Replies), summary : Seq(Replies), compactions : Nat]
Snapshots == [old : Seq(Replies), recent : Seq(Replies), summary : Seq(Replies), reset : BOOLEAN]
NoSnapshot == [old |-> <<>>, recent |-> <<>>, summary |-> <<>>, reset |-> FALSE]

TurnTypeOK ==
  /\ turns \in Seq(Replies) /\ summary \in Seq(Replies)
  /\ compactions \in Nat /\ compacting \in BOOLEAN /\ document \in Documents
  /\ comp \in [Replies -> CompactStates] /\ snap \in [Replies -> Snapshots]
  /\ accepted \in Seq(Replies) /\ forgotten \in Seq(Replies) /\ crashes \in Nat
ReplyTypeOK ==
  /\ pc \in [Replies -> States] /\ kind \in [Replies -> AllKinds]
  /\ answered \in [Replies -> BOOLEAN] /\ finalised \in [Replies -> BOOLEAN]
TaskTypeOK ==
  /\ toolState \in ToolStates
  /\ task \in [Replies -> Replies] /\ seen \in [Replies -> ToolStates]
  /\ count \in [Replies -> Nat] /\ resumed \in [Replies -> Nat]
  /\ lastFinal \in Replies \cup {None} /\ owed \in [Replies -> Replies \cup {None}]

\* Every variable has its type.
TypeOK == TurnTypeOK /\ ReplyTypeOK /\ TaskTypeOK

Init ==
  /\ turns = <<>> /\ summary = <<>> /\ compactions = 0 /\ compacting = FALSE
  /\ toolState = None
  /\ document = [turns |-> <<>>, summary |-> <<>>, compactions |-> 0]
  /\ pc = [r \in Replies |-> "new"] /\ kind \in [Replies -> Kinds]
  /\ task = [r \in Replies |-> r] /\ seen = [r \in Replies |-> None]
  /\ count = [r \in Replies |-> 0]
  /\ answered = [r \in Replies |-> FALSE] /\ finalised = [r \in Replies |-> FALSE]
  /\ comp = [r \in Replies |-> "none"] /\ snap = [r \in Replies |-> NoSnapshot]
  /\ crashes = 0
  /\ accepted = <<>> /\ forgotten = <<>>
  /\ resumed = [r \in Replies |-> 0]
  /\ lastFinal = None /\ owed = [r \in Replies |-> None]
-----------------------------------------------------------------------------
(* A reply *)

Goto(r, s) == pc' = [pc EXCEPT ![r] = s]

\* Mutant: the document is written at the next compaction only.
Save_NotYet == UNCHANGED document

\* _save: what is in memory after the step.
Save == document' = [turns |-> turns', summary |-> summary', compactions |-> compactions']

Utterance(r) == kind[r] # "task"

\* The reply starts.  Two utterances overlap after a barge-in, or when two
\* connections share the conversation.
Begin(r) ==
  /\ pc[r] = "new"
  /\ Serial /\ Utterance(r) =>
       \A s \in Replies : Utterance(s) => pc[s] \in {"new", "over"}
  /\ \/ /\ kind[r] = "fixed"
        /\ \E a \in BOOLEAN : answered' = [answered EXCEPT ![r] = a]
        /\ Goto(r, "storeOnly")
     \/ /\ kind[r] # "fixed"
        /\ Goto(r, IF Utterance(r) THEN "resolve" ELSE "run")
        /\ UNCHANGED answered
  /\ owed' = [owed EXCEPT ![r] = lastFinal]
  /\ lastFinal' = IF kind[r] \in {"ask", "continue"} THEN None ELSE lastFinal
  /\ UNCHANGED <<memory, compacting, toolState, document, kind, task, seen, count,
                 finalised, compactVars, crashes, turnHistory, resumed>>

\* resolve_continue: anything but 'continue' clears a pending task; 'continue'
\* reads the pending task, without the lock ...
Resolve(r) ==
  /\ pc[r] = "resolve"
  /\ IF kind[r] = "continue"
     THEN /\ seen' = [seen EXCEPT ![r] = toolState]
          /\ Goto(r, "resume")
          /\ UNCHANGED toolState
     ELSE /\ toolState' = None
          /\ Goto(r, "run")
          /\ UNCHANGED seen
  /\ UNCHANGED <<memory, compacting, document, kind, task, count, answered, finalised,
                 compactVars, crashes, turnHistory, taskHistory>>

\* Mutant: the task may be resumed once more.
Exhausted_OneMore(s) == s.count > MaxContinuations

Exhausted(s) == s.count >= MaxContinuations

\* ... and then acts on what it read: nothing was pending; the task has used up
\* its continuations (a fixed refusal is the whole answer); or it is resumed.
Resume(r) ==
  /\ pc[r] = "resume"
  /\ \/ /\ seen[r] = None
        /\ toolState' = None
        /\ Goto(r, "run")
        /\ UNCHANGED <<task, answered, resumed>>
     \/ /\ seen[r] # None /\ Exhausted(seen[r])
        /\ toolState' = None
        /\ answered' = [answered EXCEPT ![r] = TRUE]
        /\ Goto(r, "storeOnly")
        /\ UNCHANGED <<task, resumed>>
     \/ /\ seen[r] # None /\ ~Exhausted(seen[r])
        /\ toolState' = [seen[r] EXCEPT !.count = @ + 1]
        /\ task' = [task EXCEPT ![r] = seen[r].task]
        /\ resumed' = [resumed EXCEPT ![seen[r].task] = @ + 1]
        /\ Goto(r, "run")
        /\ UNCHANGED answered
  /\ UNCHANGED <<memory, compacting, document, kind, seen, count, finalised, compactVars,
                 crashes, turnHistory, lastFinal, owed>>

\* agent.reply: an answer or none (an error, or a barge-in before the first
\* delta), and for an utterance perhaps the end of its tool budget.  A scheduled
\* task without an answer ends here (_run_task).
Run(r) ==
  /\ pc[r] = "run"
  /\ \E a \in BOOLEAN : \E f \in IF Utterance(r) THEN BOOLEAN ELSE {FALSE} :
       /\ answered' = [answered EXCEPT ![r] = a]
       /\ finalised' = [finalised EXCEPT ![r] = f]
       /\ Goto(r, IF Utterance(r) THEN "store" ELSE IF a THEN "storeOnly" ELSE "over")
  /\ UNCHANGED <<memory, compacting, toolState, document, kind, task, seen, count, compactVars,
                 crashes, turnHistory, taskHistory>>

\* Mutant: a scheduled task ends like an utterance.
ConcludesTask_Always(r) == TRUE

\* llm_ran; _run_task has no such part.
ConcludesTask(r) == pc[r] = "store"

\* add_turn.  A refusal, a fixed answer and a scheduled task leave the tool state alone.
Store(r) ==
  /\ pc[r] \in {"store", "storeOnly"}
  /\ IF answered[r]
     THEN /\ turns' = Append(turns, r)
          /\ accepted' = Append(accepted, r)
          /\ UNCHANGED <<summary, compactions, forgotten>>
          /\ Save
     ELSE UNCHANGED <<memory, document, turnHistory>>
  /\ Goto(r, IF ConcludesTask(r) THEN "state" ELSE "spawn")
  /\ UNCHANGED <<compacting, toolState, kind, task, seen, count, answered, finalised,
                 compactVars, crashes, taskHistory>>

\* Mutant: no default when no task is pending.
StoredCount_NoDefault == IF toolState = None THEN None ELSE toolState.count

StoredCount == IF toolState = None THEN 0 ELSE toolState.count

\* The end of an utterance that ran the LLM: not finalised, a pending task is
\* cleared; finalised, the number of continuations so far is read ...
Conclude(r) ==
  /\ pc[r] = "state"
  /\ IF finalised[r]
     THEN /\ count' = [count EXCEPT ![r] = StoredCount]
          /\ Goto(r, "setState")
          /\ UNCHANGED toolState
     ELSE /\ toolState' = None
          /\ Goto(r, "spawn")
          /\ UNCHANGED count
  /\ UNCHANGED <<memory, compacting, document, kind, task, seen, answered, finalised, compactVars,
                 crashes, turnHistory, taskHistory>>

\* Mutant: every finalised task starts with a fresh count.
Continuations_Fresh(r) == 0

Continuations(r) == count[r]

\* ... and stored with the task's messages (set_tool_state).
SetToolState(r) ==
  /\ pc[r] = "setState"
  /\ toolState' = [task |-> task[r], count |-> Continuations(r)]
  /\ lastFinal' = task[r]
  /\ Goto(r, "spawn")
  /\ UNCHANGED <<memory, compacting, document, kind, task, seen, count, answered, finalised,
                 compactVars, crashes, turnHistory, resumed, owed>>

\* maybe_compact
SpawnCompaction(r) ==
  /\ pc[r] = "spawn"
  /\ Goto(r, "over")
  /\ comp' = [comp EXCEPT ![r] = "begin"]
  /\ UNCHANGED <<memory, compacting, toolState, document, kind, task, seen, count, answered,
                 finalised, snap, crashes, turnHistory, taskHistory>>

Reply(r) ==
  \/ Begin(r) \/ Resolve(r) \/ Resume(r) \/ Run(r) \/ Store(r) \/ Conclude(r)
  \/ SetToolState(r) \/ SpawnCompaction(r)
-----------------------------------------------------------------------------
(* The compaction thread a reply leaves behind: Conversation.compact *)

CompactFrame == UNCHANGED <<toolState, replyVars, crashes, accepted, taskHistory>>

BecomeCompact(r, s) == comp' = [comp EXCEPT ![r] = s]

\* Mutants: two threads may compact at once; a slice that keeps one turn less.
Idle_NotChecked == TRUE
Kept_OneLess == KeepRecent - 1

Idle == ~compacting

Kept == KeepRecent

\* The checkpoint made now drops the summary before it.
ResetDue == compactions > 0 /\ (compactions + 1) % ResetEvery = 0

\* The first lock region: nothing to do, or a snapshot is taken.  Whether the
\* turns exceed the size threshold depends on their texts.
CompactBegin(r) ==
  /\ comp[r] = "begin"
  /\ \/ BecomeCompact(r, "over") /\ UNCHANGED <<compacting, snap>>
     \/ /\ Idle /\ Len(turns) > KeepRecent
        /\ compacting' = TRUE
        /\ snap' = [snap EXCEPT ![r] =
                      [old     |-> SubSeq(turns, 1, Len(turns) - Kept),
                       recent  |-> SubSeq(turns, Len(turns) - Kept + 1, Len(turns)),
                       summary |-> summary,
                       reset   |-> ResetDue]]
        /\ BecomeCompact(r, "llm")
  /\ UNCHANGED <<memory, document, forgotten>>
  /\ CompactFrame

\* agent.summarize, without the lock: a summary, or none (empty, or it raised).
Summarize(r) ==
  /\ comp[r] = "llm"
  /\ BecomeCompact(r, "apply") \/ BecomeCompact(r, "finish")
  /\ UNCHANGED <<memory, compacting, document, snap, forgotten>>
  /\ CompactFrame

\* Mutant: what was appended while the LLM was summarising is not looked for.
Unchanged_NotChecked(r) == TRUE

\* len(self.turns) == snapshot_len
Unchanged(r) == Len(turns) = Len(snap[r].old) + Len(snap[r].recent)

\* The second lock region.
Apply(r) ==
  /\ comp[r] = "apply"
  /\ IF Unchanged(r)
     THEN /\ summary' = IF snap[r].reset THEN snap[r].old
                        ELSE snap[r].summary \o snap[r].old
          /\ forgotten' = IF snap[r].reset THEN forgotten \o snap[r].summary
                          ELSE forgotten
          /\ turns' = snap[r].recent
          /\ compactions' = compactions + 1
          /\ Save
     ELSE UNCHANGED <<memory, document, forgotten>>
  /\ BecomeCompact(r, "finish")
  /\ UNCHANGED <<compacting, snap>>
  /\ CompactFrame

\* Mutant: an attempt that came to nothing keeps the flag.
Released_OnlyIfApplied(r) == turns # snap[r].recent

\* The finally block: the flag is FALSE again.
Released(r) == FALSE

CompactFinish(r) ==
  /\ comp[r] = "finish"
  /\ compacting' = Released(r)
  /\ BecomeCompact(r, "over")
  /\ snap' = [snap EXCEPT ![r] = NoSnapshot]
  /\ UNCHANGED <<memory, document, forgotten>>
  /\ CompactFrame

Compactor(r) == CompactBegin(r) \/ Summarize(r) \/ Apply(r) \/ CompactFinish(r)
-----------------------------------------------------------------------------
\* The process dies and is started again: threads and the tool state are gone,
\* the conversation is loaded from its document.
Crash ==
  /\ crashes < MaxCrashes
  /\ crashes' = crashes + 1
  /\ turns' = document.turns /\ summary' = document.summary
  /\ compactions' = document.compactions
  /\ compacting' = FALSE /\ toolState' = None
  /\ pc' = [r \in Replies |-> IF pc[r] = "new" THEN "new" ELSE "over"]
  /\ comp' = [r \in Replies |-> IF comp[r] = "none" THEN "none" ELSE "over"]
  /\ snap' = [r \in Replies |-> NoSnapshot]
  /\ lastFinal' = None
  /\ UNCHANGED <<document, kind, task, seen, count, answered, finalised, turnHistory,
                 resumed, owed>>

Next == Crash \/ \E r \in Replies : Reply(r) \/ Compactor(r)

Spec == Init /\ [][Next]_vars

\* The threads run; the LLM answers, fails or times out.
FairSpec == Spec /\ \A r \in Replies : WF_vars(Compactor(r))
-----------------------------------------------------------------------------
\* No turn is lost or told twice, whatever overlaps and whenever the process
\* dies: the turns stored are those of the discarded checkpoints, those of the
\* summary and those kept verbatim, in this order ("the result applies only if
\* nothing was appended in the meantime", compact).
NothingLost == accepted = forgotten \o summary \o turns

Busy(r) == comp[r] \in {"llm", "apply", "finish"}

Snapped(r) == snap[r].old \o snap[r].recent

\* The turns a thread took its snapshot of are still there, perhaps with later
\* ones behind them, and the summary is the one it read.
SnapKept(r) == comp[r] \in {"llm", "apply"} =>
  /\ snap[r].summary = summary
  /\ Len(Snapped(r)) <= Len(turns)
  /\ SubSeq(turns, 1, Len(Snapped(r))) = Snapped(r)

\* The inductive form of NothingLost: the document is what is in memory, at most
\* one thread compacts, and the turns extend its snapshot.
TurnsInv ==
  /\ NothingLost
  /\ document = [turns |-> turns, summary |-> summary, compactions |-> compactions]
  /\ \A r \in Replies : Busy(r) => compacting
  /\ \A r, s \in Replies : Busy(r) /\ Busy(s) => r = s
  /\ \A r \in Replies : SnapKept(r)

\* The turns kept verbatim are never fewer than keep_recent_turns, unless fewer
\* were ever stored.
RecentKept == Len(turns) >= KeepRecent \/ turns = accepted

\* The inductive form of RecentKept: a snapshot sets keep_recent_turns apart.
RecentInv ==
  /\ RecentKept
  /\ \A r \in Replies : comp[r] \in {"llm", "apply"} => Len(snap[r].recent) = KeepRecent

\* A task is resumed at most MAX_CONTINUATIONS times (module docstring,
\* conversation.py:34-37), as long as utterances do not overlap.
ContinuationsBounded == \A t \in Replies : resumed[t] <= MaxContinuations

\* A 'continue' that follows a finalised task reads that task (same docstring),
\* as long as utterances do not overlap.
FollowUpResumes ==
  \A r \in Replies : pc[r] = "resume" /\ owed[r] # None =>
    seen[r] # None /\ seen[r].task = owed[r]

\* The flag that keeps two compactions apart does not stay up: the next idle
\* cycle can try again.
CompactionEnds == compacting ~> ~compacting
=============================================================================
