------------------------------- MODULE Memory -------------------------------
(***************************************************************************)
(* The memory of app/memory.py: fact documents and the core index in the   *)
(* vault, the edits of REST calls and of the tool `remember`, the dream    *)
(* passes that ask the LLM and apply what it answers, and the import of    *)
(* older files at startup.  There is no copy in memory: a call reads the   *)
(* documents, under MEMORY_LOCK, and writes them back one by one, and the  *)
(* lock is free again when all is written.                                 *)
(*                                                                         *)
(* Two texts are equal when _norm_text makes them so.  Dates, and scores   *)
(* of the deterministic pass, are left open.                               *)
(***************************************************************************)
EXTENDS Naturals, Sequences, FiniteSets

CONSTANTS MaxId,        \* facts of one run
          Texts,
          Ruled,        \* texts with '---' in them
          Blank,        \* the empty text
          OldFacts,     \* what memory.json may hold: sets of facts with their ids
          Dreamers,     \* passes: the scheduler's thread and POST /api/dream
          OldDreams,    \* what dreams.json holds
          TopFacts,     \* facts a deterministic pass promotes
          MaxCalls,     \* edits of one run
          MaxCrashes,
          None

Ids == 1 .. MaxId

ASSUME MemoryAssumption ==
  /\ MaxId \in Nat /\ TopFacts \in Nat /\ MaxCalls \in Nat /\ MaxCrashes \in Nat
  /\ Ruled \subseteq Texts /\ Blank \notin Texts
  /\ OldFacts \subseteq SUBSET [id : Ids, text : Texts, core : BOOLEAN]
  \* The older version gave every fact an id of its own.
  /\ \A old \in OldFacts : \A f, g \in old : f.id = g.id => f = g
  /\ Dreamers \cap OldDreams = {}
  /\ None \notin Texts \cup {Blank} /\ None \notin [text : Texts \cup {Blank}, core : BOOLEAN]

VARIABLES
  docs,       \* [id] the fact in memories/facts/<id>.md, or None
  coreIndex,  \* the texts MEMORY.md lists, or None
  dreams,     \* the passes recorded in memories/dreams
  oldFacts, oldIndex, oldDreams, marker,  \* memory.json, memory.md, dreams.json; .migrated
  server,     \* "down", "boot" or "up"
  writes,     \* what the holder of MEMORY_LOCK has still to write
  put,        \* a PUT between its update and its set_core
  pc, seen, answer, changed,    \* per pass: its thread and locals
  dreaming,   \* DreamScheduler._state
  crashes, calls,
  \* history
  used,       \* ids given out
  text,       \* [id] the text last given to the fact, or None if it was removed
  cut,        \* the index is not up to date: a crash, or an import of memory.md
  had         \* the facts the older version left

files == <<docs, coreIndex, dreams, oldFacts, oldIndex, oldDreams, marker>>
passVars == <<pc, seen, answer, changed, dreaming>>
history == <<used, text, cut, had>>
vars == <<files, server, writes, put, passVars, crashes, calls, history>>

Fact == [text : Texts \cup {Blank}, core : BOOLEAN]
Facts == [Ids -> Fact \cup {None}]
Writes == [op : {"facts"}, facts : Facts]
            \cup [op : {"index"}, texts : SUBSET (Texts \cup {Blank})]
            \cup [op : {"dreams"}, set : SUBSET OldDreams]
            \cup [op : {"unlinkFacts", "unlinkIndex", "unlinkDreams", "mark"}]
Groups == [keep : Ids, drop : SUBSET Ids]
Answers == [new : SUBSET Texts, pruned : SUBSET Ids, merge : SUBSET Groups]
NoAnswer == [new |-> {}, pruned |-> {}, merge |-> {}]

FilesType ==
  /\ docs \in Facts /\ coreIndex \in (SUBSET (Texts \cup {Blank})) \cup {None}
  /\ dreams \subseteq Dreamers \cup OldDreams
  /\ oldFacts \in (SUBSET [id : Ids, text : Texts, core : BOOLEAN]) \cup {None}
  /\ oldIndex \in (SUBSET Texts) \cup {None} /\ oldDreams \in {OldDreams, None}
  /\ marker \in BOOLEAN
ServerType ==
  /\ server \in {"down", "boot", "up"} /\ writes \in Seq(Writes)
  /\ put \in [id : Ids, core : BOOLEAN] \cup {None}
  /\ crashes \in Nat /\ calls \in Nat
PassType ==
  /\ pc \in [Dreamers -> {"new", "read", "llm", "apply", "before", "consolidate", "after",
                          "record", "end", "over"}]
  /\ seen \in [Dreamers -> Facts] /\ answer \in [Dreamers -> Answers]
  /\ changed \in [Dreamers -> BOOLEAN] /\ dreaming \in BOOLEAN
HistoryType ==
  /\ used \subseteq Ids /\ text \in [Ids -> Texts \cup {Blank, None}] /\ cut \in BOOLEAN
  /\ had \in SUBSET [id : Ids, text : Texts, core : BOOLEAN]

\* Every variable has its type.
TypeOK == FilesType /\ ServerType /\ PassType /\ HistoryType

NoFacts == [i \in Ids |-> None]
There(fs) == {i \in Ids : fs[i] # None}
CoreTexts(fs) == {fs[i].text : i \in {j \in There(fs) : fs[j].core}}

Init ==
  /\ docs = NoFacts /\ coreIndex = None /\ dreams = {} /\ marker = FALSE
  /\ oldFacts \in OldFacts \cup {None}
  /\ oldIndex \in {None, {}} \cup (IF oldFacts = None THEN {} ELSE {{f.text : f \in oldFacts}})
  /\ oldDreams \in {OldDreams, None}
  /\ server = "down" /\ writes = <<>> /\ put = None
  /\ pc = [d \in Dreamers |-> "new"] /\ seen = [d \in Dreamers |-> NoFacts]
  /\ answer = [d \in Dreamers |-> NoAnswer] /\ changed = [d \in Dreamers |-> FALSE]
  /\ dreaming = FALSE /\ crashes = 0 /\ calls = 0
  /\ had = IF oldFacts = None THEN {} ELSE oldFacts
  /\ used = {f.id : f \in had}
  /\ text = NoFacts /\ cut = TRUE
-----------------------------------------------------------------------------
(* Documents *)

\* The frontmatter ends at the first '---' after its first line, and the title
\* comes before the text and the core flag: both are gone.
ReadFact(f) ==
  IF f # None /\ f.text \in Ruled THEN [text |-> Blank, core |-> FALSE] ELSE f

\* _facts, list, archive_text
Read == [i \in Ids |-> ReadFact(docs[i])]

\* Mutant: the index is left alone when facts go.
Saving_NoIndex(fs, body) ==
  body \o IF There(fs) \subseteq There(docs) /\ There(fs) # There(docs) THEN <<>>
          ELSE <<[op |-> "index", texts |-> CoreTexts(fs)]>>

Saving(fs, body) == body \o <<[op |-> "index", texts |-> CoreTexts(fs)]>>

\* The documents are to become fs.
To(fs) == IF fs = docs THEN <<>> ELSE <<[op |-> "facts", facts |-> fs]>>

\* _save_facts and _write_index.
Save(fs) == Saving(fs, To(fs))

Saves(fs) == writes' = Save(fs)

\* One document: those that are not in fs any more are removed first; ids are random,
\* and so is the order.  Writing a document that stays as it is is left out.
WriteFact(fs) == \E i \in Ids :
  /\ docs[i] # fs[i]
  /\ fs[i] # None => There(docs) \subseteq There(fs)
  /\ docs' = [docs EXCEPT ![i] = fs[i]]

WriteNext ==
  /\ writes # <<>>
  /\ LET w == Head(writes)
     IN /\ IF w.op = "facts" THEN WriteFact(w.facts) ELSE UNCHANGED docs
        /\ writes' = IF w.op = "facts" /\ docs' # w.facts THEN writes ELSE Tail(writes)
        /\ IF w.op = "index" THEN coreIndex' = w.texts /\ cut' = (server # "up")
           ELSE UNCHANGED <<coreIndex, cut>>
        /\ dreams' = IF w.op = "dreams" THEN dreams \cup w.set ELSE dreams
        /\ oldFacts' = IF w.op = "unlinkFacts" THEN None ELSE oldFacts
        /\ oldIndex' = IF w.op = "unlinkIndex" THEN None ELSE oldIndex
        /\ oldDreams' = IF w.op = "unlinkDreams" THEN None ELSE oldDreams
        /\ marker' = (marker \/ w.op = "mark")
  /\ UNCHANGED <<server, put, passVars, crashes, calls, used, text, had>>

Free == server = "up" /\ writes = <<>>
-----------------------------------------------------------------------------
(* Edits: REST calls and the tool `remember` *)

Edits ==
  /\ calls < MaxCalls
  /\ calls' = calls + 1
  /\ UNCHANGED <<files, server, passVars, crashes, cut, had>>

\* add, and observe with core set: a text that is there already is refused.
Add(t, c) ==
  /\ Free /\ put = None
  /\ t \notin {Read[i].text : i \in There(Read)}
  /\ \E i \in Ids \ used :
       /\ \A j \in Ids \ used : i <= j
       /\ used' = used \cup {i}
       /\ Saves([Read EXCEPT ![i] = [text |-> t, core |-> c]])
       /\ text' = [text EXCEPT ![i] = t]
  /\ UNCHANGED put
  /\ Edits

Delete(i) ==
  /\ Free /\ put = None /\ Read[i] # None
  /\ Saves([Read EXCEPT ![i] = None])
  /\ text' = [text EXCEPT ![i] = None]
  /\ UNCHANGED <<put, used>>
  /\ Edits

\* PUT /api/memory/{id}: update, without a look at the other texts ...
Update(i, t, c) ==
  /\ Free /\ put = None /\ Read[i] # None
  /\ Saves([Read EXCEPT ![i].text = t])
  /\ text' = [text EXCEPT ![i] = t]
  /\ put' = IF Read[i].core # c THEN [id |-> i, core |-> c] ELSE None
  /\ UNCHANGED used
  /\ Edits

\* ... and then set_core, which fails if the fact has gone meanwhile.
SetCore ==
  /\ Free /\ put # None
  /\ IF Read[put.id] # None
     THEN Saves([Read EXCEPT ![put.id].core = put.core])
     ELSE UNCHANGED writes
  /\ put' = None
  /\ UNCHANGED <<files, server, passVars, crashes, calls, history>>

ClearDreams ==
  /\ Free /\ put = None /\ dreams # {}
  /\ calls < MaxCalls
  /\ calls' = calls + 1
  /\ dreams' = {}
  /\ UNCHANGED <<docs, coreIndex, oldFacts, oldIndex, oldDreams, marker, server, writes, put,
                 passVars, crashes, history>>
-----------------------------------------------------------------------------
(* A dream pass: DreamScheduler.trigger *)

Goto(d, s) == pc' = [pc EXCEPT ![d] = s]

\* Locals that are not read any more.
Forget(d) ==
  /\ seen' = [seen EXCEPT ![d] = NoFacts]
  /\ answer' = [answer EXCEPT ![d] = NoAnswer]

PassFrame == UNCHANGED <<server, put, crashes, calls, had>>

\* The pass begins; without an agent it is the deterministic one.
BeginPass(d) ==
  /\ Free /\ pc[d] = "new"
  /\ dreaming' = TRUE
  /\ Goto(d, "read") \/ Goto(d, "before")
  /\ UNCHANGED <<files, writes, seen, answer, changed, used, text, cut>>
  /\ PassFrame

\* _dream_candidates and archive_text, without the lock.
ReadCandidates(d) ==
  /\ pc[d] = "read"
  /\ seen' = [seen EXCEPT ![d] = Read]
  /\ Goto(d, "llm")
  /\ UNCHANGED <<files, writes, answer, changed, dreaming, used, text, cut>>
  /\ PassFrame

\* What parse_dream_response makes of the answer: a new fact or none, facts to
\* prune, and up to two groups, of the facts the model was shown; the order of
\* the groups does not matter to apply_dream.
AnswersTo(fs) ==
  LET ids == There(fs)
      groups == {[keep |-> k, drop |-> {e}] : k \in ids, e \in ids}
      proper == {g \in groups : g.keep \notin g.drop}
  IN [new : {{}} \cup {{t} : t \in Texts}, pruned : {p \in SUBSET ids : Cardinality(p) <= 1},
      merge : {{}} \cup {{g, h} : g \in proper, h \in proper}]

\* agent.dream_pass, without the lock; if it raises the deterministic pass runs.
AskLLM(d) ==
  /\ pc[d] = "llm"
  /\ \/ /\ \E a \in AnswersTo(seen[d]) : answer' = [answer EXCEPT ![d] = a]
        /\ Goto(d, "apply")
     \/ Goto(d, "before") /\ UNCHANGED answer
  /\ UNCHANGED <<files, writes, seen, changed, dreaming, used, text, cut>>
  /\ PassFrame

\* Mutant: the core flags the model was shown.
Protected_AsShown(d, fs) == {i \in There(seen[d]) : seen[d][i].core}

\* The flags now, under the lock.
Protected(d, fs) == {i \in There(fs) : fs[i].core}

Pruned(d, fs) == (answer[d].pruned \cap There(fs)) \ Protected(d, fs)

\* A group whose kept fact is there and is not pruned drops the others.
DroppedBy(g, fs, gone) ==
  IF g.keep \notin There(fs) \ gone THEN {} ELSE (g.drop \cap There(fs)) \ (gone \cup {g.keep})

Merged(d, fs) ==
  UNION {DroppedBy(g, fs, Pruned(d, fs)) : g \in answer[d].merge}

\* Mutant: the facts read before the model was asked.
Base_AsShown(d) == seen[d]

Base(d) == Read

\* apply_dream: the new fact is added unless its text is there, then the pruned
\* and merged ones are removed, whatever the model was shown meanwhile.
Apply(d) ==
  /\ Free /\ pc[d] = "apply"
  /\ LET fs == Base(d)
         new == {t \in answer[d].new : t \notin {fs[i].text : i \in There(fs)}}
         fresh == {i \in Ids \ used : \A j \in Ids \ used : i <= j}
         drop == Pruned(d, fs) \cup Merged(d, fs)
     IN /\ new # {} => fresh # {}
        /\ used' = used \cup (IF new = {} THEN {} ELSE fresh)
        /\ \E add \in {[i \in fresh |-> t] : t \in new} \cup (IF new = {} THEN {<<>>} ELSE {}) :
             /\ Saves([i \in Ids |->
                  IF i \in drop THEN None
                  ELSE IF i \in DOMAIN add THEN [text |-> add[i], core |-> FALSE] ELSE fs[i]])
             /\ text' = [i \in Ids |-> IF i \in drop THEN None
                                      ELSE IF i \in DOMAIN add THEN add[i] ELSE text[i]]
        /\ changed' = [changed EXCEPT ![d] = new # {} \/ drop # {}]
  /\ Goto(d, "record")
  /\ Forget(d)
  /\ UNCHANGED <<files, dreaming, cut>>
  /\ PassFrame

\* _deterministic_pass: the core facts before, without the lock ...
ReadBefore(d) ==
  /\ pc[d] = "before"
  /\ seen' = [seen EXCEPT ![d] = Read]
  /\ Goto(d, "consolidate")
  /\ UNCHANGED <<files, writes, answer, changed, dreaming, used, text, cut>>
  /\ PassFrame

Least(m, n) == IF m < n THEN m ELSE n

\* ... consolidate: the facts with the best texts are the core ones ...
Consolidate(d) ==
  /\ Free /\ pc[d] = "consolidate"
  /\ LET known == {Read[i].text : i \in There(Read)} \ {Blank}
     IN \E best \in {s \in SUBSET known : Cardinality(s) = Least(TopFacts, Cardinality(known))} :
          Saves([i \in Ids |-> IF Read[i] = None THEN None
                               ELSE [Read[i] EXCEPT !.core = Read[i].text \in best]])
  /\ Goto(d, "after")
  /\ UNCHANGED <<files, seen, answer, changed, dreaming, used, text, cut>>
  /\ PassFrame

\* ... and the core facts after it, without the lock, for the record.
ReadAfter(d) ==
  /\ writes = <<>> /\ pc[d] = "after"
  /\ changed' = [changed EXCEPT ![d] =
       {i \in There(Read) : Read[i].core} # {i \in There(seen[d]) : seen[d][i].core}]
  /\ Goto(d, "record")
  /\ Forget(d)
  /\ UNCHANGED <<files, writes, dreaming, used, text, cut>>
  /\ PassFrame

\* A pass that changed something is recorded (_is_meaningful; connections alone
\* are enough too).
Record(d) ==
  /\ Free /\ pc[d] = "record"
  /\ IF changed[d] THEN dreams' = dreams \cup {d} ELSE dreams' \in {dreams, dreams \cup {d}}
  /\ changed' = [changed EXCEPT ![d] = FALSE]
  /\ Goto(d, "end")
  /\ UNCHANGED <<docs, coreIndex, oldFacts, oldIndex, oldDreams, marker, writes, seen, answer,
                 dreaming, used, text, cut>>
  /\ PassFrame

EndPass(d) ==
  /\ pc[d] = "end"
  /\ dreaming' = FALSE
  /\ Goto(d, "over")
  /\ UNCHANGED <<files, writes, seen, answer, changed, used, text, cut>>
  /\ PassFrame

Pass(d) ==
  \/ BeginPass(d) \/ ReadCandidates(d) \/ AskLLM(d) \/ Apply(d) \/ ReadBefore(d)
  \/ Consolidate(d) \/ ReadAfter(d) \/ Record(d) \/ EndPass(d)
-----------------------------------------------------------------------------
(* Startup, crash, and migration.migrate *)

\* Mutant: the record is written as it is, with its id.
Put_Whole(f) == f

Put(f) == [text |-> f.text, core |-> f.core]
Op(s) == [op |-> s]

\* The documents with those of old facts written over them.
With(old) == [i \in Ids |-> IF \E f \in old : f.id = i THEN Put(CHOOSE f \in old : f.id = i)
                           ELSE docs[i]]
TextsOf(fs) == [i \in Ids |-> IF fs[i] = None THEN None ELSE fs[i].text]

\* _migrate_legacy_facts: one fact of each text, if neither its id nor its text
\* is there.
Imports(chosen) ==
  LET fs == Read
      have == {fs[i].text : i \in There(fs)}
      open == {f \in oldFacts : f.id \notin There(fs) /\ f.text \notin have}
  IN /\ chosen \subseteq open
     /\ \A f, g \in chosen : f.text = g.text => f = g
     /\ \A f \in open : \E g \in chosen : g.text = f.text

\* Mutant: the old file goes first.
ImportWrites_UnlinkFirst(s) == <<Op("unlinkFacts")>> \o s

ImportWrites(s) == s \o <<Op("unlinkFacts")>>

\* _migrate_legacy_index: the old index, if there is none; if that is empty, it
\* is made from the core facts, read back from the documents after the import.
IndexImport(core) ==
  IF oldIndex = None THEN <<>>
  ELSE (IF coreIndex \in {None, {}} /\ oldIndex # {}
        THEN <<[op |-> "index", texts |-> oldIndex]>>
        ELSE IF coreIndex \in {None, {}} /\ core # {}
             THEN <<[op |-> "index", texts |-> core]>> ELSE <<>>)
       \o <<Op("unlinkIndex")>>

\* MemoryStore.__init__ and DreamStore.__init__.
Boot ==
  /\ server = "down" /\ writes = <<>>
  /\ server' = "boot"
  /\ \E chosen \in SUBSET (IF oldFacts = None THEN {} ELSE oldFacts) :
       /\ oldFacts # None => Imports(chosen)
       /\ LET fs == With(chosen)
          IN /\ writes' =
                  (IF coreIndex = None THEN <<[op |-> "index", texts |-> {}]>> ELSE <<>>)
                  \o (IF oldFacts = None THEN <<>> ELSE ImportWrites(To(fs)))
                  \o IndexImport(CoreTexts([i \in Ids |-> ReadFact(fs[i])]))
                  \o (IF oldDreams = None THEN <<>>
                      ELSE <<[op |-> "dreams", set |-> oldDreams], Op("unlinkDreams")>>)
             /\ text' = TextsOf(fs)
  /\ UNCHANGED <<files, put, passVars, crashes, calls, used, cut, had>>

\* dedupe: of the facts with one text the best is kept, a core one if there is
\* any.  The index is written only if something was removed.
Dedupe ==
  /\ server = "boot" /\ writes = <<>>
  /\ server' = "up"
  /\ \E keep \in SUBSET There(Read) :
       /\ \A i \in There(Read) : IF Read[i].text = Blank THEN i \in keep
            ELSE \E k \in keep : Read[k].text = Read[i].text /\ (Read[i].core => Read[k].core)
       /\ \A i, j \in keep : Read[i].text = Read[j].text /\ Read[i].text # Blank => i = j
       /\ IF keep = There(Read) THEN UNCHANGED <<writes, text, cut>>
          ELSE /\ Saves([i \in Ids |-> IF i \in keep THEN Read[i] ELSE None])
               /\ text' = [i \in Ids |-> IF i \in keep THEN text[i] ELSE None]
               /\ UNCHANGED cut
  /\ UNCHANGED <<files, put, passVars, crashes, calls, used, had>>

\* What is on the disk counts now.
Crash ==
  /\ server # "down" \/ writes # <<>>
  /\ crashes < MaxCrashes
  /\ crashes' = crashes + 1
  /\ server' = "down" /\ writes' = <<>> /\ put' = None
  /\ pc' = [d \in Dreamers |-> IF pc[d] = "new" THEN "new" ELSE "over"]
  /\ dreaming' = FALSE
  /\ cut' = (cut \/ writes # <<>>)
  /\ text' = TextsOf(docs)
  /\ UNCHANGED <<files, seen, answer, changed, calls, used, had>>

\* _migrate_memories and _migrate_dreams, run by hand while the server is down:
\* every old fact is written, whatever is there.
Migrate ==
  /\ server = "down" /\ writes = <<>> /\ ~marker
  /\ LET old == IF oldFacts = None THEN {} ELSE oldFacts
         core == {f.text : f \in {g \in old : g.core}}
     IN /\ writes' = To(With(old))
             \o (IF oldFacts # None /\ (oldIndex # None \/ core # {})
                 THEN <<[op |-> "index", texts |-> core]>> ELSE <<>>)
             \o (IF oldDreams = None THEN <<>> ELSE <<[op |-> "dreams", set |-> oldDreams]>>)
             \o <<Op("mark")>>
        /\ text' = TextsOf(With(old))
  /\ cut' = TRUE
  /\ UNCHANGED <<files, server, put, passVars, crashes, calls, used, had>>

Edit ==
  \/ \E t \in Texts, c \in BOOLEAN :
       Add(t, c) \/ \E i \in Ids : Update(i, t, c)
  \/ \E i \in Ids : Delete(i)

Next ==
  \/ WriteNext \/ Boot \/ Dedupe \/ Crash \/ Migrate \/ Edit \/ SetCore \/ ClearDreams
  \/ \E d \in Dreamers : Pass(d)

Spec == Init /\ [][Next]_vars
-----------------------------------------------------------------------------
\* A dream pass removes a core fact only as a duplicate that a merge drops, even
\* one that became core while the model was asked ("core facts are never
\* pruned"), and never a fact a merge keeps, unless another group drops it.
Dropped(d) == UNION {g.drop : g \in answer[d].merge}
Removes(i) == \E k \in DOMAIN writes' : writes'[k].op = "facts" /\ writes'[k].facts[i] = None
DreamSpares == [][\A d \in Dreamers : pc[d] = "apply" /\ pc'[d] = "record" =>
  \A i \in There(docs) : Removes(i) =>
    /\ ReadFact(docs[i]).core => i \in Dropped(d)
    /\ i \in Dropped(d) \cup answer[d].pruned]_vars

\* No edit is undone and no removed fact comes back by what somebody read
\* before: when the lock is free every document reads as the text last given to
\* its fact would.
ReadText(t) == IF t \in Ruled THEN Blank ELSE t
NoStaleWrite == Free => \A i \in Ids :
  /\ docs[i] = None <=> text[i] = None
  /\ docs[i] # None => ReadFact(docs[i]).text = ReadText(text[i])

\* MEMORY.md lists the core facts, except from a crash in the middle of a save,
\* or the import of an older index, to the next save.  A text with '---' is
\* listed but not read back.
IndexAgrees == Free /\ ~cut => coreIndex \ Ruled = CoreTexts(Read)

\* No fact of an older version is lost, whenever the process dies during its
\* import: until somebody changes it, its file is there or its text is in a
\* document.
ImportComplete == calls = 0 /\ (\A d \in Dreamers : pc[d] = "new") =>
  \A f \in had : \/ oldFacts # None \/ f.text \in Ruled
                 \/ \E i \in There(docs) : docs[i].text = f.text
=============================================================================
