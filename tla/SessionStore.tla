---------------------------- MODULE SessionStore ----------------------------
(***************************************************************************)
(* SessionStore of app/conversation.py on the Vault of app/vault.py: the   *)
(* index of named sessions, their documents, the files of older versions   *)
(* it adopts or imports at startup, and the connections, replies and REST  *)
(* calls that use it.  app/migration.py, run by hand while the server is   *)
(* down, writes the same files.                                            *)
(*                                                                         *)
(* A turn is named after the reply that stores it, and a session's turns   *)
(* are a set (their order and their compaction are module Conversation).   *)
(* What a call does in memory under the store's lock is one step; what it  *)
(* writes follows file by file, and the lock is free again when all is     *)
(* written.  A crash drops what is not written yet.                        *)
(***************************************************************************)
EXTENDS Naturals, Sequences, FiniteSets

CONSTANTS Replies,      \* utterances and scheduled tasks; a turn is named after its reply
          Conns,        \* consoles
          Loop,         \* the event loop, on which REST calls and socket commands run
          OldTurns,     \* turns in the files of an older version
          Ruled,        \* turns with '---' in their text
          Labels,       \* names a session is given, besides NoName and RuledName
          NoName,       \* no name
          RuledName,    \* a name with '---' in it
          MaxId,        \* session ids, in the order in which _next_id tries them
          OldIds,       \* the sessions of an older version: data/sessions/<id>.json
          OldIndexed,   \* those of them that data/sessions.json lists
          OldFiles,     \* what the older version left
          MaxCalls,     \* commands and REST calls of one run, migrate() included
          MaxCrashes,
          None

Ids == 1 .. MaxId
Turns == Replies \cup OldTurns
Procs == Replies \cup {Loop}
Names == Labels \cup {NoName, RuledName}
Entry == [turns : Nat, name : Names]
Index == [active : Ids \cup {None}, entries : [Ids -> Entry \cup {None}]]

ASSUME SessionAssumption ==
  /\ MaxId \in Nat /\ MaxCalls \in Nat /\ MaxCrashes \in Nat
  /\ OldIds \subseteq Ids /\ OldIndexed \subseteq OldIds
  /\ IsFiniteSet(Turns) /\ Ruled \subseteq Turns
  /\ OldFiles \subseteq [one : (SUBSET OldTurns) \cup {None},    \* conversation.json
                         each : [OldIds -> (SUBSET OldTurns) \cup {None}]]   \* sessions/<id>.json
  /\ None \notin Ids /\ None \notin Conns /\ \A s \in SUBSET Turns : s # None
  /\ None \notin Entry /\ None \notin Index

VARIABLES
  \* files
  docs,       \* [id] the turns in sessions/<id>.md, or None
  saved,      \* sessions/index.md, or None
  old, marker,            \* the files of an older version; migration's .migrated
  \* memory
  up,         \* the server runs
  active, entries,        \* the index: [id] its entry, or None
  conv,       \* [id] the turns of its Conversation object, or None
  cached,     \* the sessions whose object the store hands out
  retired,    \* the ids deleted in this process
  base,       \* the first id of this second
  writes,     \* what the holder of the store's lock has still to write
  pc, at,     \* per reply: its thread, and the session of its Conversation object
  job,        \* per process: the switch under way
  shown, bound,           \* per console: session_id, and the session of its object
  crashes, calls,
  \* history
  used,       \* ids ever given out; read by the model as the clock
  kept,       \* [t] the sessions whose document has held t
  deleted,    \* the sessions deleted
  redone,     \* the sessions migrate() wrote
  had         \* the turns the older version left

files == <<docs, saved, old, marker>>
index == <<active, entries>>
objects == <<conv, cached>>
replyVars == <<pc, at>>
consoles == <<shown, bound>>
history == <<used, kept, deleted, redone, had>>
vars == <<files, up, index, objects, retired, base, writes, replyVars, job, consoles,
          crashes, calls, history>>

Steps == {"none", "check", "bind", "activate", "reopen"}
NoJob == [step |-> "none", conn |-> None, id |-> None, activate |-> FALSE]
Writes == [op : {"doc"}, id : Ids, turns : SUBSET Turns]
            \cup [op : {"copies"}, ids : SUBSET OldIds]
            \cup [op : {"remove"}, id : Ids] \cup [op : {"index"}, value : Index]
            \cup [op : {"unlink", "mark"}]

FilesType ==
  /\ docs \in [Ids -> (SUBSET Turns) \cup {None}] /\ saved \in Index \cup {None}
  /\ old \in [one : (SUBSET OldTurns) \cup {None},
              each : [OldIds -> (SUBSET OldTurns) \cup {None}]]
  /\ marker \in BOOLEAN
IndexType == active \in Ids \cup {None} /\ entries \in [Ids -> Entry \cup {None}]
StoreType ==
  /\ up \in BOOLEAN
  /\ conv \in [Ids -> (SUBSET Turns) \cup {None}] /\ cached \subseteq Ids
  /\ retired \subseteq Ids /\ base \in Nat /\ writes \in Seq(Writes)
ReplyType ==
  /\ pc \in [Replies -> {"new", "open", "run", "tool", "save", "note", "over"}]
  /\ at \in [Replies -> Ids \cup {None}]
ConsoleType ==
  /\ job \in [Procs -> [step : Steps, conn : Conns \cup {None}, id : Ids \cup {None},
                        activate : BOOLEAN]]
  /\ shown \in [Conns -> Ids \cup {None}] /\ bound \in [Conns -> Ids \cup {None}]
HistoryType ==
  /\ crashes \in Nat /\ calls \in Nat
  /\ used \subseteq Ids /\ kept \in [Turns -> SUBSET Ids]
  /\ deleted \subseteq Ids /\ redone \subseteq Ids /\ had \subseteq OldTurns

\* Every variable has its type.
TypeOK == FilesType /\ IndexType /\ StoreType /\ ReplyType /\ ConsoleType /\ HistoryType

\* sessions/<id>.json is there; nothing removes it.
OldFile(i) == i \in OldIds /\ old.each[i] # None

NoEntries == [i \in Ids |-> None]
Listed(es) == {i \in Ids : es[i] # None}

Init ==
  /\ docs = [i \in Ids |-> None] /\ saved = None /\ marker = FALSE
  /\ old \in OldFiles
  /\ up = FALSE /\ active = None /\ entries = NoEntries
  /\ conv = [i \in Ids |-> None] /\ cached = {} /\ retired = {} /\ base = 1 /\ writes = <<>>
  /\ pc = [r \in Replies |-> "new"] /\ at = [r \in Replies |-> None]
  /\ job = [p \in Procs |-> NoJob]
  /\ shown = [c \in Conns |-> None] /\ bound = [c \in Conns |-> None]
  /\ crashes = 0 /\ calls = 0
  /\ used = {i \in OldIds : OldFile(i)}
  /\ kept = [t \in Turns |-> {}] /\ deleted = {} /\ redone = {}
  /\ had = {t \in OldTurns : \/ old.one # None /\ t \in old.one
                            \/ \E i \in OldIds : old.each[i] # None /\ t \in old.each[i]}
-----------------------------------------------------------------------------
(* The vault *)

Doc(i, ts) == [op |-> "doc", id |-> i, turns |-> ts]
Copies(s) == [op |-> "copies", ids |-> s]   \* of old sessions' files, in any order
Removed(i) == [op |-> "remove", id |-> i]
SaveIndex(a, es) == [op |-> "index", value |-> [active |-> a, entries |-> es]]
Unlink == [op |-> "unlink"]

\* A document is written.
Written(i, ts) ==
  /\ docs' = [docs EXCEPT ![i] = ts]
  /\ kept' = [t \in Turns |-> IF t \in ts THEN kept[t] \cup {i} ELSE kept[t]]

\* Each file is replaced or removed at once.
WriteNext ==
  /\ writes # <<>>
  /\ LET w == Head(writes)
     IN /\ \/ w.op = "doc" /\ Written(w.id, w.turns) /\ writes' = Tail(writes)
           \/ w.op = "copies" /\ \E i \in w.ids :
                /\ Written(i, old.each[i])
                /\ writes' = IF w.ids = {i} THEN Tail(writes)
                             ELSE [writes EXCEPT ![1] = Copies(w.ids \ {i})]
           \/ /\ w.op \notin {"doc", "copies"}
              /\ docs' = IF w.op = "remove" THEN [docs EXCEPT ![w.id] = None] ELSE docs
              /\ writes' = Tail(writes)
              /\ UNCHANGED kept
        /\ saved' = IF w.op = "index" THEN w.value ELSE saved
        /\ old' = IF w.op = "unlink" THEN [old EXCEPT !.one = None] ELSE old
        /\ marker' = (marker \/ w.op = "mark")
  /\ UNCHANGED <<up, index, objects, retired, base, replyVars, job, consoles, crashes, calls,
                 used, deleted, redone, had>>

\* The frontmatter ends at the first '---' after its first line, wherever that
\* is: a list of turns that holds one does not parse, and none is read.
ReadTurns(ts) == IF ts \cap Ruled # {} THEN {} ELSE ts

\* Mutant: a session that has no document yet starts empty.
Stored_DocumentOnly(i) == IF docs[i] # None THEN ReadTurns(docs[i]) ELSE {}

\* Conversation._load: the document, else the file of an older version.
Stored(i) ==
  CASE docs[i] # None -> ReadTurns(docs[i])
    [] docs[i] = None /\ OldFile(i) -> old.each[i]
    [] OTHER -> {}
-----------------------------------------------------------------------------
(* Calls of the store; each takes its lock *)

Free == up /\ writes = <<>>

Called == calls < MaxCalls /\ calls' = calls + 1

\* Mutant: deleted ids are forgotten.
Taken_Listed(es, gone) == Listed(es)

Taken(es, gone) == Listed(es) \cup gone

\* _next_id, for as long as there are ids left.
IsNext(i, es, gone) ==
  i >= base /\ i \notin Taken(es, gone) /\ base .. i - 1 \subseteq Taken(es, gone)

\* Mutant: a new session has no name at all.
EmptyEntry_Unnamed == [turns |-> 0, name |-> None]

EmptyEntry == [turns |-> 0, name |-> NoName]

\* _new_conversation: the object, loaded and at once saved.
Opened(i) ==
  /\ conv' = [conv EXCEPT ![i] = Stored(i)]
  /\ cached' = cached \cup {i}

\* create
Create(a) ==
  /\ Free
  /\ \E i \in Ids :
       /\ IsNext(i, entries, retired)
       /\ Opened(i)
       /\ entries' = [entries EXCEPT ![i] = EmptyEntry] /\ used' = used \cup {i}
       /\ active' = IF a THEN i ELSE active
       /\ writes' = <<Doc(i, Stored(i)), SaveIndex(active', entries')>>
  /\ UNCHANGED <<files, up, retired, base, crashes, kept, deleted, redone, had>>

\* conversation_for, of a session that is listed.  What is loaded is saved before
\* anybody else gets the object.
Open(i) ==
  /\ Free
  /\ IF i \in cached THEN UNCHANGED <<objects, docs, kept>>
     ELSE Opened(i) /\ Written(i, Stored(i))
  /\ UNCHANGED <<saved, old, marker, up, index, retired, base, writes, crashes, used, deleted,
                 redone, had>>

Rename(i, n) ==
  /\ Free /\ entries[i] # None
  /\ entries' = [entries EXCEPT ![i].name = n]
  /\ writes' = <<SaveIndex(active, entries')>>
  /\ UNCHANGED <<files, up, active, objects, retired, base, crashes, history>>

\* set_active
Activate(i) ==
  /\ Free /\ entries[i] # None
  /\ active' = i
  /\ writes' = <<SaveIndex(i, entries)>>
  /\ UNCHANGED <<files, up, entries, objects, retired, base, crashes, history>>

\* The sessions that may become the active one: the one used last, left open here.
Successors(es) == Listed(es)

\* delete.  When no session is left the index is saved without any, and then a
\* new one is made.
Delete(i) ==
  LET es == [entries EXCEPT ![i] = None]
      gone == retired \cup {i}
  IN /\ Free /\ entries[i] # None
     /\ retired' = gone /\ deleted' = deleted \cup {i}
     /\ \/ /\ Listed(es) # {}
           /\ IF active = i THEN active' \in Successors(es) ELSE active' = active
           /\ entries' = es
           /\ cached' = cached \ {i}
           /\ writes' = <<Removed(i), SaveIndex(active', es)>>
           /\ UNCHANGED <<conv, used>>
        \/ /\ Listed(es) = {}
           /\ \E n \in Ids :
                LET fresh == [es EXCEPT ![n] = EmptyEntry]
                IN /\ IsNext(n, es, gone)
                   /\ active' = n /\ entries' = fresh
                   /\ conv' = [conv EXCEPT ![n] = Stored(n)]
                   /\ cached' = (cached \ {i}) \cup {n}
                   /\ used' = used \cup {n}
                   /\ writes' = <<Removed(i), SaveIndex(None, es), Doc(n, Stored(n)),
                                  SaveIndex(None, fresh), SaveIndex(n, fresh)>>
     /\ UNCHANGED <<files, up, base, crashes, kept, redone, had>>
-----------------------------------------------------------------------------
(* Startup *)

\* _load_index: a name with '---' in it makes the list of sessions unreadable.
SavedEntries ==
  IF \E i \in Ids : saved.entries[i] # None /\ saved.entries[i].name = RuledName
  THEN NoEntries ELSE saved.entries

ReadIndex ==
  IF saved # None THEN [active |-> saved.active, entries |-> SavedEntries]
  ELSE [active |-> None,     \* sessions.json, if there is one
        entries |-> [i \in Ids |->
          IF i \in OldIndexed /\ OldFile(i)
          THEN [turns |-> Cardinality(old.each[i]), name |-> NoName]
          ELSE None]]

\* Mutant: documents are not looked for, only the files of an older version.
Orphans_OldOnly == {i \in Ids : OldFile(i)}

Orphans == {i \in Ids : docs[i] # None \/ OldFile(i)}

\* _adopt_orphans: documents first, then the files of an older version.
Found == [i \in Ids |->
  IF ReadIndex.entries[i] = None /\ i \in Orphans
  THEN [turns |-> Cardinality(Stored(i)), name |-> NoName]
  ELSE ReadIndex.entries[i]]

\* The first id of the second in which the process, or migrate(), starts: later
\* than any id given out before.
IsNow(n) ==
  n \in 1 .. MaxId + 1 /\ (n .. MaxId) \cap used = {} /\ (n > 1 => n - 1 \in used)

\* _migrate_legacy: the imported session's document, empty and then with its
\* turns, the index, and only then the old file.
ImportWrites(n, es) ==
  <<Doc(n, Stored(n)), Doc(n, old.one), SaveIndex(n, es), Unlink>>

Import(n) ==
  /\ n \in Ids
  /\ active' = n
  /\ entries' = [Found EXCEPT ![n] = [EmptyEntry EXCEPT !.turns = Cardinality(old.one)]]
  /\ conv' = [conv EXCEPT ![n] = old.one] /\ cached' = {n}
  /\ writes' = ImportWrites(n, entries')
  /\ used' = used \cup {n}

\* An empty conversation.json just goes.
Tidy == IF old.one = {} THEN <<Unlink>> ELSE <<>>

\* There is no session: one is made, and made the active one.
First(n) ==
  /\ n \in Ids
  /\ active' = n
  /\ entries' = [Found EXCEPT ![n] = EmptyEntry]
  /\ conv' = [conv EXCEPT ![n] = Stored(n)] /\ cached' = {n}
  /\ writes' = Tidy \o <<Doc(n, Stored(n)), SaveIndex(ReadIndex.active, entries')>>
                 \o (IF ReadIndex.active = n THEN <<>> ELSE <<SaveIndex(n, entries')>>)
  /\ used' = used \cup {n}

Adopt ==
  /\ entries' = Found
  /\ IF ReadIndex.active \in Listed(Found)
     THEN active' = ReadIndex.active /\ writes' = Tidy
     ELSE /\ active' \in Listed(Found)
          /\ writes' = Tidy \o <<SaveIndex(active', Found)>>
  /\ UNCHANGED <<objects, used>>

\* SessionStore.__init__: load, adopt, import conversation.json, and see to it
\* that there is a session and that the active one is listed.
Start ==
  /\ ~up /\ writes = <<>>
  /\ up' = TRUE
  /\ retired' = {}
  /\ \E now \in 1 .. MaxId + 1 :
       /\ IsNow(now)
       /\ base' = now
       /\ IF old.one \notin {None, {}} THEN Import(now)
          ELSE IF Listed(Found) = {} THEN First(now) ELSE Adopt
  /\ UNCHANGED <<files, replyVars, job, consoles, crashes, calls, kept, deleted, redone, had>>

\* The process ends at any point (so does migrate()); its threads, objects and
\* connections are gone.
Crash ==
  /\ up \/ writes # <<>>
  /\ crashes < MaxCrashes
  /\ crashes' = crashes + 1
  /\ up' = FALSE /\ writes' = <<>>
  /\ active' = None /\ entries' = NoEntries
  /\ conv' = [i \in Ids |-> None] /\ cached' = {} /\ retired' = {}
  /\ pc' = [r \in Replies |-> IF pc[r] = "new" THEN "new" ELSE "over"]
  /\ at' = [r \in Replies |-> None]
  /\ job' = [p \in Procs |-> NoJob]
  /\ shown' = [c \in Conns |-> None] /\ bound' = [c \in Conns |-> None]
  /\ UNCHANGED <<files, base, calls, history>>
-----------------------------------------------------------------------------
(* migration.migrate, while the server is down *)

\* _migrate_sessions: conversation.json and then each session sessions.json
\* lists that has turns; the index, if there is none yet.
Migrate ==
  /\ Called
  /\ ~up /\ writes = <<>> /\ ~marker
  /\ \E now \in Ids :
       LET one == IF old.one \in {None, {}} THEN {} ELSE {now}
           each == {i \in OldIndexed : OldFile(i) /\ old.each[i] # {}}
           es == [i \in Ids |->
                    IF i \in each THEN [turns |-> Cardinality(old.each[i]), name |-> NoName]
                    ELSE IF i \in one THEN [turns |-> Cardinality(old.one), name |-> NoName]
                    ELSE None]
       IN /\ IsNow(now)
          /\ writes' = (IF one = {} THEN <<>> ELSE <<Doc(now, old.one)>>)
                       \o (IF each = {} THEN <<>> ELSE <<Copies(each)>>)
                       \o (IF one \cup each # {} /\ saved = None
                           THEN <<SaveIndex(IF one = {} THEN None ELSE now, es)>> ELSE <<>>)
                       \o <<[op |-> "mark"]>>
          /\ used' = used \cup one
          /\ redone' = redone \cup each
  /\ UNCHANGED <<files, up, index, objects, retired, base, replyVars, job, consoles, crashes,
                 kept, deleted, had>>

\* rollback: the marker goes, the documents stay.
Rollback ==
  /\ Called
  /\ ~up /\ writes = <<>> /\ marker
  /\ marker' = FALSE
  /\ UNCHANGED <<docs, saved, old, up, index, objects, retired, base, writes, replyVars, job,
                 consoles, crashes, history>>
-----------------------------------------------------------------------------
(* Connections: a switch is several calls of the store *)

Frame == UNCHANGED <<files, up, index, objects, retired, base, writes, crashes, history>>

Idle(p) == job[p].step = "none"

Ends(p) == job' = [job EXCEPT ![p] = NoJob]

Continue(p, s) == job' = [job EXCEPT ![p].step = s]

\* A reply with a tool call is in execute_conversation_tool while its job runs.
CanStart(p, c) ==
  /\ Idle(p)
  /\ IF p = Loop THEN TRUE ELSE pc[p] = "run" /\ shown[c] # None

EnterTool(p) == pc' = IF p = Loop THEN pc ELSE [pc EXCEPT ![p] = "tool"]

\* VoiceSession.__init__: the session asked for if it is known, else the active
\* one; its object is fetched in a second call.
Connect(c, i) ==
  /\ Called
  /\ Free /\ Idle(Loop) /\ shown[c] = None
  /\ LET id == IF entries[i] # None THEN i ELSE active
     IN /\ shown' = [shown EXCEPT ![c] = id]
        /\ job' = [job EXCEPT ![Loop] =
             [step |-> "bind", conn |-> c, id |-> id, activate |-> FALSE]]
  /\ UNCHANGED <<replyVars, bound>>
  /\ Frame

\* The session command or the tool switch_conversation.
Switch(p, c, i) ==
  /\ Called
  /\ Free /\ CanStart(p, c) /\ shown[c] # None /\ entries[i] # None
  /\ shown' = [shown EXCEPT ![c] = i]
  /\ job' = [job EXCEPT ![p] = [step |-> "bind", conn |-> c, id |-> i, activate |-> TRUE]]
  /\ EnterTool(p)
  /\ UNCHANGED <<at, bound>>
  /\ Frame

\* The session command without an id, or the tool create_conversation.
CreateHere(p, c) ==
  /\ Called
  /\ CanStart(p, c) /\ shown[c] # None
  /\ Create(TRUE)
  /\ job' = [job EXCEPT ![p] = [step |-> IF p = Loop THEN "reopen" ELSE "check",
                                conn |-> c, id |-> active', activate |-> FALSE]]
  /\ EnterTool(p)
  /\ UNCHANGED <<at, consoles>>

\* The tool delete_conversation; a session deleted under its own console is
\* followed by a switch to the active one.
DeleteHere(p, c, i) ==
  /\ Called
  /\ p # Loop /\ CanStart(p, c)
  /\ Delete(i)
  /\ job' = IF shown[c] = i
            THEN [job EXCEPT ![p] = [step |-> "check", conn |-> c, id |-> None,
                                     activate |-> FALSE]]
            ELSE job
  /\ pc' = [pc EXCEPT ![p] = IF shown[c] = i THEN "tool" ELSE "save"]
  /\ UNCHANGED <<at, consoles>>

\* switch_session, its first half: is the session known?
Check(p) ==
  /\ Free /\ job[p].step = "check"
  /\ LET i == IF job[p].id = None THEN active ELSE job[p].id
     IN IF entries[i] # None
        THEN /\ shown' = [shown EXCEPT ![job[p].conn] = i]
             /\ job' = [job EXCEPT ![p].step = "bind", ![p].id = i]
        ELSE Ends(p) /\ UNCHANGED shown
  /\ UNCHANGED <<replyVars, bound, calls>>
  /\ Frame

\* The session command sets session_id without looking.
Reopen(p) ==
  /\ job[p].step = "reopen"
  /\ shown' = [shown EXCEPT ![job[p].conn] = job[p].id]
  /\ Continue(p, "bind")
  /\ UNCHANGED <<replyVars, bound, calls>>
  /\ Frame

\* A KeyError on the loop ends the connection; in a tool it is the tool's answer.
Fails(p) ==
  /\ Ends(p)
  /\ IF p = Loop
     THEN /\ shown' = [shown EXCEPT ![job[p].conn] = None]
          /\ bound' = [bound EXCEPT ![job[p].conn] = None]
     ELSE UNCHANGED consoles
  /\ Frame

\* switch_session, its second half: the object.
Bind(p) ==
  /\ Free /\ job[p].step = "bind"
  /\ \/ /\ entries[job[p].id] # None
        /\ Open(job[p].id)
        /\ bound' = [bound EXCEPT ![job[p].conn] = job[p].id]
        /\ IF job[p].activate THEN Continue(p, "activate") ELSE Ends(p)
        /\ UNCHANGED shown
     \/ entries[job[p].id] = None /\ Fails(p)
  /\ UNCHANGED <<replyVars, calls>>

\* ... and set_active.
Select(p) ==
  /\ Free /\ job[p].step = "activate"
  /\ \/ Activate(job[p].id) /\ Ends(p) /\ UNCHANGED consoles
     \/ entries[job[p].id] = None /\ Fails(p)
  /\ UNCHANGED <<replyVars, calls>>

Disconnect(c) ==
  /\ Called
  /\ up /\ Idle(Loop) /\ shown[c] # None
  /\ shown' = [shown EXCEPT ![c] = None] /\ bound' = [bound EXCEPT ![c] = None]
  /\ UNCHANGED <<replyVars, job>>
  /\ Frame
-----------------------------------------------------------------------------
(* REST calls and replies *)

\* POST, rename, activate, DELETE and transcript of /api/sessions, and the
\* rename tool.
Rest ==
  /\ Called
  /\ Idle(Loop)
  /\ \/ \E a \in BOOLEAN : Create(a)
     \/ \E i \in Ids :
          \/ \E n \in Names : entries[i] # None /\ n # entries[i].name /\ Rename(i, n)
          \/ i # active /\ Activate(i)
          \/ Delete(i)
          \/ entries[i] # None /\ i \notin cached /\ Open(i)
  /\ UNCHANGED <<replyVars, job, consoles>>

\* An utterance keeps the object its console has now.
Begin(r, c) ==
  /\ up /\ pc[r] = "new" /\ bound[c] # None
  /\ pc' = [pc EXCEPT ![r] = "run"] /\ at' = [at EXCEPT ![r] = bound[c]]
  /\ UNCHANGED <<job, consoles, calls>>
  /\ Frame

\* A scheduled task of a known session (_run_task) ...
BeginTask(r, i) ==
  /\ Free /\ pc[r] = "new" /\ entries[i] # None
  /\ pc' = [pc EXCEPT ![r] = "open"] /\ at' = [at EXCEPT ![r] = i]
  /\ UNCHANGED <<job, consoles, calls>>
  /\ Frame

\* ... whose object is fetched in a second call; it fails with a KeyError.
OpenTask(r) ==
  /\ Free /\ pc[r] = "open"
  /\ \/ entries[at[r]] # None /\ Open(at[r]) /\ pc' = [pc EXCEPT ![r] = "save"]
     \/ entries[at[r]] = None /\ pc' = [pc EXCEPT ![r] = "over"] /\ Frame
  /\ UNCHANGED <<at, job, consoles, calls>>

\* The LLM has answered, or the tool call is over.
Answered(r) == pc[r] = "save" \/ (pc[r] \in {"run", "tool"} /\ Idle(r))

\* add_turn, under the lock of the conversation: the document ...
SaveTurn(r) ==
  /\ Answered(r)
  /\ \A s \in Replies : pc[s] = "note" => at[s] # at[r]
  /\ conv' = [conv EXCEPT ![at[r]] = @ \cup {r}]
  /\ Written(at[r], conv'[at[r]])
  /\ pc' = [pc EXCEPT ![r] = "note"]
  /\ UNCHANGED <<saved, old, marker, up, index, cached, retired, base, writes, at, job, consoles,
                 crashes, calls, used, deleted, redone, had>>

Noted(i) == IF entries[i] = None THEN None
            ELSE [entries[i] EXCEPT !.turns = Cardinality(conv[i])]

\* ... and then the store's lock and the index (_note_change).
Note(r) ==
  /\ Free /\ pc[r] = "note"
  /\ entries' = [entries EXCEPT ![at[r]] = Noted(at[r])]
  /\ writes' = IF Noted(at[r]) = None THEN <<>> ELSE <<SaveIndex(active, entries')>>
  /\ pc' = [pc EXCEPT ![r] = "over"]
  /\ UNCHANGED <<files, up, active, objects, retired, base, at, job, consoles, crashes, calls,
                 history>>

ToolOrLoop(p) ==
  \/ \E c \in Conns : CreateHere(p, c) \/ \E i \in Ids : Switch(p, c, i) \/ DeleteHere(p, c, i)
  \/ Check(p) \/ Reopen(p) \/ Bind(p) \/ Select(p)

Reply(r) ==
  \/ \E c \in Conns : Begin(r, c)
  \/ \E i \in Ids : BeginTask(r, i)
  \/ OpenTask(r) \/ SaveTurn(r) \/ Note(r)

Next ==
  \/ WriteNext \/ Start \/ Crash \/ Migrate \/ Rollback \/ Rest
  \/ \E p \in Procs : ToolOrLoop(p)
  \/ \E c \in Conns : Disconnect(c) \/ \E i \in Ids : Connect(c, i)
  \/ \E r \in Replies : Reply(r)

Spec == Init /\ [][Next]_vars
-----------------------------------------------------------------------------
\* What was ever written to a session's document is still in it, and what an
\* older version left is in its file or was written to a document, whatever
\* overlaps, whenever the process dies and however it starts again ("history is
\* not lost across upgrades or a lost index").  Not covered: a session that was
\* deleted, one migrate() wrote over, and one with '---' in a turn.
Excused(i) == i \in deleted \cup redone \/ \E u \in Ruled : i \in kept[u]
HistoryKept ==
  /\ \A t \in Turns : \A i \in kept[t] : ~Excused(i) => docs[i] # None /\ t \in docs[i]
  /\ \A t \in had : \/ old.one # None /\ t \in old.one
                    \/ \E i \in OldIds : OldFile(i) /\ docs[i] = None /\ t \in old.each[i]
                    \/ kept[t] # {}
                    \/ \E i \in deleted \cap OldIds : OldFile(i) /\ t \in old.each[i]

\* A listed name with '---' in it makes the index unreadable at the next start.
RuledIndex == \E i \in Ids : entries[i] # None /\ entries[i].name = RuledName

\* A restart, whenever the lock is free, finds the sessions that are listed now,
\* with their names and numbers of turns, and no others, except deleted ones an
\* older version's file or a late reply brings back.  A turn with '---' in it makes
\* its document read as empty, where the turns are counted anew.
RestartFinds == Free => \A i \in Ids :
  /\ entries[i] # None =>
       \/ Found[i] = entries[i]
       \/ RuledIndex /\ (docs[i] # None => Found[i] # None)
       \/ /\ Found[i] # None
          /\ \/ \E r \in Replies : pc[r] = "note" /\ at[r] = i
             \/ docs[i] # None /\ docs[i] \cap Ruled # {}
  /\ entries[i] = None /\ Found[i] # None =>
       i \in retired /\ (OldFile(i) \/ \E r \in Replies : at[r] = i /\ pc[r] \in {"note", "over"})

\* When the lock is free the active session is listed, and no session deleted in
\* this process is.
IndexSound == Free =>
  /\ active # None /\ entries[active] # None
  /\ \A i \in retired : entries[i] = None

\* Both: the index in memory is sound, and the files hold what it lists.
IndexKept == IndexSound /\ RestartFinds

\* Nothing of a session is left: no file and no thread can bring it back.
Final(i) ==
  /\ i \in deleted /\ docs[i] = None /\ ~OldFile(i)
  /\ entries[i] = None /\ (saved # None => saved.entries[i] = None)
  /\ \A r \in Replies : at[r] # i \/ pc[r] = "over"
  /\ \A c \in Conns : bound[c] # i

\* A deleted session of which nothing is left does not come back, and its id is
\* not used again (_retired: "never reused, even in the same second").
DeletionIsFinal == [][\A i \in Ids : Final(i) => Final(i)']_vars
=============================================================================
