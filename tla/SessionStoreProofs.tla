------------------------- MODULE SessionStoreProofs -------------------------
(***************************************************************************)
(* Proofs about SessionStore, for any number of sessions, consoles and     *)
(* replies, any old files and any crashes.                                 *)
(***************************************************************************)
EXTENDS SessionStore, SequenceTheorems, FiniteSetTheorems, TLAPS

(* Who holds a session's object *)

Live == {"run", "tool", "save", "note"}

\* A reply or a console has the Conversation object of session i.
Held(i) == \/ \E r \in Replies : pc[r] \in Live /\ at[r] = i
           \/ \E c \in Conns : bound[c] = i

\* The server's index, who may hold what, and the switches under way.
ServerInv ==
  /\ up => active \in Ids /\ entries[active] # None
  /\ ~up => entries = NoEntries /\ cached = {} /\ retired = {}
  /\ \A i \in retired : entries[i] = None
HolderInv ==
  /\ \A r \in Replies : pc[r] \in Live \cup {"open"} => up /\ at[r] \in Ids
  /\ \A c \in Conns : bound[c] # None => up
  /\ \A i \in Ids : i \in cached \/ Held(i) => conv[i] # None
JobInv ==
  /\ \A p \in Procs : job[p].step # "none" => up /\ job[p].conn \in Conns
  /\ \A p \in Procs : job[p].step \in {"bind", "activate", "reopen"} => job[p].id \in Ids

Typed == TypeOK /\ ServerInv /\ HolderInv /\ JobInv

(* The kinds of steps *)

\* What a step does to replies and consoles while the sessions in s are opened.
Goes(s) ==
  /\ ReplyType' /\ bound' \in [Conns -> Ids \cup {None}]
  /\ \A c \in Conns : bound'[c] \in s \cup {None, bound[c]}
  /\ \A r \in Replies :
       \/ pc'[r] = pc[r] /\ at'[r] = at[r]
       \/ /\ pc[r] = "new" /\ pc'[r] = "run"
          /\ \E c \in Conns : bound[c] # None /\ at'[r] = bound[c]
       \/ pc[r] = "new" /\ pc'[r] = "open" /\ at'[r] \in Ids /\ entries[at'[r]] # None
       \/ pc[r] = "open" /\ pc'[r] = "over" /\ at'[r] = at[r]
       \/ pc[r] = "open" /\ pc'[r] = "save" /\ at'[r] = at[r] /\ at[r] \in s
       \/ pc[r] \in {"run", "tool"} /\ pc'[r] \in {"tool", "save"} /\ at'[r] = at[r]

StoreStep ==
  \/ \E a \in BOOLEAN : Create(a) /\ Goes({})
  \/ \E i \in Ids, n \in Names : Rename(i, n) /\ Goes({})
  \/ \E i \in Ids : Activate(i) /\ Goes({})
  \/ \E i \in Ids : Delete(i) /\ Goes({})
  \/ \E i \in Ids : entries[i] # None /\ Open(i) /\ Goes({i})
  \/ Frame /\ Goes({})

LEMMA GoesStay == ASSUME TypeOK, UNCHANGED <<replyVars, consoles>> PROVE \A s : Goes(s)
BY DEF Goes, TypeOK, ReplyType, ConsoleType, replyVars, consoles

LEMMA GoesTool ==
  ASSUME TypeOK, NEW p \in Procs, NEW s \in {"tool", "save"}, NEW c, CanStart(p, c),
         pc' = IF p = Loop THEN pc ELSE [pc EXCEPT ![p] = s], UNCHANGED at, UNCHANGED bound
  PROVE  Goes({})
<1>1. CASE p = Loop
  BY <1>1, GoesStay DEF replyVars, consoles, Goes, TypeOK, ReplyType, ConsoleType
<1>2. CASE p # Loop
  <2>1. p \in Replies /\ pc[p] = "run" /\ pc' = [pc EXCEPT ![p] = s]
    BY <1>2 DEF Procs, CanStart
  <2>2. QED BY <2>1 DEF Goes, TypeOK, ReplyType, ConsoleType
<1>3. QED BY <1>1, <1>2

\* A command or a tool is one call of the store after the other.
LEMMA ToolStep == ASSUME Typed, NEW p \in Procs, ToolOrLoop(p) PROVE StoreStep
<1>1. ASSUME NEW c \in Conns, CreateHere(p, c) PROVE StoreStep
  <2>1. Create(TRUE) /\ Goes({})
    BY <1>1, GoesTool DEF CreateHere, EnterTool, Typed, consoles
  <2>2. QED BY <2>1 DEF StoreStep
<1>2. ASSUME NEW c \in Conns, NEW i \in Ids, Switch(p, c, i) PROVE StoreStep
  <2>1. Frame /\ Goes({})
    BY <1>2, GoesTool DEF Switch, EnterTool, Typed
  <2>2. QED BY <2>1 DEF StoreStep
<1>3. ASSUME NEW c \in Conns, NEW i \in Ids, DeleteHere(p, c, i) PROVE StoreStep
  <2>1. Delete(i)
    BY <1>3 DEF DeleteHere
  <2>2. p # Loop /\ CanStart(p, c) /\ UNCHANGED at /\ UNCHANGED bound
    BY <1>3 DEF DeleteHere, consoles
  <2>3. PICK s \in {"tool", "save"} : pc' = [pc EXCEPT ![p] = s]
    BY <1>3 DEF DeleteHere
  <2>4. Goes({})
    BY <2>2, <2>3, GoesTool DEF Typed
  <2>5. QED BY <2>1, <2>4 DEF StoreStep
<1>4. CASE Check(p)
  <2>1. Frame /\ UNCHANGED <<replyVars, bound>>
    BY <1>4 DEF Check
  <2>2. Goes({})
    BY <2>1 DEF Typed, Goes, TypeOK, ReplyType, ConsoleType, replyVars
  <2>3. QED BY <2>1, <2>2 DEF StoreStep
<1>5. CASE Reopen(p)
  <2>1. Frame /\ UNCHANGED <<replyVars, bound>>
    BY <1>5 DEF Reopen
  <2>2. Goes({})
    BY <2>1 DEF Typed, Goes, TypeOK, ReplyType, ConsoleType, replyVars
  <2>3. QED BY <2>1, <2>2 DEF StoreStep
<1>6. ASSUME Fails(p), UNCHANGED replyVars, job[p].conn \in Conns PROVE StoreStep
  <2>1. Frame
    BY <1>6 DEF Fails
  <2>2. bound' = bound \/ bound' = [bound EXCEPT ![job[p].conn] = None]
    BY <1>6 DEF Fails, consoles
  <2>3. bound \in [Conns -> Ids \cup {None}]
    BY DEF Typed, TypeOK, ConsoleType
  <2>4. bound' \in [Conns -> Ids \cup {None}] /\ \A c \in Conns : bound'[c] \in {None, bound[c]}
    BY <1>6, <2>2, <2>3
  <2>5. Goes({})
    BY <1>6, <2>4 DEF Typed, Goes, TypeOK, ReplyType, replyVars
  <2>6. QED BY <2>1, <2>5 DEF StoreStep
<1>7. CASE Bind(p)
  <2>1. UNCHANGED replyVars /\ job[p].conn \in Conns /\ job[p].id \in Ids /\ up
    BY <1>7 DEF Bind, Typed, JobInv
  <2>2. CASE Fails(p)
    BY <2>1, <2>2, <1>6
  <2>3. CASE ~Fails(p)
    <3>1. /\ entries[job[p].id] # None /\ Open(job[p].id)
          /\ bound' = [bound EXCEPT ![job[p].conn] = job[p].id]
      BY <1>7, <2>3 DEF Bind
    <3>2. bound \in [Conns -> Ids \cup {None}]
      BY DEF Typed, TypeOK, ConsoleType
    <3>3. /\ bound' \in [Conns -> Ids \cup {None}]
          /\ \A c \in Conns : bound'[c] \in {job[p].id} \cup {None, bound[c]}
      BY <2>1, <3>1, <3>2
    <3>4. Goes({job[p].id})
      BY <2>1, <3>3 DEF Typed, Goes, TypeOK, ReplyType, replyVars
    <3>5. QED BY <2>1, <3>1, <3>4 DEF StoreStep
  <2>4. QED BY <2>2, <2>3
<1>8. CASE Select(p)
  <2>1. UNCHANGED replyVars /\ job[p].conn \in Conns /\ job[p].id \in Ids
    BY <1>8 DEF Select, Typed, JobInv
  <2>2. CASE Fails(p)
    BY <2>1, <2>2, <1>6
  <2>3. CASE ~Fails(p)
    <3>1. Activate(job[p].id) /\ UNCHANGED consoles
      BY <1>8, <2>3 DEF Select
    <3>2. QED BY <2>1, <3>1, GoesStay DEF Typed, StoreStep
  <2>4. QED BY <2>2, <2>3
<1>9. QED BY <1>1, <1>2, <1>3, <1>4, <1>5, <1>7, <1>8 DEF ToolOrLoop

LEMMA RestStep == ASSUME Typed, Rest PROVE StoreStep
<1>1. \A s : Goes(s)
  BY GoesStay DEF Rest, Typed
<1>2. QED BY <1>1 DEF Rest, StoreStep

LEMMA ConsoleStep ==
  ASSUME Typed, NEW c \in Conns, Disconnect(c) \/ \E i \in Ids : Connect(c, i)
  PROVE  StoreStep
<1>1. /\ Frame /\ UNCHANGED replyVars
      /\ bound' = bound \/ bound' = [bound EXCEPT ![c] = None]
  BY DEF Disconnect, Connect
<1>2. bound \in [Conns -> Ids \cup {None}]
  BY DEF Typed, TypeOK, ConsoleType
<1>3. bound' \in [Conns -> Ids \cup {None}] /\ \A d \in Conns : bound'[d] \in {None, bound[d]}
  BY <1>1, <1>2
<1>4. Goes({})
  BY <1>1, <1>3 DEF Typed, Goes, TypeOK, ReplyType, replyVars
<1>5. QED BY <1>1, <1>4 DEF StoreStep

LEMMA ReplyStep ==
  ASSUME Typed, NEW r \in Replies, Reply(r)
  PROVE  StoreStep \/ SaveTurn(r) \/ Note(r)
<1>1. /\ pc \in [Replies -> {"new", "open", "run", "tool", "save", "note", "over"}]
      /\ at \in [Replies -> Ids \cup {None}] /\ bound \in [Conns -> Ids \cup {None}]
  BY DEF Typed, TypeOK, ReplyType, ConsoleType
<1>2. ASSUME NEW c \in Conns, Begin(r, c) PROVE StoreStep
  <2>1. /\ Frame /\ UNCHANGED bound /\ pc[r] = "new" /\ bound[c] # None
        /\ pc' = [pc EXCEPT ![r] = "run"] /\ at' = [at EXCEPT ![r] = bound[c]]
    BY <1>2 DEF Begin, consoles
  <2>2. Goes({})
    BY <1>1, <2>1 DEF Goes, ReplyType
  <2>3. QED BY <2>1, <2>2 DEF StoreStep
<1>3. ASSUME NEW i \in Ids, BeginTask(r, i) PROVE StoreStep
  <2>1. /\ Frame /\ UNCHANGED bound /\ pc[r] = "new" /\ entries[i] # None
        /\ pc' = [pc EXCEPT ![r] = "open"] /\ at' = [at EXCEPT ![r] = i]
    BY <1>3 DEF BeginTask, consoles
  <2>2. Goes({})
    BY <1>1, <2>1 DEF Goes, ReplyType
  <2>3. QED BY <2>1, <2>2 DEF StoreStep
<1>4. CASE OpenTask(r)
  <2>1. UNCHANGED <<at, bound>> /\ pc[r] = "open" /\ at[r] \in Ids
    BY <1>4 DEF OpenTask, consoles, Typed, HolderInv
  <2>2. CASE entries[at[r]] # None /\ Open(at[r]) /\ pc' = [pc EXCEPT ![r] = "save"]
    <3>1. Goes({at[r]})
      BY <1>1, <2>1, <2>2 DEF Goes, ReplyType
    <3>2. QED BY <2>1, <2>2, <3>1 DEF StoreStep
  <2>3. CASE pc' = [pc EXCEPT ![r] = "over"] /\ Frame
    <3>1. Goes({})
      BY <1>1, <2>1, <2>3 DEF Goes, ReplyType
    <3>2. QED BY <2>3, <3>1 DEF StoreStep
  <2>4. QED BY <1>4, <2>2, <2>3 DEF OpenTask
<1>5. QED BY <1>2, <1>3, <1>4 DEF Reply

\* Every step is one of the store's, of the files', of a reply, or a start or end.
LEMMA Kinds ==
  ASSUME Typed, Next
  PROVE  \/ WriteNext \/ Start \/ Crash \/ Migrate \/ Rollback \/ StoreStep
         \/ \E r \in Replies : SaveTurn(r) \/ Note(r)
BY ToolStep, RestStep, ConsoleStep, ReplyStep DEF Next

(* Values *)

LEMMA NoneApart ==
  /\ None \notin Ids /\ None \notin Conns /\ None \notin SUBSET Turns /\ None \notin Entry
  /\ None \notin Index /\ OldTurns \subseteq Turns /\ SUBSET OldTurns \subseteq SUBSET Turns
  /\ OldIds \subseteq Ids /\ Ids \subseteq Nat
BY SessionAssumption DEF Turns, Ids

LEMMA CountIs == ASSUME NEW s \in SUBSET Turns PROVE Cardinality(s) \in Nat /\ s # None
BY SessionAssumption, FS_Subset, FS_CardinalityType

LEMMA EntryIs ==
  /\ EmptyEntry \in Entry /\ EmptyEntry # None
  /\ \A s \in SUBSET Turns, n \in Names : [turns |-> Cardinality(s), name |-> n] \in Entry
  /\ \A s \in SUBSET Turns : [EmptyEntry EXCEPT !.turns = Cardinality(s)] \in Entry
  /\ NoName \in Names /\ \A e \in Entry : e # None
BY CountIs, NoneApart DEF EmptyEntry, Entry, Names

LEMMA WriteTypes ==
  /\ \A i \in Ids, ts \in SUBSET Turns : Doc(i, ts) \in Writes
  /\ \A s \in SUBSET OldIds : Copies(s) \in Writes
  /\ \A i \in Ids : Removed(i) \in Writes
  /\ \A a \in Ids \cup {None}, es \in [Ids -> Entry \cup {None}] : SaveIndex(a, es) \in Writes
  /\ Unlink \in Writes /\ [op |-> "mark"] \in Writes
BY DEF Writes, Doc, Copies, Removed, SaveIndex, Unlink, Index

LEMMA WriteFields ==
  ASSUME NEW w \in Writes
  PROVE  /\ w.op = "doc" => w.id \in Ids /\ w.turns \in SUBSET Turns
         /\ w.op = "copies" => w.ids \in SUBSET OldIds
         /\ w.op = "remove" => w.id \in Ids
         /\ w.op = "index" => w.value \in Index
BY DEF Writes

LEMMA OldType ==
  ASSUME FilesType
  PROVE  /\ old.one # None => old.one \in SUBSET OldTurns
         /\ \A i \in OldIds : old.each[i] \in (SUBSET OldTurns) \cup {None}
BY DEF FilesType

LEMMA StoredType == ASSUME FilesType, NEW i \in Ids PROVE Stored(i) \in SUBSET Turns
<1>1. CASE docs[i] # None
  <2>1. docs[i] \in SUBSET Turns /\ Stored(i) = ReadTurns(docs[i])
    BY <1>1 DEF FilesType, Stored
  <2>2. QED BY <2>1 DEF ReadTurns
<1>2. CASE docs[i] = None /\ OldFile(i)
  <2>1. Stored(i) = old.each[i] /\ i \in OldIds /\ old.each[i] # None
    BY <1>2 DEF Stored, OldFile
  <2>2. QED BY <2>1, OldType, NoneApart
<1>3. CASE docs[i] = None /\ ~OldFile(i)
  BY <1>3 DEF Stored
<1>4. QED BY <1>1, <1>2, <1>3

LEMMA ReadIndexType ==
  ASSUME FilesType
  PROVE  /\ ReadIndex.active \in Ids \cup {None}
         /\ ReadIndex.entries \in [Ids -> Entry \cup {None}]
<1>1. CASE saved # None
  <2>1. saved.active \in Ids \cup {None} /\ saved.entries \in [Ids -> Entry \cup {None}]
    BY <1>1 DEF FilesType, Index
  <2>2. SavedEntries \in [Ids -> Entry \cup {None}]
    BY <2>1 DEF SavedEntries, NoEntries
  <2>3. QED BY <1>1, <2>1, <2>2 DEF ReadIndex
<1>2. CASE saved = None
  <2>1. ASSUME NEW i \in Ids, i \in OldIndexed, OldFile(i)
        PROVE  [turns |-> Cardinality(old.each[i]), name |-> NoName] \in Entry
    BY <2>1, OldType, NoneApart, EntryIs DEF OldFile
  <2>2. QED BY <1>2, <2>1 DEF ReadIndex
<1>3. QED BY <1>1, <1>2

LEMMA FoundType == ASSUME FilesType PROVE Found \in [Ids -> Entry \cup {None}]
<1>1. ASSUME NEW i \in Ids
      PROVE  [turns |-> Cardinality(Stored(i)), name |-> NoName] \in Entry
  BY <1>1, StoredType, EntryIs
<1>2. ASSUME NEW i \in Ids PROVE ReadIndex.entries[i] \in Entry \cup {None}
  BY <1>2, ReadIndexType
<1>3. QED BY <1>1, <1>2 DEF Found

(* Sequences of writes *)

LEMMA TailIs ==
  ASSUME NEW S, NEW s \in Seq(S), s # <<>>
  PROVE  /\ Head(s) \in S /\ Tail(s) \in Seq(S) /\ Head(s) = s[1]
         /\ Len(s) \in Nat /\ Len(s) >= 1
         /\ DOMAIN s = 1 .. Len(s) /\ DOMAIN Tail(s) = 1 .. Len(s) - 1
         /\ \A k \in DOMAIN Tail(s) : Tail(s)[k] = s[k + 1] /\ k + 1 \in DOMAIN s
OBVIOUS

LEMMA Joined0 == ASSUME NEW S, NEW s \in Seq(S) PROVE <<>> \o s = s /\ s \o <<>> = s
OBVIOUS

LEMMA Joined2 ==
  ASSUME NEW S, NEW a \in S, NEW b \in S PROVE <<a>> \o <<b>> = <<a, b>>
<1> DEFINE s == <<a>> \o <<b>>
           t == <<a, b>>
<1>1. <<a>> \in Seq(S) /\ <<b>> \in Seq(S) /\ t \in Seq(S)
  OBVIOUS
<1>2. s \in Seq(S) /\ Len(s) = 2 /\ s[1] = a /\ s[2] = b
  BY <1>1
<1>3. Len(t) = 2 /\ t[1] = a /\ t[2] = b
  OBVIOUS
<1> HIDE DEF s, t
<1>4. \A i \in 1 .. Len(s) : s[i] = t[i]
  BY <1>2, <1>3
<1>5. s = t
  BY <1>1, <1>2, <1>3, <1>4, SeqEqual
<1>6. QED BY <1>5 DEF s, t

LEMMA Joined3 ==
  ASSUME NEW S, NEW a \in S, NEW b \in S, NEW c \in S
  PROVE  <<a>> \o <<b, c>> = <<a, b, c>> /\ <<a, b>> \o <<c>> = <<a, b, c>>
<1> DEFINE s == <<a>> \o <<b, c>>
           u == <<a, b>> \o <<c>>
           t == <<a, b, c>>
<1>1. /\ <<a>> \in Seq(S) /\ <<c>> \in Seq(S) /\ <<a, b>> \in Seq(S) /\ <<b, c>> \in Seq(S)
      /\ t \in Seq(S)
  OBVIOUS
<1>2. s \in Seq(S) /\ Len(s) = 3 /\ s[1] = a /\ s[2] = b /\ s[3] = c
  BY <1>1
<1>3. u \in Seq(S) /\ Len(u) = 3 /\ u[1] = a /\ u[2] = b /\ u[3] = c
  BY <1>1
<1>4. Len(t) = 3 /\ t[1] = a /\ t[2] = b /\ t[3] = c
  OBVIOUS
<1> HIDE DEF s, t, u
<1>5. (\A i \in 1 .. Len(s) : s[i] = t[i]) /\ (\A i \in 1 .. Len(u) : u[i] = t[i])
  BY <1>2, <1>3, <1>4
<1>6. s = t
  BY <1>1, <1>2, <1>4, <1>5, SeqEqual
<1>7. u = t
  BY <1>1, <1>3, <1>4, <1>5, SeqEqual
<1>8. QED BY <1>6, <1>7 DEF s, t, u

LEMMA Joined4 ==
  ASSUME NEW S, NEW a \in S, NEW b \in S, NEW c \in S, NEW d \in S
  PROVE  <<a, b, c>> \o <<d>> = <<a, b, c, d>>
<1> DEFINE s == <<a, b, c>> \o <<d>>
           t == <<a, b, c, d>>
<1>1. <<a, b, c>> \in Seq(S) /\ <<d>> \in Seq(S) /\ t \in Seq(S)
  OBVIOUS
<1>2. s \in Seq(S) /\ Len(s) = 4 /\ s[1] = a /\ s[2] = b /\ s[3] = c /\ s[4] = d
  BY <1>1
<1>3. Len(t) = 4 /\ t[1] = a /\ t[2] = b /\ t[3] = c /\ t[4] = d
  OBVIOUS
<1> HIDE DEF s, t
<1>4. \A i \in 1 .. Len(s) : s[i] = t[i]
  BY <1>2, <1>3
<1>5. s = t
  BY <1>1, <1>2, <1>3, <1>4, SeqEqual
<1>6. QED BY <1>5 DEF s, t

\* What migrate() writes, as one of its parts or a part of a tuple.
OldEach == {i \in OldIndexed : OldFile(i) /\ old.each[i] # {}}
Mark == [op |-> "mark"]

LEMMA MigrateIs ==
  ASSUME FilesType, Migrate
  PROVE  /\ ~up /\ up' = up /\ writes = <<>> /\ writes' \in Seq(Writes)
         /\ OldEach \subseteq OldIds /\ redone' = redone \cup OldEach
         /\ \E now \in Ids, es \in [Ids -> Entry \cup {None}] :
              /\ IsNow(now)
              /\ used' = used \cup (IF old.one \in {None, {}} THEN {} ELSE {now})
              /\ \A i \in Ids :
                   es[i] # None => i \in OldEach \/ (i = now /\ old.one \notin {None, {}})
              /\ \A k \in DOMAIN writes' :
                   \/ writes'[k] = Mark \/ writes'[k] = Copies(OldEach)
                   \/ \E a \in Ids \cup {None} : writes'[k] = SaveIndex(a, es)
                   \/ k = 1 /\ old.one \notin {None, {}} /\ writes'[k] = Doc(now, old.one)
<1> DEFINE one(now) == IF old.one \in {None, {}} THEN {} ELSE {now}
           es(now) == [i \in Ids |->
                    IF i \in OldEach THEN [turns |-> Cardinality(old.each[i]), name |-> NoName]
                    ELSE IF i \in one(now) THEN [turns |-> Cardinality(old.one), name |-> NoName]
                    ELSE None]
           d(now) == Doc(now, old.one)
           c == Copies(OldEach)
           x(now) == SaveIndex(IF one(now) = {} THEN None ELSE now, es(now))
<1>1. PICK now \in Ids :
        /\ IsNow(now)
        /\ writes' = (IF one(now) = {} THEN <<>> ELSE <<d(now)>>)
                     \o (IF OldEach = {} THEN <<>> ELSE <<c>>)
                     \o (IF one(now) \cup OldEach # {} /\ saved = None THEN <<x(now)>> ELSE <<>>)
                     \o <<Mark>>
        /\ used' = used \cup one(now) /\ redone' = redone \cup OldEach
  BY DEF Migrate, OldEach, Mark
<1>2. OldEach \subseteq OldIds /\ \A i \in OldEach : old.each[i] \in SUBSET OldTurns
  BY OldType, SessionAssumption DEF OldEach, OldFile
<1>3. es(now) \in [Ids -> Entry \cup {None}]
  <2>1. ASSUME NEW i \in OldEach
        PROVE  [turns |-> Cardinality(old.each[i]), name |-> NoName] \in Entry
    BY <1>2, NoneApart, EntryIs
  <2>2. ASSUME old.one # None
        PROVE  [turns |-> Cardinality(old.one), name |-> NoName] \in Entry
    BY <2>2, OldType, NoneApart, EntryIs
  <2>3. QED BY <2>1, <2>2
<1>4. \A i \in Ids : es(now)[i] # None => i \in OldEach \/ (i = now /\ old.one \notin {None, {}})
  OBVIOUS
<1>5. /\ one(now) # {} => d(now) \in Writes
      /\ c \in Writes /\ x(now) \in Writes /\ Mark \in Writes
      /\ \E a \in Ids \cup {None} : x(now) = SaveIndex(a, es(now))
  <2>1. one(now) # {} => d(now) \in Writes
    BY OldType, NoneApart, WriteTypes
  <2>2. c \in Writes
    BY <1>2, WriteTypes
  <2>3. Mark \in Writes
    BY WriteTypes DEF Mark
  <2> HIDE DEF es
  <2>4. x(now) \in Writes
    BY <1>3, WriteTypes
  <2>5. QED BY <2>1, <2>2, <2>3, <2>4
<1>6. one(now) # {} => old.one \notin {None, {}}
  OBVIOUS
<1> DEFINE dn == d(now)
           xn == x(now)
<1> HIDE DEF one, es, d, c, x
<1>7. /\ one(now) = {} => <<>> \in Seq(Writes)
      /\ one(now) # {} => <<dn>> \in Seq(Writes)
      /\ <<c>> \in Seq(Writes) /\ <<xn>> \in Seq(Writes)  /\ <<Mark>> \in Seq(Writes)
  BY <1>5
<1> HIDE DEF dn, xn
<1> DEFINE in(k, w) == \/ w = Mark \/ w = c \/ w = xn \/ (k = 1 /\ one(now) # {} /\ w = dn)
<1>8. writes' \in Seq(Writes) /\ \A k \in DOMAIN writes' : in(k, writes'[k])
  <2>1. Mark \in Writes /\ c \in Writes /\ xn \in Writes
    BY <1>5 DEF xn
  <2>2. CASE one(now) = {} /\ OldEach = {}
    <3>1. writes' = <<>> \o <<>> \o <<>> \o <<Mark>>
      BY <1>1, <2>2
    <3>2. writes' = <<Mark>>
      BY <1>7, <3>1, Joined0
    <3>3. QED BY <2>1, <3>2
  <2>3. CASE one(now) = {} /\ OldEach # {} /\ saved # None
    <3>1. writes' = <<>> \o <<c>> \o <<>> \o <<Mark>>
      BY <1>1, <2>3
    <3>2. <<>> \o <<c>> = <<c>> /\ <<c>> \o <<>> = <<c>> /\ <<c>> \o <<Mark>> = <<c, Mark>>
      BY <2>1, <1>7, Joined0, Joined2
    <3>4. writes' = <<c, Mark>>
      BY <3>1, <3>2
    <3>3. QED BY <2>1, <3>4
  <2>4. CASE one(now) = {} /\ OldEach # {} /\ saved = None
    <3>1. writes' = <<>> \o <<c>> \o <<xn>> \o <<Mark>>
      BY <1>1, <2>4 DEF xn
    <3>2. /\ <<>> \o <<c>> = <<c>> /\ <<c>> \o <<xn>> = <<c, xn>>
          /\ <<c, xn>> \o <<Mark>> = <<c, xn, Mark>>
      <4>1. <<>> \o <<c>> = <<c>>
        BY <1>7, Joined0
      <4>2. <<c>> \o <<xn>> = <<c, xn>>
        BY <2>1, Joined2
      <4>3. <<c, xn>> \o <<Mark>> = <<c, xn, Mark>>
        BY <2>1, Joined3
      <4>4. QED BY <4>1, <4>2, <4>3
    <3>4. writes' = <<c, xn, Mark>>
      BY <3>1, <3>2
    <3>3. QED BY <2>1, <3>4
  <2>5. CASE one(now) # {}
    <3>0. dn \in Writes
      BY <1>5, <2>5 DEF dn
    <3>6. <<dn>> \o <<>> = <<dn>> /\ <<dn>> \o <<Mark>> = <<dn, Mark>>
      BY <2>1, <2>5, <1>7, <3>0, Joined0, Joined2
    <3>7. /\ <<dn>> \o <<xn>> = <<dn, xn>> /\ <<dn, xn>> \o <<Mark>> = <<dn, xn, Mark>>
          /\ <<dn>> \o <<c>> = <<dn, c>> /\ <<dn, c>> \o <<Mark>> = <<dn, c, Mark>>
      BY <2>1, <3>0, Joined2, Joined3
    <3>8. /\ <<dn, c>> \o <<>> = <<dn, c>> /\ <<dn, c>> \o <<xn>> = <<dn, c, xn>>
          /\ <<dn, c, xn>> \o <<Mark>> = <<dn, c, xn, Mark>>
      <4>1. <<dn, c>> \in Seq(Writes)
        BY <2>1, <3>0
      <4>2. <<dn, c>> \o <<>> = <<dn, c>>
        BY <4>1, Joined0
      <4>3. <<dn, c>> \o <<xn>> = <<dn, c, xn>>
        BY <2>1, <3>0, Joined3
      <4>4. <<dn, c, xn>> \o <<Mark>> = <<dn, c, xn, Mark>>
        BY <2>1, <3>0, Joined4
      <4>5. QED BY <4>2, <4>3, <4>4
    <3>1. CASE OldEach = {} /\ saved # None
      <4>1. writes' = <<dn>> \o <<>> \o <<>> \o <<Mark>>
        BY <1>1, <2>5, <3>1 DEF dn
      <4>2. writes' = <<dn, Mark>>
        BY <3>6, <4>1
      <4>3. QED BY <2>1, <2>5, <3>0, <4>2
    <3>2. CASE OldEach = {} /\ saved = None
      <4>1. writes' = <<dn>> \o <<>> \o <<xn>> \o <<Mark>>
        BY <1>1, <2>5, <3>2 DEF dn, xn
      <4>2. writes' = <<dn, xn, Mark>>
        BY <3>6, <3>7, <4>1
      <4>3. QED BY <2>1, <2>5, <3>0, <4>2
    <3>3. CASE OldEach # {} /\ saved # None
      <4>1. writes' = <<dn>> \o <<c>> \o <<>> \o <<Mark>>
        BY <1>1, <2>5, <3>3 DEF dn
      <4>2. writes' = <<dn, c, Mark>>
        BY <3>7, <3>8, <4>1
      <4>3. QED BY <2>1, <2>5, <3>0, <4>2
    <3>4. CASE OldEach # {} /\ saved = None
      <4>1. writes' = <<dn>> \o <<c>> \o <<xn>> \o <<Mark>>
        BY <1>1, <2>5, <3>4 DEF dn, xn
      <4>2. writes' = <<dn, c, xn, Mark>>
        BY <3>7, <3>8, <4>1
      <4>3. QED BY <2>1, <2>5, <3>0, <4>2
    <3>5. QED BY <3>1, <3>2, <3>3, <3>4
  <2>6. QED BY <2>2, <2>3, <2>4, <2>5
<1>9. \A k \in DOMAIN writes' :
        \/ writes'[k] = Mark \/ writes'[k] = Copies(OldEach)
        \/ \E a \in Ids \cup {None} : writes'[k] = SaveIndex(a, es(now))
        \/ k = 1 /\ old.one \notin {None, {}} /\ writes'[k] = Doc(now, old.one)
  BY <1>5, <1>6, <1>8 DEF xn, dn, c, d
<1>10. used' = used \cup (IF old.one \in {None, {}} THEN {} ELSE {now})
  BY <1>1 DEF one
<1>11. ~up /\ up' = up /\ writes = <<>>
  BY DEF Migrate
<1>12. QED BY <1>1, <1>2, <1>3, <1>4, <1>8, <1>9, <1>10, <1>11

LEMMA TidyIs == /\ old.one = {} => Tidy = <<Unlink>>
                /\ old.one # {} => Tidy = <<>>
BY DEF Tidy

\* The first session of a server that has none.
LEMMA FirstIs ==
  ASSUME FilesType, NEW n \in Ids, First(n), entries' \in [Ids -> Entry \cup {None}]
  PROVE  \E a \in Ids \cup {None} :
           LET d == Doc(n, Stored(n))
               x == SaveIndex(a, entries')
               y == SaveIndex(n, entries')
           IN \/ writes' = <<d, x>> /\ a = n
              \/ writes' = <<d, x, y>>
              \/ writes' = <<Unlink, d, x>> /\ old.one = {} /\ a = n
              \/ writes' = <<Unlink, d, x, y>> /\ old.one = {}
<1> DEFINE a == ReadIndex.active
           d == Doc(n, Stored(n))
           x == SaveIndex(a, entries')
           y == SaveIndex(n, entries')
<1>1. a \in Ids \cup {None}
  BY ReadIndexType
<1>2. d \in Writes /\ x \in Writes /\ y \in Writes /\ Unlink \in Writes
  <2>1. d \in Writes
    BY StoredType, WriteTypes
  <2>2. x \in Writes /\ y \in Writes /\ Unlink \in Writes
    BY <1>1, WriteTypes
  <2>3. QED BY <2>1, <2>2
<1>3. writes' = Tidy \o <<d, x>> \o (IF a = n THEN <<>> ELSE <<y>>)
  BY DEF First
<1> HIDE DEF a, d, x, y
<1>4. /\ <<d, x>> \in Seq(Writes) /\ <<Unlink, d, x>> \in Seq(Writes)
      /\ <<y>> \in Seq(Writes)
  BY <1>2
<1>9. /\ <<>> \o <<d, x>> = <<d, x>> /\ <<d, x>> \o <<>> = <<d, x>>
      /\ <<d, x>> \o <<y>> = <<d, x, y>> /\ <<Unlink>> \o <<d, x>> = <<Unlink, d, x>>
      /\ <<Unlink, d, x>> \o <<>> = <<Unlink, d, x>>
      /\ <<Unlink, d, x>> \o <<y>> = <<Unlink, d, x, y>>
  <2>1. /\ <<>> \o <<d, x>> = <<d, x>> /\ <<d, x>> \o <<>> = <<d, x>>
        /\ <<Unlink, d, x>> \o <<>> = <<Unlink, d, x>>
    BY <1>4, Joined0
  <2>2. <<d, x>> \o <<y>> = <<d, x, y>> /\ <<Unlink>> \o <<d, x>> = <<Unlink, d, x>>
    BY <1>2, Joined3
  <2>3. <<Unlink, d, x>> \o <<y>> = <<Unlink, d, x, y>>
    BY <1>2, Joined4
  <2>4. QED BY <2>1, <2>2, <2>3
<1>5. CASE old.one = {} /\ a = n
  <2>1. writes' = <<Unlink>> \o <<d, x>> \o <<>>
    BY <1>3, <1>5, TidyIs
  <2>2. writes' = <<Unlink, d, x>>
    BY <1>9, <2>1
  <2>3. QED BY <1>1, <1>5, <2>2 DEF d, x, y
<1>6. CASE old.one = {} /\ a # n
  <2>1. writes' = <<Unlink>> \o <<d, x>> \o <<y>>
    BY <1>3, <1>6, TidyIs
  <2>2. writes' = <<Unlink, d, x, y>>
    BY <1>9, <2>1
  <2>3. QED BY <1>1, <1>6, <2>2 DEF d, x, y
<1>7. CASE old.one # {} /\ a = n
  <2>1. writes' = <<>> \o <<d, x>> \o <<>>
    BY <1>3, <1>7, TidyIs
  <2>2. writes' = <<d, x>>
    BY <1>9, <2>1
  <2>3. QED BY <1>1, <1>7, <2>2 DEF d, x, y
<1>8. CASE old.one # {} /\ a # n
  <2>1. writes' = <<>> \o <<d, x>> \o <<y>>
    BY <1>3, <1>8, TidyIs
  <2>2. writes' = <<d, x, y>>
    BY <1>9, <2>1
  <2>3. QED BY <1>1, <1>8, <2>2 DEF d, x, y
<1>10. QED BY <1>5, <1>6, <1>7, <1>8

LEMMA AdoptIs ==
  ASSUME FilesType, Adopt, Listed(Found) # {}
  PROVE  /\ entries' = Found /\ active' \in Listed(Found)
         /\ LET y == SaveIndex(active', Found)
            IN \/ writes' = <<>>
               \/ writes' = <<Unlink>> /\ old.one = {}
               \/ writes' = <<y>>
               \/ writes' = <<Unlink, y>> /\ old.one = {}
<1> DEFINE y == SaveIndex(active', Found)
<1>1. /\ entries' = Found /\ active' \in Listed(Found)
      /\ writes' = Tidy \/ writes' = Tidy \o <<y>>
  BY DEF Adopt
<1>2. y \in Writes /\ Unlink \in Writes
  BY <1>1, FoundType, WriteTypes DEF Listed
<1> HIDE DEF y
<1>3. <<y>> \in Seq(Writes)
  BY <1>2
<1>4. <<>> \o <<y>> = <<y>> /\ <<Unlink>> \o <<y>> = <<Unlink, y>>
  BY <1>2, <1>3, Joined0, Joined2
<1>5. \/ writes' = <<>>
      \/ writes' = <<Unlink>> /\ old.one = {}
      \/ writes' = <<y>>
      \/ writes' = <<Unlink, y>> /\ old.one = {}
  BY <1>1, <1>4, TidyIs
<1>6. QED BY <1>1, <1>5 DEF y

(* Types *)

DocsType == docs \in [Ids -> (SUBSET Turns) \cup {None}] /\ kept \in [Turns -> SUBSET Ids]

LEMMA WrittenType ==
  ASSUME DocsType, NEW i \in Ids, NEW ts \in (SUBSET Turns) \cup {None}, Written(i, ts)
  PROVE  DocsType'
BY DEF DocsType, Written

LEMMA TypeParts ==
  ASSUME TypeOK
  PROVE  FilesType /\ IndexType /\ StoreType /\ ReplyType /\ ConsoleType /\ HistoryType /\ DocsType
BY DEF TypeOK, FilesType, HistoryType, DocsType

\* One write is done and gone, or one of several copies.
LEMMA WriteSeq ==
  ASSUME StoreType, WriteNext
  PROVE  /\ writes \in Seq(Writes) /\ writes # <<>> /\ writes' \in Seq(Writes)
         /\ 1 \in DOMAIN writes /\ writes[1] \in Writes /\ Head(writes) = writes[1]
         /\ Len(writes) \in Nat /\ DOMAIN writes = 1 .. Len(writes)
         /\ \/ /\ DOMAIN writes' = 1 .. Len(writes) - 1
               /\ \A k \in DOMAIN writes' : k + 1 \in DOMAIN writes /\ writes'[k] = writes[k + 1]
            \/ /\ writes[1].op = "copies" /\ DOMAIN writes' = DOMAIN writes
               /\ \A k \in DOMAIN writes' : k # 1 => writes'[k] = writes[k]
               /\ \E i \in writes[1].ids : writes'[1] = Copies(writes[1].ids \ {i})
<1>1. writes \in Seq(Writes) /\ writes # <<>>
  BY DEF StoreType, WriteNext
<1>2. /\ writes[1] \in Writes /\ Head(writes) = writes[1] /\ 1 \in DOMAIN writes
      /\ Len(writes) \in Nat /\ DOMAIN writes = 1 .. Len(writes)
      /\ Tail(writes) \in Seq(Writes) /\ DOMAIN Tail(writes) = 1 .. Len(writes) - 1
      /\ \A k \in DOMAIN Tail(writes) : Tail(writes)[k] = writes[k + 1] /\ k + 1 \in DOMAIN writes
  BY <1>1, TailIs
<1>3. CASE writes' = Tail(writes)
  BY <1>1, <1>2, <1>3
<1>4. CASE writes' # Tail(writes)
  <2>1. PICK i \in writes[1].ids :
          writes[1].op = "copies" /\ writes' = [writes EXCEPT ![1] = Copies(writes[1].ids \ {i})]
    BY <1>2, <1>4 DEF WriteNext
  <2>2. writes[1].ids \in SUBSET OldIds
    BY <1>2, <2>1, WriteFields
  <2>3. Copies(writes[1].ids \ {i}) \in Writes
    BY <2>2, WriteTypes
  <2> DEFINE x == Copies(writes[1].ids \ {i})
  <2>4. x \in Writes /\ writes' = [writes EXCEPT ![1] = x]
    BY <2>1, <2>3
  <2>5. x = Copies(writes[1].ids \ {i})
    OBVIOUS
  <2> HIDE DEF x
  <2>6. /\ writes' \in Seq(Writes) /\ DOMAIN writes' = DOMAIN writes /\ writes'[1] = x
        /\ \A k \in DOMAIN writes' : k # 1 => writes'[k] = writes[k]
    BY <1>1, <1>2, <2>4
  <2>7. QED BY <1>1, <1>2, <2>1, <2>5, <2>6
<1>5. QED BY <1>3, <1>4

\* What a write does to the files.
LEMMA WriteFiles ==
  ASSUME TypeOK, WriteNext
  PROVE  /\ old'.each = old.each /\ old'.one \in {None, old.one} /\ FilesType'
         /\ \/ /\ writes[1].op = "doc" /\ Written(writes[1].id, writes[1].turns)
               /\ writes[1].id \in Ids /\ writes[1].turns \in SUBSET Turns
            \/ /\ writes[1].op = "copies"
               /\ \E i \in writes[1].ids : i \in OldIds /\ Written(i, old.each[i])
            \/ /\ writes[1].op = "remove" /\ writes[1].id \in Ids
               /\ docs' = [docs EXCEPT ![writes[1].id] = None] /\ UNCHANGED kept
            \/ writes[1].op \notin {"doc", "copies", "remove"} /\ UNCHANGED <<docs, kept>>
         /\ saved' = IF writes[1].op = "index" THEN writes[1].value ELSE saved
         /\ old' = IF writes[1].op = "unlink" THEN [old EXCEPT !.one = None] ELSE old
         /\ DocsType'
<1> DEFINE w == writes[1]
<1>1. w \in Writes /\ Head(writes) = w
  BY WriteSeq, TypeParts
<1>2. /\ saved' = IF w.op = "index" THEN w.value ELSE saved
      /\ old' = IF w.op = "unlink" THEN [old EXCEPT !.one = None] ELSE old
      /\ marker' = (marker \/ w.op = "mark")
      /\ \/ w.op = "doc" /\ Written(w.id, w.turns)
         \/ w.op = "copies" /\ \E i \in w.ids : Written(i, old.each[i])
         \/ /\ w.op \notin {"doc", "copies"}
            /\ docs' = IF w.op = "remove" THEN [docs EXCEPT ![w.id] = None] ELSE docs
            /\ UNCHANGED kept
  BY <1>1 DEF WriteNext
<1> HIDE DEF w
<1>3. /\ w.op = "doc" => w.id \in Ids /\ w.turns \in SUBSET Turns
      /\ w.op = "copies" => w.ids \in SUBSET OldIds
      /\ w.op = "remove" => w.id \in Ids
      /\ w.op = "index" => w.value \in Index
  BY <1>1, WriteFields
<1>4. FilesType /\ DocsType
  BY TypeParts
<1>5. \/ w.op = "doc" /\ Written(w.id, w.turns) /\ w.id \in Ids /\ w.turns \in SUBSET Turns
      \/ w.op = "copies" /\ \E i \in w.ids : i \in OldIds /\ Written(i, old.each[i])
      \/ /\ w.op = "remove" /\ w.id \in Ids
         /\ docs' = [docs EXCEPT ![w.id] = None] /\ UNCHANGED kept
      \/ w.op \notin {"doc", "copies", "remove"} /\ UNCHANGED <<docs, kept>>
  BY <1>2, <1>3
<1>6. DocsType'
  <2>1. CASE w.op = "doc" /\ Written(w.id, w.turns) /\ w.id \in Ids /\ w.turns \in SUBSET Turns
    BY <1>4, <2>1, WrittenType
  <2>2. ASSUME NEW i \in OldIds, Written(i, old.each[i]) PROVE DocsType'
    <3>1. i \in Ids /\ old.each[i] \in (SUBSET Turns) \cup {None}
      BY <1>4, OldType, NoneApart
    <3>2. QED BY <1>4, <2>2, <3>1, WrittenType
  <2>3. CASE /\ w.op = "remove" /\ w.id \in Ids
             /\ docs' = [docs EXCEPT ![w.id] = None] /\ UNCHANGED kept
    BY <1>4, <2>3 DEF DocsType
  <2>4. CASE UNCHANGED <<docs, kept>>
    BY <1>4, <2>4 DEF DocsType
  <2>5. QED BY <1>5, <2>1, <2>2, <2>3, <2>4
<1>7. saved' \in Index \cup {None}
  BY <1>2, <1>3, <1>4 DEF FilesType
<1>8. /\ old' \in [one : (SUBSET OldTurns) \cup {None},
                   each : [OldIds -> (SUBSET OldTurns) \cup {None}]]
      /\ old'.each = old.each /\ old'.one \in {None, old.one}
  BY <1>2, <1>4 DEF FilesType
<1>9. marker' \in BOOLEAN
  BY <1>2
<1>10. FilesType'
  BY <1>6, <1>7, <1>8, <1>9 DEF FilesType, DocsType
<1>11. QED BY <1>2, <1>5, <1>6, <1>8, <1>10 DEF w

LEMMA OpenIs ==
  ASSUME TypeOK, NEW i \in Ids, Open(i)
  PROVE  /\ FilesType' /\ DocsType' /\ old' = old
         /\ conv' \in [Ids -> (SUBSET Turns) \cup {None}] /\ cached' = cached \cup {i}
         /\ i \in cached => UNCHANGED <<conv, docs, kept>>
         /\ i \notin cached => /\ conv' = [conv EXCEPT ![i] = Stored(i)] /\ Written(i, Stored(i))
                               /\ docs' = [docs EXCEPT ![i] = Stored(i)]
<1>1. FilesType /\ StoreType /\ DocsType
  BY TypeParts
<1>2. Stored(i) \in SUBSET Turns
  BY <1>1, StoredType
<1>3. CASE i \in cached
  BY <1>1, <1>3 DEF Open, objects, FilesType, DocsType, StoreType
<1>4. CASE i \notin cached
  <2>1. Opened(i) /\ Written(i, Stored(i)) /\ UNCHANGED <<saved, old, marker>>
    BY <1>4 DEF Open
  <2>2. DocsType'
    BY <1>1, <1>2, <2>1, WrittenType
  <2>3. FilesType'
    BY <1>1, <2>1, <2>2 DEF FilesType, DocsType
  <2>4. QED BY <1>1, <1>2, <1>4, <2>1, <2>2, <2>3 DEF Opened, StoreType, Written
<1>5. QED BY <1>3, <1>4

LEMMA SaveTurnIs ==
  ASSUME Typed, NEW r \in Replies, SaveTurn(r)
  PROVE  /\ at[r] \in Ids /\ pc[r] \in Live /\ up /\ Held(at[r])
         /\ conv[at[r]] \in SUBSET Turns /\ r \in Turns
         /\ conv' = [conv EXCEPT ![at[r]] = conv[at[r]] \cup {r}]
         /\ Written(at[r], conv[at[r]] \cup {r})
         /\ docs' = [docs EXCEPT ![at[r]] = conv[at[r]] \cup {r}]
         /\ FilesType' /\ DocsType' /\ conv' \in [Ids -> (SUBSET Turns) \cup {None}]
<1>1. FilesType /\ StoreType /\ DocsType
  BY TypeParts DEF Typed
<1>2. pc[r] \in Live /\ at[r] \in Ids /\ up
  BY DEF SaveTurn, Answered, Typed, HolderInv, Live
<1>3. Held(at[r])
  BY <1>2 DEF Held
<1>4. conv[at[r]] \in SUBSET Turns /\ r \in Turns
  BY <1>1, <1>2, <1>3 DEF Typed, HolderInv, StoreType, Turns
<1>5. conv' = [conv EXCEPT ![at[r]] = conv[at[r]] \cup {r}]
  BY DEF SaveTurn
<1>6. conv'[at[r]] = conv[at[r]] \cup {r} /\ conv' \in [Ids -> (SUBSET Turns) \cup {None}]
  BY <1>1, <1>2, <1>4, <1>5 DEF StoreType
<1>7. Written(at[r], conv[at[r]] \cup {r})
  BY <1>6 DEF SaveTurn
<1>8. DocsType'
  BY <1>1, <1>2, <1>4, <1>7, WrittenType
<1>9. FilesType'
  BY <1>1, <1>8 DEF FilesType, DocsType, SaveTurn
<1>10. QED BY <1>2, <1>3, <1>4, <1>5, <1>6, <1>7, <1>8, <1>9 DEF Written

LEMMA FilesNext == ASSUME Typed, [Next]_vars PROVE FilesType' /\ DocsType' /\ old'.each = old.each
<1>1. TypeOK /\ FilesType /\ DocsType
  BY TypeParts DEF Typed
<1>2. CASE UNCHANGED <<files, kept>>
  BY <1>1, <1>2 DEF FilesType, DocsType, files
<1>3. CASE UNCHANGED vars
  BY <1>2, <1>3 DEF vars, history
<1>4. CASE WriteNext
  BY <1>1, <1>4, WriteFiles
<1>5. CASE Start \/ Crash \/ Migrate
  BY <1>2, <1>5 DEF Start, Crash, Migrate, history
<1>6. CASE Rollback
  BY <1>1, <1>6 DEF Rollback, FilesType, DocsType, history
<1>7. CASE StoreStep
  <2>1. ASSUME NEW a \in BOOLEAN, Create(a) PROVE UNCHANGED <<files, kept>>
    BY <2>1 DEF Create
  <2>2. ASSUME NEW i \in Ids, NEW n \in Names, Rename(i, n) PROVE UNCHANGED <<files, kept>>
    BY <2>2 DEF Rename, history
  <2>3. ASSUME NEW i \in Ids, Activate(i) PROVE UNCHANGED <<files, kept>>
    BY <2>3 DEF Activate, history
  <2>4. ASSUME NEW i \in Ids, Delete(i) PROVE UNCHANGED <<files, kept>>
    BY <2>4 DEF Delete
  <2>5. ASSUME Frame PROVE UNCHANGED <<files, kept>>
    BY <2>5 DEF Frame, history
  <2>6. ASSUME NEW i \in Ids, Open(i)
        PROVE  FilesType' /\ DocsType' /\ old'.each = old.each
    BY <1>1, <2>6, OpenIs
  <2>7. QED BY <1>2, <1>7, <2>1, <2>2, <2>3, <2>4, <2>5, <2>6 DEF StoreStep
<1>8. ASSUME NEW r \in Replies, SaveTurn(r)
      PROVE  FilesType' /\ DocsType' /\ old'.each = old.each
  BY <1>8, SaveTurnIs DEF SaveTurn
<1>9. ASSUME NEW r \in Replies, Note(r) PROVE UNCHANGED <<files, kept>>
  BY <1>9 DEF Note, history
<1>10. QED BY <1>2, <1>3, <1>4, <1>5, <1>6, <1>7, <1>8, <1>9, Kinds

\* The index after each call, and what the call has to write.
IndexOk == /\ active' \in Ids \cup {None} /\ entries' \in [Ids -> Entry \cup {None}]
           /\ writes' \in Seq(Writes)

LEMMA CreateIs ==
  ASSUME TypeOK, NEW a \in BOOLEAN, Create(a)
  PROVE  \E i \in Ids :
           /\ Free /\ UNCHANGED <<files, up, retired, base, kept, deleted, redone, had>>
           /\ IsNext(i, entries, retired)
           /\ conv' = [conv EXCEPT ![i] = Stored(i)] /\ cached' = cached \cup {i}
           /\ entries' = [entries EXCEPT ![i] = EmptyEntry] /\ used' = used \cup {i}
           /\ active' \in {i, active}
           /\ writes' = <<Doc(i, Stored(i)), SaveIndex(active', entries')>>
           /\ Stored(i) \in SUBSET Turns /\ IndexOk
<1>1. PICK i \in Ids :
        /\ IsNext(i, entries, retired) /\ Opened(i)
        /\ entries' = [entries EXCEPT ![i] = EmptyEntry] /\ used' = used \cup {i}
        /\ active' = IF a THEN i ELSE active
        /\ writes' = <<Doc(i, Stored(i)), SaveIndex(active', entries')>>
  BY DEF Create
<1>2. FilesType /\ IndexType
  BY TypeParts
<1>3. Stored(i) \in SUBSET Turns
  BY <1>2, StoredType
<1>4. active' \in {i, active} /\ active' \in Ids \cup {None}
  BY <1>1, <1>2 DEF IndexType
<1>5. entries' \in [Ids -> Entry \cup {None}]
  BY <1>1, <1>2, EntryIs DEF IndexType
<1>6. Doc(i, Stored(i)) \in Writes /\ SaveIndex(active', entries') \in Writes
  BY <1>3, <1>4, <1>5, WriteTypes
<1>7. writes' \in Seq(Writes)
  BY <1>1, <1>6
<1>8. Free /\ UNCHANGED <<files, up, retired, base, kept, deleted, redone, had>>
  BY DEF Create
<1>9. QED BY <1>1, <1>3, <1>4, <1>5, <1>7, <1>8 DEF Opened, IndexOk

LEMMA RenameIs ==
  ASSUME TypeOK, NEW i \in Ids, NEW n \in Names, Rename(i, n)
  PROVE  /\ Free /\ UNCHANGED <<files, up, active, objects, retired, base, history>>
         /\ entries[i] # None /\ entries'[i] # None
         /\ \A j \in Ids : j # i => entries'[j] = entries[j]
         /\ Listed(entries') = Listed(entries)
         /\ writes' = <<SaveIndex(active, entries')>> /\ IndexOk
<1>1. IndexType
  BY TypeParts
<1>2. /\ Free /\ UNCHANGED <<files, up, active, objects, retired, base, history>>
      /\ entries[i] # None /\ entries' = [entries EXCEPT ![i].name = n]
      /\ writes' = <<SaveIndex(active, entries')>>
  BY DEF Rename
<1>3. entries[i] \in Entry
  BY <1>1, <1>2 DEF IndexType
<1>4. [entries[i] EXCEPT !.name = n] \in Entry
  BY <1>3 DEF Entry
<1>5. /\ entries' \in [Ids -> Entry \cup {None}] /\ entries'[i] \in Entry
      /\ \A j \in Ids : j # i => entries'[j] = entries[j]
  BY <1>1, <1>2, <1>4 DEF IndexType
<1>6. entries'[i] # None
  BY <1>5, EntryIs
<1>7. active \in Ids \cup {None}
  BY <1>1 DEF IndexType
<1>8. SaveIndex(active, entries') \in Writes
  BY <1>5, <1>7, WriteTypes
<1>9. writes' \in Seq(Writes)
  BY <1>2, <1>8
<1>10. QED BY <1>2, <1>5, <1>6, <1>7, <1>9 DEF IndexOk, Listed

LEMMA ActivateIs ==
  ASSUME TypeOK, NEW i \in Ids, Activate(i)
  PROVE  /\ Free /\ UNCHANGED <<files, up, entries, objects, retired, base, history>>
         /\ entries[i] # None /\ active' = i
         /\ writes' = <<SaveIndex(i, entries)>> /\ IndexOk
<1>1. entries \in [Ids -> Entry \cup {None}]
  BY TypeParts DEF IndexType
<1>2. SaveIndex(i, entries) \in Writes
  BY <1>1, WriteTypes
<1>3. QED BY <1>1, <1>2 DEF Activate, IndexOk

\* A deletion leaves another session, or makes one.
LEMMA DeleteIs ==
  ASSUME TypeOK, NEW i \in Ids, Delete(i)
  PROVE  /\ Free /\ UNCHANGED <<files, up, base, kept, redone, had>>
         /\ entries[i] # None /\ retired' = retired \cup {i} /\ deleted' = deleted \cup {i}
         /\ IndexOk
         /\ \/ /\ \/ active' \in Ids /\ entries'[active'] # None
                  \/ active' = active /\ active # i
               /\ entries' = [entries EXCEPT ![i] = None] /\ cached' = cached \ {i}
               /\ writes' = <<Removed(i), SaveIndex(active', entries')>>
               /\ UNCHANGED <<conv, used>>
            \/ \E n \in Ids :
                 LET es == [entries EXCEPT ![i] = None]
                 IN /\ Listed(es) = {} /\ n # i /\ n \notin retired /\ n >= base
                    /\ active' = n /\ entries' = [es EXCEPT ![n] = EmptyEntry]
                    /\ conv' = [conv EXCEPT ![n] = Stored(n)] /\ cached' = (cached \ {i}) \cup {n}
                    /\ used' = used \cup {n} /\ Stored(n) \in SUBSET Turns
                    /\ writes' = <<Removed(i), SaveIndex(None, es), Doc(n, Stored(n)),
                                   SaveIndex(None, entries'), SaveIndex(n, entries')>>
<1> DEFINE es == [entries EXCEPT ![i] = None]
           gone == retired \cup {i}
<1>1. entries \in [Ids -> Entry \cup {None}] /\ active \in Ids \cup {None} /\ FilesType
  BY TypeParts DEF IndexType
<1>2. es \in [Ids -> Entry \cup {None}]
  BY <1>1
<1>3. /\ Free /\ UNCHANGED <<files, up, base, kept, redone, had>>
      /\ entries[i] # None /\ retired' = retired \cup {i} /\ deleted' = deleted \cup {i}
  BY DEF Delete
<1>4. CASE /\ Listed(es) # {}
           /\ IF active = i THEN active' \in Successors(es) ELSE active' = active
           /\ entries' = es
           /\ cached' = cached \ {i}
           /\ writes' = <<Removed(i), SaveIndex(active', es)>>
           /\ UNCHANGED <<conv, used>>
  <2>1. /\ (active' \in Ids /\ es[active'] # None) \/ (active' = active /\ active # i)
        /\ active' \in Ids \cup {None}
    BY <1>1, <1>4 DEF Successors, Listed
  <2> HIDE DEF es
  <2>2. Removed(i) \in Writes /\ SaveIndex(active', es) \in Writes
    BY <1>2, <2>1, WriteTypes
  <2>3. writes' \in Seq(Writes)
    BY <1>4, <2>2
  <2>4. IndexOk
    BY <1>2, <1>4, <2>1, <2>3 DEF IndexOk
  <2>5. QED BY <1>3, <1>4, <2>1, <2>4 DEF es
<1>5. CASE /\ Listed(es) = {}
           /\ \E n \in Ids :
                LET fresh == [es EXCEPT ![n] = EmptyEntry]
                IN /\ IsNext(n, es, gone)
                   /\ active' = n /\ entries' = fresh
                   /\ conv' = [conv EXCEPT ![n] = Stored(n)]
                   /\ cached' = (cached \ {i}) \cup {n}
                   /\ used' = used \cup {n}
                   /\ writes' = <<Removed(i), SaveIndex(None, es), Doc(n, Stored(n)),
                                  SaveIndex(None, fresh), SaveIndex(n, fresh)>>
  <2>1. PICK n \in Ids :
          /\ IsNext(n, es, gone) /\ active' = n /\ entries' = [es EXCEPT ![n] = EmptyEntry]
          /\ conv' = [conv EXCEPT ![n] = Stored(n)]
          /\ cached' = (cached \ {i}) \cup {n} /\ used' = used \cup {n}
          /\ writes' = <<Removed(i), SaveIndex(None, es), Doc(n, Stored(n)),
                         SaveIndex(None, entries'), SaveIndex(n, entries')>>
    BY <1>5
  <2>2. n # i /\ n \notin retired /\ n >= base
    BY <2>1 DEF IsNext, Taken
  <2> HIDE DEF es, gone
  <2>3. entries' \in [Ids -> Entry \cup {None}] /\ Stored(n) \in SUBSET Turns
    BY <1>1, <1>2, <2>1, EntryIs, StoredType
  <2>4. /\ Removed(i) \in Writes /\ SaveIndex(None, es) \in Writes
        /\ Doc(n, Stored(n)) \in Writes
        /\ SaveIndex(None, entries') \in Writes /\ SaveIndex(n, entries') \in Writes
    BY <1>2, <2>3, WriteTypes
  <2>5. writes' \in Seq(Writes)
    BY <2>1, <2>4
  <2>6. IndexOk
    BY <2>1, <2>3, <2>5 DEF IndexOk
  <2>7. QED BY <1>3, <1>5, <2>1, <2>2, <2>3, <2>6 DEF es
<1>6. QED BY <1>4, <1>5 DEF Delete

LEMMA NoteIs ==
  ASSUME Typed, NEW r \in Replies, Note(r)
  PROVE  /\ Free /\ pc[r] = "note" /\ at[r] \in Ids
         /\ UNCHANGED <<files, up, active, objects, retired, base, at, history>>
         /\ UNCHANGED consoles /\ pc' = [pc EXCEPT ![r] = "over"]
         /\ entries' = [entries EXCEPT ![at[r]] = Noted(at[r])]
         /\ Listed(entries') = Listed(entries) /\ IndexOk
         /\ entries[at[r]] = None => writes' = <<>> /\ entries' = entries
         /\ entries[at[r]] # None => writes' = <<SaveIndex(active, entries')>>
<1>1. /\ Free /\ pc[r] = "note"
      /\ UNCHANGED <<files, up, active, objects, retired, base, at, history>>
      /\ UNCHANGED consoles /\ pc' = [pc EXCEPT ![r] = "over"]
      /\ entries' = [entries EXCEPT ![at[r]] = Noted(at[r])]
      /\ writes' = IF Noted(at[r]) = None THEN <<>> ELSE <<SaveIndex(active, entries')>>
  BY DEF Note
<1>2. IndexType /\ StoreType
  BY TypeParts DEF Typed
<1>3. at[r] \in Ids /\ conv[at[r]] \in SUBSET Turns
  <2>1. at[r] \in Ids
    BY <1>1 DEF Typed, HolderInv, Live
  <2>2. Held(at[r])
    BY <1>1 DEF Held, Live
  <2>3. QED BY <1>2, <2>1, <2>2 DEF Typed, HolderInv, StoreType
<1>4. /\ entries[at[r]] = None => Noted(at[r]) = None
      /\ entries[at[r]] # None => Noted(at[r]) \in Entry /\ Noted(at[r]) # None
  <2>1. entries[at[r]] # None => entries[at[r]] \in Entry
    BY <1>2, <1>3 DEF IndexType
  <2>2. Cardinality(conv[at[r]]) \in Nat
    BY <1>3, CountIs
  <2>3. ASSUME NEW e \in Entry, NEW m \in Nat PROVE [e EXCEPT !.turns = m] \in Entry
    BY DEF Entry
  <2>4. QED BY <2>1, <2>2, <2>3, EntryIs DEF Noted
<1>5. entries' \in [Ids -> Entry \cup {None}]
  BY <1>1, <1>2, <1>4 DEF IndexType
<1>6. Listed(entries') = Listed(entries)
  BY <1>1, <1>2, <1>3, <1>4 DEF IndexType, Listed
<1>7. active \in Ids \cup {None}
  BY <1>2 DEF IndexType
<1>8. SaveIndex(active, entries') \in Writes
  BY <1>5, <1>7, WriteTypes
<1>9. writes' \in Seq(Writes)
  BY <1>1, <1>8
<1>10. entries[at[r]] = None => entries' = entries
  BY <1>1, <1>2, <1>4 DEF IndexType
<1>11. QED BY <1>1, <1>3, <1>4, <1>5, <1>6, <1>7, <1>9, <1>10 DEF IndexOk

\* A start imports a conversation, makes the first session, or lists what it finds.
LEMMA StartIs ==
  ASSUME TypeOK, Start
  PROVE  /\ ~up /\ up' /\ writes = <<>> /\ retired' = {} /\ IndexOk
         /\ UNCHANGED <<files, replyVars, job, consoles, crashes, calls>>
         /\ UNCHANGED <<kept, deleted, redone, had>>
         /\ active' \in Ids /\ entries'[active'] # None
         /\ \E now \in 1 .. MaxId + 1 :
              /\ IsNow(now) /\ base' = now
              /\ \/ /\ now \in Ids /\ old.one \in SUBSET OldTurns /\ active' = now
                    /\ entries' = [Found EXCEPT
                         ![now] = [EmptyEntry EXCEPT !.turns = Cardinality(old.one)]]
                    /\ conv' = [conv EXCEPT ![now] = old.one] /\ cached' = {now}
                    /\ used' = used \cup {now} /\ Stored(now) \in SUBSET Turns
                    /\ writes' = <<Doc(now, Stored(now)), Doc(now, old.one),
                                   SaveIndex(now, entries'), Unlink>>
                 \/ /\ now \in Ids /\ Listed(Found) = {} /\ active' = now
                    /\ entries' = [Found EXCEPT ![now] = EmptyEntry]
                    /\ conv' = [conv EXCEPT ![now] = Stored(now)] /\ cached' = {now}
                    /\ used' = used \cup {now} /\ Stored(now) \in SUBSET Turns
                    /\ \E a \in Ids \cup {None} :
                         LET d == Doc(now, Stored(now))
                             x == SaveIndex(a, entries')
                             y == SaveIndex(now, entries')
                         IN \/ writes' = <<d, x>> /\ a = now
                            \/ writes' = <<d, x, y>>
                            \/ writes' = <<Unlink, d, x>> /\ old.one = {} /\ a = now
                            \/ writes' = <<Unlink, d, x, y>> /\ old.one = {}
                 \/ /\ entries' = Found /\ UNCHANGED <<conv, cached, used>>
                    /\ LET y == SaveIndex(active', Found)
                       IN \/ writes' = <<>>
                          \/ writes' = <<Unlink>> /\ old.one = {}
                          \/ writes' = <<y>>
                          \/ writes' = <<Unlink, y>> /\ old.one = {}
<1>1. FilesType /\ Found \in [Ids -> Entry \cup {None}]
  BY TypeParts, FoundType
<1>2. /\ ~up /\ up' /\ writes = <<>> /\ retired' = {}
      /\ UNCHANGED <<files, replyVars, job, consoles, crashes, calls>>
      /\ UNCHANGED <<kept, deleted, redone, had>>
  BY DEF Start
<1>3. PICK now \in 1 .. MaxId + 1 :
        /\ IsNow(now) /\ base' = now
        /\ IF old.one \notin {None, {}} THEN Import(now)
           ELSE IF Listed(Found) = {} THEN First(now) ELSE Adopt
  BY DEF Start
<1>4. CASE old.one \notin {None, {}}
  <2>1. /\ now \in Ids /\ active' = now
        /\ entries' = [Found EXCEPT ![now] = [EmptyEntry EXCEPT !.turns = Cardinality(old.one)]]
        /\ conv' = [conv EXCEPT ![now] = old.one] /\ cached' = {now}
        /\ used' = used \cup {now}
        /\ writes' = <<Doc(now, Stored(now)), Doc(now, old.one), SaveIndex(now, entries'), Unlink>>
    BY <1>3, <1>4 DEF Import, ImportWrites
  <2>2. old.one \in SUBSET OldTurns /\ Stored(now) \in SUBSET Turns
    BY <1>1, <1>4, <2>1, OldType, StoredType
  <2>3. /\ [EmptyEntry EXCEPT !.turns = Cardinality(old.one)] \in Entry
        /\ [EmptyEntry EXCEPT !.turns = Cardinality(old.one)] # None
    BY <2>2, NoneApart, EntryIs
  <2>4. entries' \in [Ids -> Entry \cup {None}] /\ entries'[now] # None
    BY <1>1, <2>1, <2>3
  <2>5. /\ Doc(now, Stored(now)) \in Writes /\ Doc(now, old.one) \in Writes
        /\ SaveIndex(now, entries') \in Writes /\ Unlink \in Writes
    BY <2>1, <2>2, <2>4, NoneApart, WriteTypes
  <2>6. writes' \in Seq(Writes)
    BY <2>1, <2>5
  <2>7. IndexOk /\ active' \in Ids /\ entries'[active'] # None
    BY <2>1, <2>4, <2>6 DEF IndexOk
  <2>8. QED BY <1>2, <1>3, <2>1, <2>2, <2>7
<1>5. CASE old.one \in {None, {}} /\ Listed(Found) = {}
  <2>1. First(now) /\ now \in Ids
    BY <1>3, <1>5 DEF First
  <2>2. /\ active' = now /\ entries' = [Found EXCEPT ![now] = EmptyEntry]
        /\ conv' = [conv EXCEPT ![now] = Stored(now)] /\ cached' = {now}
        /\ used' = used \cup {now}
    BY <2>1 DEF First
  <2>3. entries' \in [Ids -> Entry \cup {None}] /\ entries'[now] # None
    BY <1>1, <2>1, <2>2, EntryIs
  <2>4. PICK a \in Ids \cup {None} :
          LET d == Doc(now, Stored(now))
              x == SaveIndex(a, entries')
              y == SaveIndex(now, entries')
          IN \/ writes' = <<d, x>> /\ a = now
             \/ writes' = <<d, x, y>>
             \/ writes' = <<Unlink, d, x>> /\ old.one = {} /\ a = now
             \/ writes' = <<Unlink, d, x, y>> /\ old.one = {}
    BY <1>1, <2>1, <2>3, FirstIs
  <2>5. Stored(now) \in SUBSET Turns
    BY <1>1, <2>1, StoredType
  <2>6. /\ Doc(now, Stored(now)) \in Writes /\ SaveIndex(a, entries') \in Writes
        /\ SaveIndex(now, entries') \in Writes /\ Unlink \in Writes
    BY <2>1, <2>3, <2>5, WriteTypes
  <2>7. writes' \in Seq(Writes)
    <3> DEFINE d == Doc(now, Stored(now))
               x == SaveIndex(a, entries')
               y == SaveIndex(now, entries')
    <3>1. d \in Writes /\ x \in Writes /\ y \in Writes
      BY <2>6
    <3>2. \/ writes' = <<d, x>> \/ writes' = <<d, x, y>>
          \/ writes' = <<Unlink, d, x>> \/ writes' = <<Unlink, d, x, y>>
      BY <2>4
    <3> HIDE DEF d, x, y
    <3>3. /\ <<d, x>> \in Seq(Writes) /\ <<d, x, y>> \in Seq(Writes)
          /\ <<Unlink, d, x>> \in Seq(Writes) /\ <<Unlink, d, x, y>> \in Seq(Writes)
      BY <2>6, <3>1
    <3>4. QED BY <3>2, <3>3
  <2>8. IndexOk /\ active' \in Ids /\ entries'[active'] # None
    BY <2>1, <2>2, <2>3, <2>7 DEF IndexOk
  <2>9. QED BY <1>2, <1>3, <1>5, <2>1, <2>2, <2>4, <2>5, <2>8
<1>6. CASE old.one \in {None, {}} /\ Listed(Found) # {}
  <2>1. Adopt
    BY <1>3, <1>6
  <2>2. /\ entries' = Found /\ active' \in Listed(Found)
        /\ LET y == SaveIndex(active', Found)
           IN \/ writes' = <<>>
              \/ writes' = <<Unlink>> /\ old.one = {}
              \/ writes' = <<y>>
              \/ writes' = <<Unlink, y>> /\ old.one = {}
    BY <1>1, <1>6, <2>1, AdoptIs
  <2>3. active' \in Ids /\ entries'[active'] # None
    BY <2>2 DEF Listed
  <2>4. SaveIndex(active', Found) \in Writes /\ Unlink \in Writes
    BY <1>1, <2>3, WriteTypes
  <2>5. writes' \in Seq(Writes)
    <3> DEFINE y == SaveIndex(active', Found)
    <3>1. y \in Writes
      BY <2>4
    <3>2. \/ writes' = <<>> \/ writes' = <<Unlink>>
          \/ writes' = <<y>> \/ writes' = <<Unlink, y>>
      BY <2>2
    <3> HIDE DEF y
    <3>3. <<Unlink>> \in Seq(Writes) /\ <<y>> \in Seq(Writes) /\ <<Unlink, y>> \in Seq(Writes)
      BY <2>4, <3>1
    <3>4. CASE writes' = <<>>
      BY <3>4
    <3>5. QED BY ONLY <3>2, <3>3, <3>4
  <2>6. IndexOk
    BY <1>1, <2>2, <2>3, <2>5 DEF IndexOk
  <2>7. UNCHANGED <<conv, cached, used>>
    BY <2>1 DEF Adopt, objects
  <2>8. QED BY <1>2, <1>3, <2>2, <2>3, <2>6, <2>7
<1>7. QED BY <1>4, <1>5, <1>6

LEMMA IndexNext ==
  ASSUME Typed, [Next]_vars
  PROVE  IndexType' /\ writes' \in Seq(Writes) /\ ServerInv'
<1>1. /\ TypeOK /\ ServerInv /\ active \in Ids \cup {None} /\ entries \in [Ids -> Entry \cup {None}]
      /\ writes \in Seq(Writes)
  BY TypeParts DEF Typed, IndexType, StoreType
<1>2. CASE UNCHANGED <<up, active, entries, cached, retired>> /\ writes' \in Seq(Writes)
  BY <1>1, <1>2 DEF IndexType, ServerInv, NoEntries
<1>3. CASE UNCHANGED <<up, active, entries, retired, writes>> /\ up /\ cached' \subseteq Ids
  BY <1>1, <1>3 DEF IndexType, ServerInv, NoEntries
<1>4. CASE UNCHANGED vars
  BY <1>1, <1>2, <1>4 DEF vars, index, objects
<1>5. CASE WriteNext
  <2>1. writes' \in Seq(Writes)
    BY <1>5, WriteSeq, TypeParts, <1>1
  <2>2. QED BY <1>2, <1>5, <2>1 DEF WriteNext, index, objects
<1>6. CASE Start
  <2>1. up' /\ retired' = {} /\ IndexOk /\ active' \in Ids /\ entries'[active'] # None
    BY <1>1, <1>6, StartIs
  <2>2. QED BY <2>1 DEF IndexOk, IndexType, ServerInv
<1>7. CASE Crash
  <2>1. /\ up' = FALSE /\ writes' = <<>> /\ active' = None /\ entries' = NoEntries
        /\ cached' = {} /\ retired' = {}
    BY <1>7 DEF Crash
  <2>2. QED BY <2>1 DEF IndexType, ServerInv, NoEntries
<1>8. CASE Migrate
  <2>1. writes' \in Seq(Writes)
    BY <1>1, <1>8, MigrateIs, TypeParts
  <2>2. QED BY <1>2, <1>8, <2>1 DEF Migrate, index, objects
<1>9. CASE Rollback
  BY <1>1, <1>2, <1>9 DEF Rollback, index, objects
<1>10. CASE StoreStep
  <2>1. ASSUME NEW a \in BOOLEAN, Create(a)
        PROVE  IndexType' /\ writes' \in Seq(Writes) /\ ServerInv'
    <3>1. PICK i \in Ids :
            /\ Free /\ UNCHANGED <<up, retired>> /\ IsNext(i, entries, retired)
            /\ entries' = [entries EXCEPT ![i] = EmptyEntry] /\ active' \in {i, active} /\ IndexOk
      BY <1>1, <2>1, CreateIs
    <3>2. up /\ up' /\ i \notin retired
      BY <3>1 DEF Free, IsNext, Taken
    <3>3. active' \in Ids /\ entries'[active'] # None /\ \A j \in retired' : entries'[j] = None
      BY <1>1, <3>1, <3>2, EntryIs DEF ServerInv
    <3>4. QED BY <3>1, <3>2, <3>3 DEF IndexOk, IndexType, ServerInv
  <2>2. ASSUME NEW i \in Ids, NEW n \in Names, Rename(i, n)
        PROVE  IndexType' /\ writes' \in Seq(Writes) /\ ServerInv'
    <3>1. /\ Free /\ UNCHANGED <<up, active, objects, retired>>
          /\ Listed(entries') = Listed(entries) /\ IndexOk
      BY <1>1, <2>2, RenameIs
    <3>2. \A j \in Ids : entries'[j] = None <=> entries[j] = None
      BY <3>1 DEF Listed
    <3>3. retired \subseteq Ids
      BY TypeParts, <1>1 DEF StoreType
    <3>4. QED BY <1>1, <3>1, <3>2, <3>3 DEF IndexOk, IndexType, ServerInv, Free
  <2>3. ASSUME NEW i \in Ids, Activate(i)
        PROVE  IndexType' /\ writes' \in Seq(Writes) /\ ServerInv'
    <3>1. /\ Free /\ UNCHANGED <<up, entries, objects, retired>>
          /\ entries[i] # None /\ active' = i /\ IndexOk
      BY <1>1, <2>3, ActivateIs
    <3>2. QED BY <1>1, <3>1 DEF IndexOk, IndexType, ServerInv, Free
  <2>4. ASSUME NEW i \in Ids, Delete(i)
        PROVE  IndexType' /\ writes' \in Seq(Writes) /\ ServerInv'
    <3>1. Free /\ UNCHANGED up /\ retired' = retired \cup {i} /\ IndexOk
      BY <1>1, <2>4, DeleteIs
    <3>2. /\ active' \in Ids /\ entries'[active'] # None
          /\ \A j \in retired' : entries'[j] = None
      <4>1. CASE /\ \/ active' \in Ids /\ entries'[active'] # None
                    \/ active' = active /\ active # i
                 /\ entries' = [entries EXCEPT ![i] = None]
        BY <1>1, <3>1, <4>1 DEF ServerInv, Free
      <4>2. ASSUME NEW n \in Ids, n # i, n \notin retired, active' = n,
                   entries' = [[entries EXCEPT ![i] = None] EXCEPT ![n] = EmptyEntry]
            PROVE  /\ active' \in Ids /\ entries'[active'] # None
                   /\ \A j \in retired' : entries'[j] = None
        <5>1. \A j \in Ids : entries'[j] = IF j = n THEN EmptyEntry
                                        ELSE IF j = i THEN None ELSE entries[j]
          BY <1>1, <4>2
        <5>2. retired \subseteq Ids
          BY <1>1, TypeParts DEF StoreType
        <5>3. QED BY <1>1, <3>1, <4>2, <5>1, <5>2, EntryIs DEF ServerInv
      <4>3. \/ /\ \/ active' \in Ids /\ entries'[active'] # None
                  \/ active' = active /\ active # i
               /\ entries' = [entries EXCEPT ![i] = None]
            \/ \E n \in Ids :
                 /\ n # i /\ n \notin retired /\ active' = n
                 /\ entries' = [[entries EXCEPT ![i] = None] EXCEPT ![n] = EmptyEntry]
        BY <1>1, <2>4, DeleteIs
      <4>4. QED BY <4>1, <4>2, <4>3
    <3>3. QED BY <3>1, <3>2 DEF IndexOk, IndexType, ServerInv, Free
  <2>5. ASSUME NEW i \in Ids, Open(i)
        PROVE  IndexType' /\ writes' \in Seq(Writes) /\ ServerInv'
    <3>1. up /\ UNCHANGED <<up, active, entries, retired, writes>>
      BY <2>5 DEF Open, Free, index
    <3>2. cached' = cached \cup {i} /\ cached \subseteq Ids
      BY <1>1, <2>5, OpenIs, TypeParts DEF StoreType
    <3>3. QED BY <1>3, <3>1, <3>2
  <2>6. ASSUME Frame
        PROVE  IndexType' /\ writes' \in Seq(Writes) /\ ServerInv'
    BY <1>1, <1>2, <2>6 DEF Frame, index, objects
  <2>7. QED BY <1>10, <2>1, <2>2, <2>3, <2>4, <2>5, <2>6 DEF StoreStep
<1>11. ASSUME NEW r \in Replies, SaveTurn(r)
       PROVE  IndexType' /\ writes' \in Seq(Writes) /\ ServerInv'
  BY <1>1, <1>2, <1>11 DEF SaveTurn, index
<1>12. ASSUME NEW r \in Replies, Note(r)
       PROVE  IndexType' /\ writes' \in Seq(Writes) /\ ServerInv'
  <2>1. /\ Free /\ UNCHANGED <<up, active, objects, retired>>
        /\ Listed(entries') = Listed(entries) /\ IndexOk
    BY <1>12, NoteIs
  <2>2. \A j \in Ids : entries'[j] = None <=> entries[j] = None
    BY <2>1 DEF Listed
  <2>3. retired \subseteq Ids
    BY TypeParts, <1>1 DEF StoreType
  <2>4. QED BY <1>1, <2>1, <2>2, <2>3 DEF IndexOk, IndexType, ServerInv, Free
<1>13. QED BY <1>4, <1>5, <1>6, <1>7, <1>8, <1>9, <1>10, <1>11, <1>12, Kinds

LEMMA StoreNext == ASSUME Typed, [Next]_vars PROVE StoreType'
<1> DEFINE rest == /\ up' \in BOOLEAN
                   /\ conv' \in [Ids -> (SUBSET Turns) \cup {None}] /\ cached' \subseteq Ids
                   /\ retired' \subseteq Ids /\ base' \in Nat
<1>1. TypeOK /\ StoreType /\ FilesType /\ writes' \in Seq(Writes)
  BY IndexNext, TypeParts DEF Typed
<1>2. CASE UNCHANGED <<up, objects, retired, base>>
  BY <1>1, <1>2 DEF StoreType, objects
<1>3. CASE UNCHANGED vars \/ WriteNext \/ Migrate \/ Rollback
  BY <1>2, <1>3 DEF vars, WriteNext, Migrate, Rollback
<1>4. CASE Start
  <2>1. up' = TRUE /\ retired' = {} /\ \E now \in 1 .. MaxId + 1 : base' = now
    BY <1>4 DEF Start
  <2>2. base' \in Nat
    BY <2>1, SessionAssumption
  <2>3. PICK now \in 1 .. MaxId + 1 :
          \/ /\ now \in Ids /\ old.one \in SUBSET OldTurns
             /\ conv' = [conv EXCEPT ![now] = old.one] /\ cached' = {now}
          \/ /\ now \in Ids /\ Stored(now) \in SUBSET Turns
             /\ conv' = [conv EXCEPT ![now] = Stored(now)] /\ cached' = {now}
          \/ UNCHANGED <<conv, cached>>
    BY <1>1, <1>4, StartIs
  <2>4. conv' \in [Ids -> (SUBSET Turns) \cup {None}] /\ cached' \subseteq Ids
    <3>1. CASE /\ now \in Ids /\ old.one \in SUBSET OldTurns
               /\ conv' = [conv EXCEPT ![now] = old.one] /\ cached' = {now}
      BY <1>1, <3>1, NoneApart DEF StoreType
    <3>2. CASE /\ now \in Ids /\ Stored(now) \in SUBSET Turns
               /\ conv' = [conv EXCEPT ![now] = Stored(now)] /\ cached' = {now}
      BY <1>1, <3>2 DEF StoreType
    <3>3. CASE UNCHANGED <<conv, cached>>
      BY <1>1, <3>3 DEF StoreType
    <3>4. QED BY <2>3, <3>1, <3>2, <3>3
  <2>5. QED BY <1>1, <2>1, <2>2, <2>4 DEF StoreType
<1>5. CASE Crash
  <2>1. /\ up' = FALSE /\ conv' = [i \in Ids |-> None] /\ cached' = {} /\ retired' = {}
        /\ base' = base
    BY <1>5 DEF Crash
  <2>2. QED BY <1>1, <2>1 DEF StoreType
<1>6. CASE StoreStep
  <2>1. ASSUME NEW a \in BOOLEAN, Create(a) PROVE StoreType'
    <3>1. PICK i \in Ids : /\ UNCHANGED <<up, retired, base>> /\ Stored(i) \in SUBSET Turns
                           /\ conv' = [conv EXCEPT ![i] = Stored(i)] /\ cached' = cached \cup {i}
      BY <1>1, <2>1, CreateIs
    <3>2. QED BY <1>1, <3>1 DEF StoreType
  <2>2. ASSUME NEW i \in Ids, NEW n \in Names, Rename(i, n) PROVE StoreType'
    BY <1>2, <2>2 DEF Rename
  <2>3. ASSUME NEW i \in Ids, Activate(i) PROVE StoreType'
    BY <1>2, <2>3 DEF Activate
  <2>4. ASSUME NEW i \in Ids, Delete(i) PROVE StoreType'
    <3>1. UNCHANGED <<up, base>> /\ retired' = retired \cup {i}
      BY <1>1, <2>4, DeleteIs
    <3>2. \/ cached' = cached \ {i} /\ UNCHANGED conv
          \/ \E n \in Ids : /\ conv' = [conv EXCEPT ![n] = Stored(n)] /\ Stored(n) \in SUBSET Turns
                            /\ cached' = (cached \ {i}) \cup {n}
      BY <1>1, <2>4, DeleteIs
    <3>3. conv' \in [Ids -> (SUBSET Turns) \cup {None}] /\ cached' \subseteq Ids
      BY <1>1, <3>2 DEF StoreType
    <3>4. QED BY <1>1, <3>1, <3>3 DEF StoreType
  <2>5. ASSUME NEW i \in Ids, Open(i) PROVE StoreType'
    <3>1. UNCHANGED <<up, retired, base>>
      BY <2>5 DEF Open
    <3>2. conv' \in [Ids -> (SUBSET Turns) \cup {None}] /\ cached' = cached \cup {i}
      BY <1>1, <2>5, OpenIs
    <3>3. QED BY <1>1, <3>1, <3>2 DEF StoreType
  <2>6. ASSUME Frame PROVE StoreType'
    BY <1>2, <2>6 DEF Frame
  <2>7. QED BY <1>6, <2>1, <2>2, <2>3, <2>4, <2>5, <2>6 DEF StoreStep
<1>7. ASSUME NEW r \in Replies, SaveTurn(r) PROVE StoreType'
  <2>1. UNCHANGED <<up, cached, retired, base>>
    BY <1>7 DEF SaveTurn
  <2>2. conv' \in [Ids -> (SUBSET Turns) \cup {None}]
    BY <1>7, SaveTurnIs
  <2>3. QED BY <1>1, <2>1, <2>2 DEF StoreType
<1>8. ASSUME NEW r \in Replies, Note(r) PROVE StoreType'
  BY <1>2, <1>8 DEF Note
<1>9. QED BY <1>3, <1>4, <1>5, <1>6, <1>7, <1>8, Kinds

LEMMA CallsNext ==
  ASSUME TypeOK, [Next]_vars PROVE calls' \in Nat /\ crashes' \in Nat
<1>1. calls \in Nat /\ crashes \in Nat
  BY TypeParts DEF HistoryType
<1>2. CASE UNCHANGED <<calls, crashes>>
  BY <1>1, <1>2
<1>3. CASE Called /\ UNCHANGED crashes
  BY <1>1, <1>3 DEF Called
<1>4. CASE UNCHANGED vars \/ WriteNext \/ Start
  BY <1>2, <1>4 DEF vars, WriteNext, Start
<1>5. CASE Crash
  BY <1>1, <1>5 DEF Crash
<1>6. CASE Migrate \/ Rollback
  BY <1>3, <1>6 DEF Migrate, Rollback
<1>7. CASE Rest
  <2>1. UNCHANGED crashes
    BY <1>7 DEF Rest, Create, Rename, Activate, Delete, Open
  <2>2. QED BY <1>3, <1>7, <2>1 DEF Rest
<1>8. ASSUME NEW p \in Procs, ToolOrLoop(p) PROVE calls' \in Nat /\ crashes' \in Nat
  <2>1. ASSUME NEW c \in Conns, CreateHere(p, c) PROVE calls' \in Nat /\ crashes' \in Nat
    BY <1>3, <2>1 DEF CreateHere, Create
  <2>2. ASSUME NEW c \in Conns, NEW i \in Ids, Switch(p, c, i) \/ DeleteHere(p, c, i)
        PROVE  calls' \in Nat /\ crashes' \in Nat
    BY <1>3, <2>2 DEF Switch, DeleteHere, Delete, Frame
  <2>3. CASE Check(p) \/ Reopen(p)
    BY <1>2, <2>3 DEF Check, Reopen, Frame
  <2>4. CASE Bind(p) \/ Select(p)
    BY <1>2, <2>4 DEF Bind, Select, Fails, Frame, Open, Activate
  <2>5. QED BY <1>8, <2>1, <2>2, <2>3, <2>4 DEF ToolOrLoop
<1>9. ASSUME NEW c \in Conns, Disconnect(c) \/ \E i \in Ids : Connect(c, i)
      PROVE  calls' \in Nat /\ crashes' \in Nat
  BY <1>3, <1>9 DEF Disconnect, Connect, Frame
<1>10. ASSUME NEW r \in Replies, Reply(r) PROVE calls' \in Nat /\ crashes' \in Nat
  BY <1>2, <1>10 DEF Reply, Begin, BeginTask, OpenTask, SaveTurn, Note, Frame, Open
<1>11. QED BY <1>4, <1>5, <1>6, <1>7, <1>8, <1>9, <1>10 DEF Next

LEMMA HistoryNext == ASSUME Typed, [Next]_vars PROVE HistoryType'
<1>1. /\ TypeOK /\ FilesType /\ HistoryType /\ calls' \in Nat /\ crashes' \in Nat
      /\ kept' \in [Turns -> SUBSET Ids]
  BY CallsNext, FilesNext, TypeParts DEF Typed, DocsType
<1>2. CASE UNCHANGED <<used, deleted, redone, had>>
  BY <1>1, <1>2 DEF HistoryType
<1>3. CASE UNCHANGED vars \/ WriteNext \/ Crash \/ Rollback
  BY <1>2, <1>3 DEF vars, history, WriteNext, Crash, Rollback
<1>4. CASE Start
  <2>1. UNCHANGED <<deleted, redone, had>>
    BY <1>1, <1>4, StartIs
  <2>2. used' = used \/ \E now \in Ids : used' = used \cup {now}
    BY <1>1, <1>4, StartIs
  <2>3. QED BY <1>1, <2>1, <2>2 DEF HistoryType
<1>5. CASE Migrate
  <2>1. redone' = redone \cup OldEach /\ OldEach \subseteq OldIds
    BY <1>1, <1>5, MigrateIs
  <2>2. used' = used \/ \E now \in Ids : used' = used \cup {now}
    BY <1>1, <1>5, MigrateIs
  <2>3. UNCHANGED <<deleted, had>>
    BY <1>5 DEF Migrate
  <2>4. QED BY <1>1, <2>1, <2>2, <2>3, NoneApart DEF HistoryType
<1>6. CASE StoreStep
  <2>1. ASSUME NEW a \in BOOLEAN, Create(a) PROVE HistoryType'
    <3>1. PICK i \in Ids : UNCHANGED <<deleted, redone, had>> /\ used' = used \cup {i}
      BY <1>1, <2>1, CreateIs
    <3>2. QED BY <1>1, <3>1 DEF HistoryType
  <2>2. ASSUME NEW i \in Ids, NEW n \in Names, Rename(i, n) PROVE HistoryType'
    BY <1>2, <2>2 DEF Rename, history
  <2>3. ASSUME NEW i \in Ids, Activate(i) PROVE HistoryType'
    BY <1>2, <2>3 DEF Activate, history
  <2>4. ASSUME NEW i \in Ids, Delete(i) PROVE HistoryType'
    <3>1. UNCHANGED <<redone, had>> /\ deleted' = deleted \cup {i}
      BY <1>1, <2>4, DeleteIs
    <3>2. UNCHANGED used \/ \E n \in Ids : used' = used \cup {n}
      BY <1>1, <2>4, DeleteIs
    <3>3. QED BY <1>1, <3>1, <3>2 DEF HistoryType
  <2>5. ASSUME NEW i \in Ids, Open(i) PROVE HistoryType'
    BY <1>2, <2>5 DEF Open
  <2>6. ASSUME Frame PROVE HistoryType'
    BY <1>2, <2>6 DEF Frame, history
  <2>7. QED BY <1>6, <2>1, <2>2, <2>3, <2>4, <2>5, <2>6 DEF StoreStep
<1>7. ASSUME NEW r \in Replies, SaveTurn(r) \/ Note(r) PROVE HistoryType'
  BY <1>2, <1>7 DEF SaveTurn, Note, history
<1>8. QED BY <1>3, <1>4, <1>5, <1>6, <1>7, Kinds

(* Replies, consoles and switches *)

LEMMA GoesHeld ==
  ASSUME TypeOK, NEW s, Goes(s), NEW i \in Ids, Held(i)'
  PROVE  Held(i) \/ i \in s
<1>1. i # None
  BY NoneApart
<1>2. CASE \E c \in Conns : bound'[c] = i
  BY <1>1, <1>2 DEF Goes, Held
<1>3. CASE \E r \in Replies : pc'[r] \in Live /\ at'[r] = i
  <2>1. PICK r \in Replies : pc'[r] \in Live /\ at'[r] = i
    BY <1>3
  <2>2. \/ pc'[r] = pc[r] /\ at'[r] = at[r]
        \/ \E c \in Conns : bound[c] # None /\ at'[r] = bound[c]
        \/ at'[r] = at[r] /\ at[r] \in s
        \/ pc[r] \in {"run", "tool"} /\ at'[r] = at[r]
    BY <2>1 DEF Goes, Live
  <2>3. QED BY <2>1, <2>2 DEF Held, Live
<1>4. QED BY <1>2, <1>3 DEF Held

LEMMA HeldStays == ASSUME UNCHANGED <<replyVars, consoles>> PROVE \A i : Held(i)' = Held(i)
BY DEF Held, replyVars, consoles

LEMMA NoneHeld ==
  ASSUME Typed, ~up PROVE \A i \in Ids : ~Held(i)
BY NoneApart DEF Typed, HolderInv, Held, Live

\* What a reply's turn changes among the replies.
LEMMA TurnHeld ==
  ASSUME Typed, NEW r \in Replies, SaveTurn(r) \/ Note(r), NEW i, Held(i)'
  PROVE  Held(i)
<1>1. /\ UNCHANGED at /\ UNCHANGED consoles
      /\ pc' = [pc EXCEPT ![r] = "note"] \/ pc' = [pc EXCEPT ![r] = "over"]
      /\ pc[r] \in Live
  BY DEF SaveTurn, Note, Answered, Live
<1>2. pc \in [Replies -> {"new", "open", "run", "tool", "save", "note", "over"}]
  BY TypeParts DEF Typed, ReplyType
<1>3. \A q \in Replies : pc'[q] \in Live => pc[q] \in Live
  BY <1>1, <1>2
<1>4. QED BY <1>1, <1>3 DEF Held, consoles

LEMMA RepliesNext ==
  ASSUME Typed, [Next]_vars
  PROVE  ReplyType' /\ bound' \in [Conns -> Ids \cup {None}]
<1>1. ReplyType /\ bound \in [Conns -> Ids \cup {None}]
  BY TypeParts DEF Typed, ConsoleType
<1>2. CASE UNCHANGED <<replyVars, consoles>>
  BY <1>1, <1>2 DEF ReplyType, replyVars, consoles
<1>3. CASE UNCHANGED vars \/ WriteNext \/ Start \/ Migrate \/ Rollback
  BY <1>2, <1>3 DEF vars, WriteNext, Start, Migrate, Rollback
<1>4. CASE Crash
  <2>1. /\ pc' = [r \in Replies |-> IF pc[r] = "new" THEN "new" ELSE "over"]
        /\ at' = [r \in Replies |-> None] /\ bound' = [c \in Conns |-> None]
    BY <1>4 DEF Crash
  <2>2. QED BY <2>1 DEF ReplyType
<1>5. CASE StoreStep
  BY <1>5 DEF StoreStep, Goes
<1>6. ASSUME NEW r \in Replies, SaveTurn(r) \/ Note(r)
      PROVE  ReplyType' /\ bound' \in [Conns -> Ids \cup {None}]
  <2>1. /\ UNCHANGED at /\ UNCHANGED consoles
        /\ pc' = [pc EXCEPT ![r] = "note"] \/ pc' = [pc EXCEPT ![r] = "over"]
    BY <1>6 DEF SaveTurn, Note
  <2>2. QED BY <1>1, <2>1 DEF ReplyType, consoles
<1>7. QED BY <1>3, <1>4, <1>5, <1>6, Kinds

\* An object that somebody has was loaded.
LEMMA HolderNext == ASSUME Typed, [Next]_vars PROVE HolderInv'
<1>1. TypeOK /\ HolderInv /\ StoreType /\ ReplyType /\ cached \subseteq Ids /\ FilesType
  BY TypeParts DEF Typed, StoreType
<1>2. CASE UNCHANGED <<replyVars, consoles, up, conv, cached>>
  <2>1. \A i : Held(i)' = Held(i)
    BY <1>2, HeldStays
  <2>2. QED BY <1>1, <1>2, <2>1 DEF HolderInv, replyVars, consoles
<1>3. CASE UNCHANGED vars \/ WriteNext \/ Migrate \/ Rollback
  BY <1>2, <1>3 DEF vars, WriteNext, Migrate, Rollback, objects
<1>4. CASE Start
  <2>1. UNCHANGED <<replyVars, consoles>> /\ ~up
    BY <1>4 DEF Start
  <2>2. \A i \in Ids : ~Held(i)'
    BY <2>1, HeldStays, NoneHeld
  <2>3. \A r \in Replies : pc'[r] \notin Live \cup {"open"}
    BY <1>1, <2>1 DEF HolderInv, replyVars
  <2>4. \A c \in Conns : bound'[c] = None
    BY <1>1, <2>1 DEF HolderInv, consoles
  <2>5. PICK now \in 1 .. MaxId + 1 :
          \/ /\ now \in Ids /\ old.one \in SUBSET OldTurns
             /\ conv' = [conv EXCEPT ![now] = old.one] /\ cached' = {now}
          \/ /\ now \in Ids /\ Stored(now) \in SUBSET Turns
             /\ conv' = [conv EXCEPT ![now] = Stored(now)] /\ cached' = {now}
          \/ UNCHANGED <<conv, cached>>
    BY <1>1, <1>4, StartIs
  <2>6. cached = {}
    BY <2>1 DEF Typed, ServerInv
  <2>7. \A i \in cached' : conv'[i] # None
    <3>1. CASE /\ now \in Ids /\ old.one \in SUBSET OldTurns
               /\ conv' = [conv EXCEPT ![now] = old.one] /\ cached' = {now}
      BY <1>1, <3>1, NoneApart DEF StoreType
    <3>2. CASE /\ now \in Ids /\ Stored(now) \in SUBSET Turns
               /\ conv' = [conv EXCEPT ![now] = Stored(now)] /\ cached' = {now}
      BY <1>1, <3>2, NoneApart DEF StoreType
    <3>3. QED BY <2>5, <2>6, <3>1, <3>2
  <2>8. QED BY <2>2, <2>3, <2>4, <2>7 DEF HolderInv
<1>5. CASE Crash
  <2>1. /\ pc' = [r \in Replies |-> IF pc[r] = "new" THEN "new" ELSE "over"]
        /\ at' = [r \in Replies |-> None] /\ bound' = [c \in Conns |-> None] /\ cached' = {}
    BY <1>5 DEF Crash
  <2>2. \A i \in Ids : ~Held(i)'
    BY <2>1, NoneApart DEF Held, Live
  <2>3. QED BY <2>1, <2>2 DEF HolderInv, Live
<1>6. ASSUME NEW s \in SUBSET Ids, Goes(s), up, up',
             \A i \in Ids : conv[i] # None => conv'[i] # None,
             \A i \in s \cup cached' : i \in cached \/ conv'[i] # None
      PROVE  HolderInv'
  <2>1. \A r \in Replies : at'[r] \in Ids \/ pc'[r] \notin Live \cup {"open"}
    <3>1. ASSUME NEW r \in Replies, pc'[r] \in Live \cup {"open"} PROVE at'[r] \in Ids
      <4>1. \A c \in Conns : bound[c] # None => bound[c] \in Ids
        BY TypeParts, <1>1 DEF ConsoleType
      <4>2. \/ pc[r] \in Live \cup {"open"} /\ at'[r] = at[r]
            \/ \E c \in Conns : bound[c] # None /\ at'[r] = bound[c]
            \/ at'[r] \in Ids
        BY <1>6, <3>1 DEF Goes, Live
      <4>3. QED BY <1>1, <4>1, <4>2 DEF HolderInv
    <3>2. QED BY <3>1
  <2>2. ASSUME NEW i \in Ids, i \in cached' \/ Held(i)' PROVE conv'[i] # None
    <3>1. i \in cached' \/ Held(i) \/ i \in s
      BY <1>1, <1>6, <2>2, GoesHeld
    <3>2. QED BY <1>1, <1>6, <3>1 DEF HolderInv
  <2>3. QED BY <1>6, <2>1, <2>2 DEF HolderInv
<1>7. CASE StoreStep
  <2>1. ASSUME NEW a \in BOOLEAN, Create(a), Goes({}) PROVE HolderInv'
    <3>1. PICK i \in Ids : /\ Free /\ up' = up /\ Stored(i) \in SUBSET Turns
                           /\ conv' = [conv EXCEPT ![i] = Stored(i)] /\ cached' = cached \cup {i}
      BY <1>1, <2>1, CreateIs
    <3>2. /\ \A j \in Ids : conv[j] # None => conv'[j] # None
          /\ \A j \in cached' : j \in cached \/ conv'[j] # None
      BY <1>1, <3>1, NoneApart DEF StoreType
    <3>3. QED BY <1>6, <2>1, <3>1, <3>2 DEF Free
  <2>2. ASSUME Free, UNCHANGED <<up, objects>>, Goes({}) PROVE HolderInv'
    BY <1>6, <2>2 DEF Free, objects
  <2>3. ASSUME NEW i \in Ids, NEW n \in Names, Rename(i, n), Goes({}) PROVE HolderInv'
    BY <2>2, <2>3 DEF Rename
  <2>4. ASSUME NEW i \in Ids, Activate(i), Goes({}) PROVE HolderInv'
    BY <2>2, <2>4 DEF Activate
  <2>5. ASSUME NEW i \in Ids, Delete(i), Goes({}) PROVE HolderInv'
    <3>1. Free /\ up' = up
      BY <1>1, <2>5, DeleteIs
    <3>2. \/ cached' = cached \ {i} /\ UNCHANGED conv
          \/ \E n \in Ids : /\ conv' = [conv EXCEPT ![n] = Stored(n)] /\ Stored(n) \in SUBSET Turns
                            /\ cached' = (cached \ {i}) \cup {n}
      BY <1>1, <2>5, DeleteIs
    <3>3. /\ \A j \in Ids : conv[j] # None => conv'[j] # None
          /\ \A j \in cached' : j \in cached \/ conv'[j] # None
      BY <1>1, <3>2, NoneApart DEF StoreType
    <3>4. QED BY <1>6, <2>5, <3>1, <3>3 DEF Free
  <2>6. ASSUME NEW i \in Ids, Open(i), Goes({i}) PROVE HolderInv'
    <3>1. Free /\ up' = up
      BY <2>6 DEF Open
    <3>2. /\ cached' = cached \cup {i}
          /\ (UNCHANGED conv /\ i \in cached) \/ conv' = [conv EXCEPT ![i] = Stored(i)]
      BY <1>1, <2>6, OpenIs
    <3>3. Stored(i) # None
      BY <1>1, StoredType, NoneApart
    <3>4. /\ \A j \in Ids : conv[j] # None => conv'[j] # None
          /\ \A j \in {i} \cup cached' : j \in cached \/ conv'[j] # None
      BY <1>1, <3>2, <3>3 DEF StoreType
    <3>5. QED BY <1>6, <2>6, <3>1, <3>4 DEF Free
  <2>7. ASSUME Frame, Goes({}) PROVE HolderInv'
    <3>1. CASE up
      BY <1>6, <2>7, <3>1 DEF Frame, objects
    <3>2. CASE ~up
      <4>1. /\ \A r \in Replies : pc[r] \notin Live \cup {"open"}
            /\ \A c \in Conns : bound[c] = None
        BY <1>1, <3>2 DEF HolderInv
      <4>2. \A c \in Conns : bound'[c] = None
        BY <2>7, <4>1 DEF Goes
      <4>3. \A r \in Replies : pc'[r] \notin Live \cup {"open"}
        <5>1. entries = NoEntries
          BY <3>2 DEF Typed, ServerInv
        <5>2. \A j \in Ids : entries[j] = None
          BY <5>1 DEF NoEntries
        <5>3. QED BY <2>7, <4>1, <5>2 DEF Goes, Live
      <4>4. \A i \in Ids : ~Held(i)'
        BY <4>2, <4>3, NoneApart DEF Held
      <4>5. UNCHANGED <<cached, conv>>
        BY <2>7 DEF Frame, objects
      <4>6. QED BY <1>1, <4>2, <4>3, <4>4, <4>5 DEF HolderInv
    <3>3. QED BY <3>1, <3>2
  <2>8. QED BY <1>7, <2>1, <2>3, <2>4, <2>5, <2>6, <2>7 DEF StoreStep
<1>8. ASSUME NEW r \in Replies, SaveTurn(r) \/ Note(r) PROVE HolderInv'
  <2>1. /\ UNCHANGED <<at, cached, up>> /\ UNCHANGED consoles /\ pc[r] \in Live
        /\ pc' = [pc EXCEPT ![r] = "note"] \/ pc' = [pc EXCEPT ![r] = "over"]
    BY <1>8 DEF SaveTurn, Note, Answered, Live, objects
  <2>2. \A i \in Ids : conv[i] # None => conv'[i] # None
    <3>1. CASE SaveTurn(r)
      <4>1. conv' = [conv EXCEPT ![at[r]] = conv[at[r]] \cup {r}] /\ conv[at[r]] \in SUBSET Turns
            /\ r \in Turns /\ at[r] \in Ids
        BY <3>1, SaveTurnIs
      <4>2. conv[at[r]] \cup {r} # None
        BY <4>1, NoneApart
      <4>3. QED BY <1>1, <4>1, <4>2 DEF StoreType
    <3>2. CASE Note(r)
      BY <3>2 DEF Note, objects
    <3>3. QED BY <1>8, <3>1, <3>2
  <2>3. \A i \in Ids : Held(i)' => Held(i)
    BY <1>8, TurnHeld
  <2>4. \A q \in Replies : pc'[q] \in Live \cup {"open"} => pc[q] \in Live \cup {"open"}
    BY <1>1, <2>1 DEF ReplyType
  <2>5. QED BY <1>1, <2>1, <2>2, <2>3, <2>4 DEF HolderInv, consoles
<1>9. QED BY <1>3, <1>4, <1>5, <1>7, <1>8, Kinds

JobRecords == [step : Steps, conn : Conns \cup {None}, id : Ids \cup {None}, activate : BOOLEAN]
JobOk(j) == /\ j \in JobRecords
            /\ j.step # "none" => j.conn \in Conns
            /\ j.step \in {"bind", "activate", "reopen"} => j.id \in Ids

\* A switch goes from one call to the next.
LEMMA JobIs ==
  /\ JobOk(NoJob) /\ NoJob.step = "none"
  /\ \A s \in Steps, c \in Conns, i \in Ids, a \in BOOLEAN :
       JobOk([step |-> s, conn |-> c, id |-> i, activate |-> a])
  /\ \A c \in Conns : JobOk([step |-> "check", conn |-> c, id |-> None, activate |-> FALSE])
BY DEF JobOk, JobRecords, Steps, NoJob

LEMMA JobStep ==
  ASSUME NEW j, JobOk(j), j.step # "none"
  PROVE  /\ \A i \in Ids : JobOk([[j EXCEPT !.step = "bind"] EXCEPT !.id = i])
         /\ \A s \in {"bind", "activate"} : j.id \in Ids => JobOk([j EXCEPT !.step = s])
BY DEF JobOk, JobRecords, Steps

JobsOk == job \in [Procs -> JobRecords] /\ \A p \in Procs : JobOk(job[p])

LEMMA JobsAre ==
  ASSUME Typed
  PROVE  /\ JobsOk /\ shown \in [Conns -> Ids \cup {None}]
         /\ \A p \in Procs : job[p].step # "none" => up /\ job[p].conn \in Conns
BY TypeParts DEF Typed, JobInv, ConsoleType, JobsOk, JobOk, JobRecords

\* One process goes on.
LEMMA JobGoes ==
  ASSUME Typed, NEW p \in Procs, NEW j, JobOk(j), job' = [job EXCEPT ![p] = j], up' = up,
         j.step # "none" => up
  PROVE  JobInv' /\ job' \in [Procs -> JobRecords]
<1>1. JobsOk /\ \A q \in Procs : job[q].step # "none" => up
  BY JobsAre
<1>2. /\ job' \in [Procs -> JobRecords]
      /\ \A q \in Procs : job'[q] = IF q = p THEN j ELSE job[q]
  BY <1>1 DEF JobsOk, JobOk
<1>3. \A q \in Procs : JobOk(job'[q]) /\ (job'[q].step # "none" => up')
  BY <1>1, <1>2 DEF JobsOk
<1>4. QED BY <1>2, <1>3 DEF JobInv, JobOk

JobShownOk == JobInv' /\ job' \in [Procs -> JobRecords] /\ shown' \in [Conns -> Ids \cup {None}]

LEMMA JobSame ==
  ASSUME Typed, UNCHANGED job, up' = up \/ up', shown' \in [Conns -> Ids \cup {None}]
  PROVE  JobShownOk
<1>1. JobsOk /\ JobInv
  BY JobsAre DEF Typed
<1>2. JobInv'
  BY <1>1 DEF JobInv
<1>3. QED BY <1>1, <1>2 DEF JobShownOk, JobsOk

LEMMA ShownGoes ==
  ASSUME Typed, NEW c \in Conns, NEW i \in Ids \cup {None},
         shown' = [shown EXCEPT ![c] = i] \/ shown' = shown
  PROVE  shown' \in [Conns -> Ids \cup {None}]
BY JobsAre

LEMMA ToolJob == ASSUME Typed, NEW p \in Procs, ToolOrLoop(p) PROVE JobShownOk
<1>1. /\ JobsOk /\ shown \in [Conns -> Ids \cup {None}] /\ TypeOK /\ IndexType
      /\ \A q \in Procs : job[q].step # "none" => up /\ job[q].conn \in Conns
  BY JobsAre, TypeParts DEF Typed
<1>2. ASSUME NEW c \in Conns, CreateHere(p, c) PROVE JobShownOk
  <2>1. PICK i \in Ids : /\ Free /\ up' = up /\ active' \in {i, active}
                         /\ Create(TRUE) /\ UNCHANGED consoles
    BY <1>1, <1>2, CreateIs DEF CreateHere
  <2>2. active' \in Ids
    BY <2>1 DEF Create
  <2> DEFINE s == IF p = Loop THEN "reopen" ELSE "check"
             j == [step |-> s, conn |-> c, id |-> active', activate |-> FALSE]
  <2>3. JobOk(j)
    BY <2>2, JobIs DEF Steps
  <2>4. job' = [job EXCEPT ![p] = j]
    BY <1>2 DEF CreateHere
  <2> HIDE DEF j
  <2>5. JobInv' /\ job' \in [Procs -> JobRecords]
    BY <2>1, <2>3, <2>4, JobGoes DEF Free
  <2>6. QED BY <1>1, <2>1, <2>5 DEF JobShownOk, consoles
<1>3. ASSUME NEW c \in Conns, NEW i \in Ids, Switch(p, c, i) PROVE JobShownOk
  <2> DEFINE j == [step |-> "bind", conn |-> c, id |-> i, activate |-> TRUE]
  <2>1. /\ up' = up /\ up /\ shown' = [shown EXCEPT ![c] = i]
        /\ job' = [job EXCEPT ![p] = j]
    BY <1>3 DEF Switch, Frame, Free
  <2>2. JobOk(j)
    BY JobIs DEF Steps
  <2> HIDE DEF j
  <2>3. JobInv' /\ job' \in [Procs -> JobRecords]
    BY <2>1, <2>2, JobGoes
  <2>4. QED BY <1>1, <2>1, <2>3 DEF JobShownOk
<1>4. ASSUME NEW c \in Conns, NEW i \in Ids, DeleteHere(p, c, i) PROVE JobShownOk
  <2> DEFINE j == [step |-> "check", conn |-> c, id |-> None, activate |-> FALSE]
  <2>1. /\ up' = up /\ up /\ UNCHANGED consoles
        /\ job' = [job EXCEPT ![p] = j] \/ job' = job
    BY <1>4 DEF DeleteHere, Delete, Free
  <2>2. JobOk(j)
    BY JobIs
  <2> HIDE DEF j
  <2>3. CASE job' = [job EXCEPT ![p] = j]
    <3>1. JobInv' /\ job' \in [Procs -> JobRecords]
      BY <2>1, <2>2, <2>3, JobGoes
    <3>2. QED BY <1>1, <2>1, <3>1 DEF JobShownOk, consoles
  <2>4. CASE job' = job
    BY <1>1, <2>1, <2>4, JobSame DEF consoles
  <2>5. QED BY <2>1, <2>3, <2>4
<1>5. CASE Check(p)
  <2> DEFINE i == IF job[p].id = None THEN active ELSE job[p].id
  <2>1. up' = up /\ up /\ job[p].step # "none" /\ job[p].conn \in Conns
    BY <1>1, <1>5 DEF Check, Frame, Free
  <2>2. i \in Ids
    BY <1>1, <2>1 DEF Typed, ServerInv, JobsOk, JobOk, JobRecords
  <2>3. \/ /\ shown' = [shown EXCEPT ![job[p].conn] = i]
           /\ job' = [job EXCEPT ![p] = [[job[p] EXCEPT !.step = "bind"] EXCEPT !.id = i]]
        \/ job' = [job EXCEPT ![p] = NoJob] /\ shown' = shown
    <3>1. \/ /\ shown' = [shown EXCEPT ![job[p].conn] = i]
             /\ job' = [job EXCEPT ![p].step = "bind", ![p].id = i]
          \/ job' = [job EXCEPT ![p] = NoJob] /\ shown' = shown
      BY <1>5 DEF Check, Ends
    <3>2. job \in [Procs -> JobRecords] /\ job[p] \in JobRecords
      BY <1>1 DEF JobsOk
    <3> HIDE DEF i
    <3>3. [job EXCEPT ![p].step = "bind", ![p].id = i]
            = [job EXCEPT ![p] = [[job[p] EXCEPT !.step = "bind"] EXCEPT !.id = i]]
      BY <3>2 DEF JobRecords
    <3>4. QED BY <3>1, <3>3
  <2> HIDE DEF i
  <2> DEFINE j == [[job[p] EXCEPT !.step = "bind"] EXCEPT !.id = i]
  <2>4. JobOk(j)
    BY <1>1, <2>1, <2>2, JobStep DEF JobsOk
  <2>5. job' = [job EXCEPT ![p] = j] \/ job' = [job EXCEPT ![p] = NoJob]
    BY <2>3
  <2> HIDE DEF j
  <2>6. JobInv' /\ job' \in [Procs -> JobRecords]
    BY <2>1, <2>4, <2>5, JobIs, JobGoes
  <2>7. shown' \in [Conns -> Ids \cup {None}]
    BY <2>1, <2>2, <2>3, ShownGoes
  <2>8. QED BY <2>6, <2>7 DEF JobShownOk
<1>6. CASE Reopen(p)
  <2> DEFINE j == [job[p] EXCEPT !.step = "bind"]
  <2>1. /\ up' = up /\ job[p].step = "reopen"
        /\ shown' = [shown EXCEPT ![job[p].conn] = job[p].id]
        /\ job' = [job EXCEPT ![p] = j]
    BY <1>6 DEF Reopen, Frame, Continue
  <2>2. up /\ job[p].conn \in Conns /\ job[p].id \in Ids
    BY <1>1, <2>1 DEF JobsOk, JobOk
  <2>3. JobOk(j)
    BY <1>1, <2>1, <2>2, JobStep DEF JobsOk
  <2> HIDE DEF j
  <2>4. JobInv' /\ job' \in [Procs -> JobRecords]
    BY <2>1, <2>2, <2>3, JobGoes
  <2>5. shown' \in [Conns -> Ids \cup {None}]
    BY <2>1, <2>2, ShownGoes
  <2>6. QED BY <2>4, <2>5 DEF JobShownOk
<1>7. ASSUME Fails(p), job[p].conn \in Conns PROVE JobShownOk
  <2>1. /\ up' = up /\ job' = [job EXCEPT ![p] = NoJob]
        /\ shown' = [shown EXCEPT ![job[p].conn] = None] \/ shown' = shown
    BY <1>7 DEF Fails, Frame, Ends, consoles
  <2>2. JobInv' /\ job' \in [Procs -> JobRecords]
    BY <2>1, JobIs, JobGoes
  <2>3. shown' \in [Conns -> Ids \cup {None}]
    BY <1>7, <2>1, ShownGoes
  <2>4. QED BY <2>2, <2>3 DEF JobShownOk
<1>8. CASE Bind(p)
  <2>1. job[p].step = "bind" /\ job[p].conn \in Conns /\ job[p].id \in Ids /\ up
    BY <1>1, <1>8 DEF Bind, JobsOk, JobOk
  <2>2. CASE Fails(p)
    BY <1>7, <2>1, <2>2
  <2>3. CASE ~Fails(p)
    <3> DEFINE j == [job[p] EXCEPT !.step = "activate"]
    <3>1. /\ up' = up /\ UNCHANGED shown
          /\ job' = [job EXCEPT ![p] = j] \/ job' = [job EXCEPT ![p] = NoJob]
      BY <1>8, <2>3 DEF Bind, Open, Continue, Ends
    <3>2. JobOk(j)
      BY <1>1, <2>1, JobStep DEF JobsOk
    <3> HIDE DEF j
    <3>3. JobInv' /\ job' \in [Procs -> JobRecords]
      BY <2>1, <3>1, <3>2, JobIs, JobGoes
    <3>4. QED BY <1>1, <3>1, <3>3 DEF JobShownOk
  <2>4. QED BY <2>2, <2>3
<1>9. CASE Select(p)
  <2>1. job[p].step = "activate" /\ job[p].conn \in Conns
    BY <1>1, <1>9 DEF Select
  <2>2. CASE Fails(p)
    BY <1>7, <2>1, <2>2
  <2>3. CASE ~Fails(p)
    <3>1. up' = up /\ UNCHANGED consoles /\ job' = [job EXCEPT ![p] = NoJob]
      BY <1>9, <2>3 DEF Select, Activate, Ends
    <3>2. JobInv' /\ job' \in [Procs -> JobRecords]
      BY <3>1, JobIs, JobGoes
    <3>3. QED BY <1>1, <3>1, <3>2 DEF JobShownOk, consoles
  <2>4. QED BY <2>2, <2>3
<1>10. QED BY <1>2, <1>3, <1>4, <1>5, <1>6, <1>8, <1>9 DEF ToolOrLoop

LEMMA JobNext == ASSUME Typed, [Next]_vars PROVE JobShownOk
<1>1. shown \in [Conns -> Ids \cup {None}] /\ active \in Ids \cup {None}
  BY JobsAre, TypeParts DEF Typed, IndexType
<1>2. CASE UNCHANGED vars \/ WriteNext \/ Migrate \/ Rollback
  BY <1>1, <1>2, JobSame DEF vars, consoles, WriteNext, Migrate, Rollback
<1>3. CASE Start
  BY <1>1, <1>3, JobSame DEF Start, consoles
<1>4. CASE Crash
  <2>1. job' = [p \in Procs |-> NoJob] /\ shown' = [c \in Conns |-> None]
    BY <1>4 DEF Crash
  <2>2. QED BY <2>1, JobIs DEF JobShownOk, JobInv, JobOk
<1>5. CASE Rest
  <2>1. UNCHANGED job /\ UNCHANGED consoles /\ up' = up
    BY <1>5 DEF Rest, Create, Rename, Activate, Delete, Open
  <2>2. QED BY <1>1, <2>1, JobSame DEF consoles
<1>6. ASSUME NEW c \in Conns, Disconnect(c) PROVE JobShownOk
  <2>1. UNCHANGED job /\ up' = up /\ shown' = [shown EXCEPT ![c] = None]
    BY <1>6 DEF Disconnect, Frame
  <2>2. QED BY <1>1, <2>1, JobSame
<1>7. ASSUME NEW c \in Conns, NEW i \in Ids, Connect(c, i) PROVE JobShownOk
  <2> DEFINE id == IF entries[i] # None THEN i ELSE active
             j == [step |-> "bind", conn |-> c, id |-> id, activate |-> FALSE]
  <2>1. /\ up /\ up' = up /\ shown' = [shown EXCEPT ![c] = id]
        /\ job' = [job EXCEPT ![Loop] = j]
    BY <1>7 DEF Connect, Frame, Free
  <2>2. id \in Ids
    BY <2>1 DEF Typed, ServerInv
  <2>3. JobOk(j)
    BY <2>2, JobIs DEF Steps
  <2>4. Loop \in Procs
    BY DEF Procs
  <2> HIDE DEF j
  <2>5. JobInv' /\ job' \in [Procs -> JobRecords]
    BY <2>1, <2>3, <2>4, JobGoes
  <2>6. QED BY <1>1, <2>1, <2>2, <2>5 DEF JobShownOk
<1>8. ASSUME NEW r \in Replies, Reply(r) PROVE JobShownOk
  <2>1. UNCHANGED job /\ UNCHANGED consoles /\ up' = up
    BY <1>8 DEF Reply, Begin, BeginTask, OpenTask, SaveTurn, Note, Frame, Open
  <2>2. QED BY <1>1, <2>1, JobSame DEF consoles
<1>9. QED BY <1>2, <1>3, <1>4, <1>5, <1>6, <1>7, <1>8, ToolJob DEF Next

LEMMA InitTyped == ASSUME Init PROVE Typed
<1>1. /\ old \in OldFiles /\ OldFiles \subseteq [one : (SUBSET OldTurns) \cup {None},
                                               each : [OldIds -> (SUBSET OldTurns) \cup {None}]]
      /\ OldIds \subseteq Ids /\ Ids \subseteq Nat
  BY SessionAssumption, NoneApart DEF Init
<1>2. FilesType /\ IndexType
  BY <1>1 DEF Init, FilesType, IndexType, NoEntries
<1>3. StoreType
  <2>1. up \in BOOLEAN /\ conv \in [Ids -> (SUBSET Turns) \cup {None}]
    BY DEF Init
  <2>2. cached \subseteq Ids /\ retired \subseteq Ids /\ base \in Nat /\ writes \in Seq(Writes)
    BY DEF Init
  <2>3. QED BY <2>1, <2>2 DEF StoreType
<1>4. ReplyType
  BY DEF Init, ReplyType
<1>5. /\ job \in [Procs -> JobRecords] /\ JobInv
      /\ shown \in [Conns -> Ids \cup {None}] /\ bound \in [Conns -> Ids \cup {None}]
  BY JobIs DEF Init, JobInv, JobOk
<1>6. ConsoleType
  BY <1>5 DEF ConsoleType, JobRecords
<1>7. HistoryType
  BY <1>1 DEF Init, HistoryType
<1>8. ServerInv
  BY DEF Init, ServerInv
<1>9. HolderInv
  BY NoneApart DEF Init, HolderInv, Held, Live
<1>10. QED BY <1>2, <1>3, <1>4, <1>5, <1>6, <1>7, <1>8, <1>9 DEF Typed, TypeOK

LEMMA TypedNext == ASSUME Typed, [Next]_vars PROVE Typed'
<1>1. JobInv' /\ job' \in [Procs -> JobRecords] /\ shown' \in [Conns -> Ids \cup {None}]
  BY JobNext DEF JobShownOk
<1>2. ConsoleType'
  BY <1>1, RepliesNext DEF ConsoleType, JobRecords
<1>3. TypeOK'
  BY <1>2, FilesNext, IndexNext, StoreNext, RepliesNext, HistoryNext DEF TypeOK
<1>4. QED BY <1>1, <1>3, IndexNext, HolderNext DEF Typed

LEMMA AlwaysTyped == Spec => []Typed
<1>1. Init => Typed
  BY InitTyped
<1>2. Typed /\ [Next]_vars => Typed'
  BY TypedNext
<1>3. QED BY <1>1, <1>2, PTL DEF Spec

\* Every variable has its type.  A reply that has an object has a session, and a
\* switch under way has its console and knows where it goes.
THEOREM TypeCorrect == Spec => []TypeOK
<1>1. Typed => TypeOK
  BY DEF Typed
<1>2. QED BY <1>1, AlwaysTyped, PTL

LEMMA ActiveListed == ASSUME Typed PROVE IndexSound
BY NoneApart DEF Typed, ServerInv, IndexSound, Free

(* Ids and what is still to be written *)

Ops(s) == {s[k] : k \in DOMAIN s}

LEMMA OpsOf ==
  /\ Ops(<<>>) = {}
  /\ \A a : Ops(<<a>>) = {a}
  /\ \A a, b : Ops(<<a, b>>) = {a, b}
  /\ \A a, b, c : Ops(<<a, b, c>>) = {a, b, c}
  /\ \A a, b, c, d : Ops(<<a, b, c, d>>) = {a, b, c, d}
  /\ \A a, b, c, d, e : Ops(<<a, b, c, d, e>>) = {a, b, c, d, e}
BY DEF Ops

LEMMA OpsWrite ==
  ASSUME TypeOK, WriteNext, NEW w \in Ops(writes')
  PROVE  /\ writes[1] \in Ops(writes)
         /\ \/ w \in Ops(writes)
            \/ writes[1].op = "copies" /\ \E s \in SUBSET writes[1].ids : w = Copies(s)
<1>1. PICK k \in DOMAIN writes' : w = writes'[k]
  BY DEF Ops
<1>2. StoreType
  BY TypeParts
<1>3. writes[1] \in Ops(writes)
  BY <1>2, WriteSeq DEF Ops
<1>4. CASE k + 1 \in DOMAIN writes /\ writes'[k] = writes[k + 1]
  BY <1>1, <1>3, <1>4 DEF Ops
<1>5. CASE /\ writes[1].op = "copies" /\ DOMAIN writes' = DOMAIN writes
           /\ \A j \in DOMAIN writes' : j # 1 => writes'[j] = writes[j]
           /\ \E i \in writes[1].ids : writes'[1] = Copies(writes[1].ids \ {i})
  BY <1>1, <1>3, <1>5 DEF Ops
<1>6. QED BY <1>1, <1>2, <1>4, <1>5, WriteSeq

LEMMA OpsTyped == ASSUME TypeOK PROVE \A w \in Ops(writes) : w \in Writes
<1>1. writes \in Seq(Writes)
  BY TypeParts DEF StoreType
<1>2. QED BY <1>1 DEF Ops

\* The sessions a write may bring to disk.
Touched(w) == IF w.op = "doc" THEN {w.id} ELSE IF w.op = "copies" THEN w.ids
              ELSE IF w.op = "index" THEN Listed(w.value.entries) ELSE {}

LEMMA TouchedIs ==
  /\ \A i, ts : Doc(i, ts).op = "doc" /\ Doc(i, ts).id = i /\ Doc(i, ts).turns = ts
                /\ Touched(Doc(i, ts)) = {i}
  /\ \A s : Copies(s).op = "copies" /\ Copies(s).ids = s /\ Touched(Copies(s)) = s
  /\ \A a, es : /\ SaveIndex(a, es).op = "index" /\ SaveIndex(a, es).value.entries = es
                /\ SaveIndex(a, es).value.active = a /\ Touched(SaveIndex(a, es)) = Listed(es)
  /\ \A i : Removed(i).op = "remove" /\ Removed(i).id = i /\ Touched(Removed(i)) = {}
  /\ Unlink.op = "unlink" /\ Touched(Unlink) = {} /\ Mark.op = "mark" /\ Touched(Mark) = {}
BY DEF Touched, Doc, Copies, SaveIndex, Removed, Unlink, Mark

\* While the server runs what is pending is listed; while it does not, nothing
\* deleted is brought back but from an older version's file.
Sound(w) ==
  /\ \A i \in Touched(w) : i \in used /\ IF up THEN entries[i] # None
                                         ELSE i \notin deleted \/ OldFile(i)
  /\ w.op = "remove" => w.id \in retired
  /\ w.op = "copies" => ~up /\ \A i \in w.ids : OldFile(i) /\ i \in redone

\* An id that anything is known of was given out, and none of this second is free
\* but those not given out.
IdsUsed ==
  /\ \A i \in Ids : docs[i] # None \/ OldFile(i) \/ entries[i] # None \/ Held(i) => i \in used
  /\ saved # None => Listed(saved.entries) \subseteq used
  /\ \A t \in Turns : kept[t] \subseteq used
  /\ retired \subseteq deleted /\ deleted \subseteq used
  /\ up => \A i \in used : i >= base => entries[i] # None \/ i \in retired
KnownInv == IdsUsed /\ \A w \in Ops(writes) : Sound(w)

LEMMA OldFileStays == ASSUME Typed, [Next]_vars PROVE \A i : OldFile(i)' = OldFile(i)
BY FilesNext DEF OldFile

LEMMA SoundStays ==
  ASSUME Typed, [Next]_vars, KnownInv, up' = up, used \subseteq used', retired \subseteq retired',
         redone \subseteq redone', up \/ deleted' = deleted,
         \A i \in Ids : entries[i] # None => entries'[i] # None
  PROVE  \A w \in Ops(writes) : Sound(w)'
<1>1. ASSUME NEW w \in Ops(writes) PROVE Sound(w)'
  <2>1. Sound(w) /\ w \in Writes
    BY <1>1, OpsTyped DEF KnownInv, Typed
  <2>2. Touched(w) \subseteq Ids
    BY <2>1, WriteFields, NoneApart DEF Touched, Listed
  <2>3. QED BY <2>1, <2>2, OldFileStays DEF Sound
<1>2. QED BY <1>1

\* A new id is one that was never given out.
LEMMA NextIsNew ==
  ASSUME TypeOK, KnownInv, up, NEW i \in Ids, i >= base, entries[i] = None, i \notin retired
  PROVE  i \notin used
BY DEF KnownInv, IdsUsed

LEMMA NowIsNew == ASSUME TypeOK, NEW n \in Ids, IsNow(n) PROVE n \notin used
<1>1. n \in n .. MaxId
  BY SessionAssumption DEF Ids
<1>2. QED BY <1>1 DEF IsNow

LEMMA LaterUnused ==
  ASSUME TypeOK, NEW n \in 1 .. MaxId + 1, IsNow(n) PROVE \A i \in used : ~(i >= n)
<1>1. used \subseteq Ids
  BY TypeParts DEF HistoryType
<1>2. ASSUME NEW i \in used, i >= n PROVE i \in n .. MaxId
  BY <1>1, <1>2, SessionAssumption DEF Ids
<1>3. QED BY <1>2 DEF IsNow

LEMMA NewStored ==
  ASSUME TypeOK, KnownInv, NEW i \in Ids, i \notin used
  PROVE  /\ docs[i] = None /\ ~OldFile(i) /\ Stored(i) = {} /\ entries[i] = None /\ ~Held(i)
         /\ \A t \in Turns : i \notin kept[t]
BY DEF KnownInv, IdsUsed, Stored

LEMMA FoundUsed ==
  ASSUME TypeOK, KnownInv, NEW i \in Ids, Found[i] # None PROVE i \in used
<1>1. CASE ReadIndex.entries[i] # None
  <2>1. CASE saved # None
    <3>1. SavedEntries[i] # None
      BY <1>1, <2>1 DEF ReadIndex
    <3>2. saved.entries[i] # None
      BY <3>1 DEF SavedEntries, NoEntries
    <3>3. QED BY <2>1, <3>2 DEF KnownInv, IdsUsed, Listed
  <2>2. CASE saved = None
    <3>1. OldFile(i)
      BY <1>1, <2>2 DEF ReadIndex
    <3>2. QED BY <3>1 DEF KnownInv, IdsUsed
  <2>3. QED BY <2>1, <2>2
<1>2. CASE i \in Orphans
  BY <1>2 DEF Orphans, KnownInv, IdsUsed
<1>3. QED BY <1>1, <1>2 DEF Found

\* A start, in terms of the new id.
LEMMA StartNew ==
  ASSUME Typed, KnownInv, Start
  PROVE  /\ \A i \in used : ~(i >= base')
         /\ \A i \in Ids : Found[i] # None => entries'[i] # None
         /\ \/ used' = used /\ entries' = Found /\ cached' = {}
            \/ /\ base' \in Ids /\ base' \notin used /\ used' = used \cup {base'}
               /\ entries'[base'] # None /\ cached' = {base'}
               /\ \A i \in Ids : i # base' => entries'[i] = Found[i]
               /\ docs[base'] = None /\ ~OldFile(base') /\ Stored(base') = {}
         /\ \A w \in Ops(writes') :
              \/ w = Unlink
              \/ \E a \in Ids \cup {None} : w = SaveIndex(a, entries')
              \/ /\ cached' = {base'} /\ base' \in Ids /\ conv'[base'] \in SUBSET Turns
                 /\ w = Doc(base', {}) \/ w = Doc(base', conv'[base'])
<1>1. /\ TypeOK /\ FilesType /\ Found \in [Ids -> Entry \cup {None}] /\ cached = {}
      /\ conv \in [Ids -> (SUBSET Turns) \cup {None}]
  BY TypeParts, FoundType DEF Typed, StoreType, ServerInv, Start
<1>2. PICK now \in 1 .. MaxId + 1 :
        /\ IsNow(now) /\ base' = now
        /\ \/ /\ now \in Ids /\ old.one \in SUBSET OldTurns /\ active' = now
              /\ entries' = [Found EXCEPT
                   ![now] = [EmptyEntry EXCEPT !.turns = Cardinality(old.one)]]
              /\ conv' = [conv EXCEPT ![now] = old.one] /\ cached' = {now}
              /\ used' = used \cup {now} /\ Stored(now) \in SUBSET Turns
              /\ writes' = <<Doc(now, Stored(now)), Doc(now, old.one),
                             SaveIndex(now, entries'), Unlink>>
           \/ /\ now \in Ids /\ Listed(Found) = {} /\ active' = now
              /\ entries' = [Found EXCEPT ![now] = EmptyEntry]
              /\ conv' = [conv EXCEPT ![now] = Stored(now)] /\ cached' = {now}
              /\ used' = used \cup {now} /\ Stored(now) \in SUBSET Turns
              /\ \E a \in Ids \cup {None} :
                   LET d == Doc(now, Stored(now))
                       x == SaveIndex(a, entries')
                       y == SaveIndex(now, entries')
                   IN \/ writes' = <<d, x>> /\ a = now
                      \/ writes' = <<d, x, y>>
                      \/ writes' = <<Unlink, d, x>> /\ old.one = {} /\ a = now
                      \/ writes' = <<Unlink, d, x, y>> /\ old.one = {}
           \/ /\ entries' = Found /\ UNCHANGED <<conv, cached, used>>
              /\ LET y == SaveIndex(active', Found)
                 IN \/ writes' = <<>>
                    \/ writes' = <<Unlink>> /\ old.one = {}
                    \/ writes' = <<y>>
                    \/ writes' = <<Unlink, y>> /\ old.one = {}
  BY <1>1, StartIs
<1>3. \A i \in used : ~(i >= base')
  BY <1>1, <1>2, LaterUnused
<1>4. now \in Ids => /\ now \notin used /\ docs[now] = None /\ ~OldFile(now) /\ Stored(now) = {}
  BY <1>1, <1>2, NowIsNew, NewStored
<1>5. active' \in Ids /\ entries'[active'] # None /\ entries' \in [Ids -> Entry \cup {None}]
  BY <1>1, StartIs DEF IndexOk
<1>6. CASE /\ now \in Ids /\ old.one \in SUBSET OldTurns /\ active' = now
           /\ entries' = [Found EXCEPT
                ![now] = [EmptyEntry EXCEPT !.turns = Cardinality(old.one)]]
           /\ conv' = [conv EXCEPT ![now] = old.one] /\ cached' = {now}
           /\ used' = used \cup {now}
           /\ writes' = <<Doc(now, Stored(now)), Doc(now, old.one),
                          SaveIndex(now, entries'), Unlink>>
  <2>1. entries'[now] # None /\ \A i \in Ids : i # now => entries'[i] = Found[i]
    BY <1>1, <1>5, <1>6
  <2>2. conv'[now] = old.one /\ conv'[now] \in SUBSET Turns
    BY <1>1, <1>6, NoneApart
  <2> DEFINE d == Doc(now, Stored(now))
             e == Doc(now, old.one)
             x == SaveIndex(now, entries')
  <2>3. writes' = <<d, e, x, Unlink>>
    BY <1>6
  <2>4. /\ d = Doc(base', {}) /\ e = Doc(base', conv'[base'])
        /\ \E a \in Ids \cup {None} : x = SaveIndex(a, entries')
    BY <1>2, <1>4, <1>6, <2>2
  <2> HIDE DEF d, e, x
  <2>5. Ops(writes') = {d, e, x, Unlink}
    BY <2>3, OpsOf
  <2>6. QED BY <1>2, <1>3, <1>4, <1>6, <2>1, <2>2, <2>4, <2>5
<1>7. CASE /\ now \in Ids /\ Listed(Found) = {} /\ active' = now
           /\ entries' = [Found EXCEPT ![now] = EmptyEntry]
           /\ conv' = [conv EXCEPT ![now] = Stored(now)] /\ cached' = {now}
           /\ used' = used \cup {now}
           /\ \E a \in Ids \cup {None} :
                LET d == Doc(now, Stored(now))
                    x == SaveIndex(a, entries')
                    y == SaveIndex(now, entries')
                IN \/ writes' = <<d, x>>
                   \/ writes' = <<d, x, y>>
                   \/ writes' = <<Unlink, d, x>>
                   \/ writes' = <<Unlink, d, x, y>>
  <2>1. entries'[now] # None /\ \A i \in Ids : i # now => entries'[i] = Found[i]
    BY <1>1, <1>5, <1>7
  <2>2. conv'[now] = {}
    BY <1>1, <1>4, <1>7
  <2>3. PICK a \in Ids \cup {None} :
          LET d == Doc(now, Stored(now))
              x == SaveIndex(a, entries')
              y == SaveIndex(now, entries')
          IN \/ writes' = <<d, x>>
             \/ writes' = <<d, x, y>>
             \/ writes' = <<Unlink, d, x>>
             \/ writes' = <<Unlink, d, x, y>>
    BY <1>7
  <2> DEFINE d == Doc(now, Stored(now))
             x == SaveIndex(a, entries')
             y == SaveIndex(now, entries')
  <2>4. \/ writes' = <<d, x>> \/ writes' = <<d, x, y>>
        \/ writes' = <<Unlink, d, x>> \/ writes' = <<Unlink, d, x, y>>
    BY <2>3
  <2>5. /\ d = Doc(base', {})
        /\ \E b \in Ids \cup {None} : x = SaveIndex(b, entries')
        /\ \E b \in Ids \cup {None} : y = SaveIndex(b, entries')
    BY <1>2, <1>4, <1>7
  <2> HIDE DEF d, x, y
  <2>6. Ops(writes') \subseteq {d, x, y, Unlink}
    BY <2>4, OpsOf
  <2>7. \A i \in Ids : Found[i] # None => entries'[i] # None
    BY <2>1
  <2>8. \A w \in Ops(writes') :
          \/ w = Unlink
          \/ \E b \in Ids \cup {None} : w = SaveIndex(b, entries')
          \/ w = Doc(base', {})
    BY <2>5, <2>6
  <2>9. QED BY <1>2, <1>3, <1>4, <1>7, <2>1, <2>2, <2>7, <2>8
<1>8. CASE /\ entries' = Found /\ UNCHANGED <<conv, cached, used>>
           /\ LET y == SaveIndex(active', Found)
              IN \/ writes' = <<>> \/ writes' = <<Unlink>>
                 \/ writes' = <<y>> \/ writes' = <<Unlink, y>>
  <2> DEFINE y == SaveIndex(active', Found)
  <2>1. \/ writes' = <<>> \/ writes' = <<Unlink>> \/ writes' = <<y>> \/ writes' = <<Unlink, y>>
    BY <1>8
  <2>2. \E a \in Ids \cup {None} : y = SaveIndex(a, entries')
    BY <1>5, <1>8
  <2> HIDE DEF y
  <2>3. Ops(writes') \subseteq {y, Unlink}
    BY <2>1, OpsOf
  <2>4. QED BY <1>1, <1>3, <1>8, <2>2, <2>3
<1>9. QED BY <1>2, <1>6, <1>7, <1>8

LEMMA KnownStart == ASSUME Typed, KnownInv, Start PROVE KnownInv'
<1>1. /\ TypeOK /\ up' = TRUE /\ retired' = {} /\ ~up
      /\ UNCHANGED <<files, replyVars, job, consoles>>
      /\ UNCHANGED <<kept, deleted, redone, had>> /\ entries' \in [Ids -> Entry \cup {None}]
  BY StartIs DEF Typed, Start, IndexOk
<1>2. \A i \in Ids : ~Held(i)'
  BY <1>1, HeldStays, NoneHeld
<1>3. used \subseteq used' /\ \A i \in Ids : entries'[i] # None => i \in used'
  BY <1>1, StartNew, FoundUsed
<1>4. \A i \in used' : i >= base' => entries'[i] # None
  BY StartNew
<1>5. IdsUsed'
  <2>1. \A i \in Ids : (docs[i] # None \/ OldFile(i) => i \in used) /\ (OldFile(i)' = OldFile(i))
    BY <1>1 DEF KnownInv, IdsUsed, OldFile, files
  <2>2. \A i \in Ids :
          docs'[i] # None \/ OldFile(i)' \/ entries'[i] # None \/ Held(i)' => i \in used'
    BY <1>1, <1>2, <1>3, <2>1 DEF files
  <2>3. /\ saved' # None => Listed(saved'.entries) \subseteq used'
        /\ \A t \in Turns : kept'[t] \subseteq used'
        /\ retired' \subseteq deleted' /\ deleted' \subseteq used'
    BY <1>1, <1>3 DEF KnownInv, IdsUsed, files
  <2>4. QED BY <1>1, <1>4, <2>2, <2>3 DEF IdsUsed, Listed
<1>6. ASSUME NEW w \in Ops(writes') PROVE Sound(w)'
  <2>1. CASE w = Unlink
    BY <2>1, TouchedIs DEF Sound
  <2>2. ASSUME NEW a, w = SaveIndex(a, entries') PROVE Sound(w)'
    <3>1. Touched(w) = Listed(entries') /\ w.op = "index"
      BY <2>2, TouchedIs
    <3>2. QED BY <1>1, <1>3, <3>1 DEF Sound, Listed
  <2>3. ASSUME NEW ts, w = Doc(base', ts), cached' = {base'}, base' \in Ids PROVE Sound(w)'
    <3>1. Touched(w) = {base'} /\ w.op = "doc"
      BY <2>3, TouchedIs
    <3>2. base' \in used' /\ entries'[base'] # None
      BY <2>3, StartNew
    <3>3. QED BY <1>1, <3>1, <3>2 DEF Sound
  <2>4. QED BY <1>6, <2>1, <2>2, <2>3, StartNew
<1>7. QED BY <1>5, <1>6 DEF KnownInv

\* A write brings to disk what it touches, and nothing else.
LEMMA WriteTouches ==
  ASSUME TypeOK, WriteNext
  PROVE  /\ \A i \in Ids : docs'[i] # None => docs[i] # None \/ i \in Touched(writes[1])
         /\ \A t \in Turns : kept'[t] \subseteq kept[t] \cup Touched(writes[1])
         /\ \A i \in Ids : saved' # None /\ saved'.entries[i] # None =>
              \/ saved # None /\ saved.entries[i] # None
              \/ i \in Touched(writes[1])
<1>1. DocsType
  BY TypeParts
<1>2. CASE writes[1].op = "doc"
  <2>1. Written(writes[1].id, writes[1].turns) /\ Touched(writes[1]) = {writes[1].id}
    BY <1>2, WriteFiles DEF Touched
  <2>2. saved' = saved
    BY <1>2, WriteFiles
  <2>3. QED BY <1>1, <2>1, <2>2 DEF Written, DocsType
<1>3. CASE writes[1].op = "copies"
  <2>1. PICK i \in writes[1].ids : Written(i, old.each[i])
    BY <1>3, WriteFiles
  <2>2. Touched(writes[1]) = writes[1].ids
    BY <1>3 DEF Touched
  <2>3. saved' = saved
    BY <1>3, WriteFiles
  <2>4. QED BY <1>1, <2>1, <2>2, <2>3 DEF Written, DocsType
<1>4. CASE writes[1].op = "index"
  <2>1. saved' = writes[1].value /\ Touched(writes[1]) = Listed(writes[1].value.entries)
    BY <1>4, WriteFiles DEF Touched
  <2>2. UNCHANGED <<docs, kept>>
    BY <1>4, WriteFiles
  <2>3. QED BY <2>1, <2>2 DEF Listed
<1>5. CASE writes[1].op \notin {"doc", "copies", "index"}
  <2>1. docs' = [docs EXCEPT ![writes[1].id] = None] \/ docs' = docs
    BY <1>5, WriteFiles
  <2>2. kept' = kept /\ saved' = saved
    BY <1>5, WriteFiles
  <2>3. QED BY <1>1, <2>1, <2>2 DEF DocsType
<1>6. QED BY <1>2, <1>3, <1>4, <1>5

LEMMA KnownWrite == ASSUME Typed, KnownInv, WriteNext PROVE KnownInv'
<1>1. /\ TypeOK /\ StoreType /\ DocsType /\ [Next]_vars
      /\ UNCHANGED <<up, entries, retired, base, used, deleted, redone>>
      /\ UNCHANGED <<replyVars, consoles>>
  BY TypeParts DEF Typed, WriteNext, index, Next
<1>2. writes[1] \in Ops(writes) /\ writes[1] \in Writes
  BY <1>1, WriteSeq DEF Ops
<1>3. Sound(writes[1])
  BY <1>2 DEF KnownInv
<1>4. \A i \in Ids : Held(i)' = Held(i) /\ OldFile(i)' = OldFile(i)
  BY <1>1, HeldStays, OldFileStays
<1>5. /\ \A i \in Ids : docs'[i] # None => docs[i] # None \/ i \in Touched(writes[1])
      /\ \A t \in Turns : kept'[t] \subseteq kept[t] \cup Touched(writes[1])
  BY <1>1, WriteTouches
<1>6. Touched(writes[1]) \subseteq used
  BY <1>3 DEF Sound
<1>7. saved' # None => Listed(saved'.entries) \subseteq used
  BY <1>1, <1>6, WriteTouches DEF KnownInv, IdsUsed, Listed
<1>8. IdsUsed'
  <2>1. \A i \in Ids : docs'[i] # None => i \in used
    BY <1>5, <1>6 DEF KnownInv, IdsUsed
  <2>2. \A t \in Turns : kept'[t] \subseteq used
    BY <1>5, <1>6 DEF KnownInv, IdsUsed
  <2>3. QED BY <1>1, <1>4, <1>7, <2>1, <2>2 DEF KnownInv, IdsUsed, Listed
<1>9. ASSUME NEW w \in Ops(writes') PROVE Sound(w)'
  <2>1. \A v \in Ops(writes) : Sound(v)'
    BY <1>1, SoundStays
  <2>2. CASE w \in Ops(writes)
    BY <2>1, <2>2
  <2>3. ASSUME writes[1].op = "copies", NEW s \in SUBSET writes[1].ids, w = Copies(s)
        PROVE  Sound(w)'
    <3>1. PICK v \in Ops(writes) : v = writes[1]
      BY <1>2
    <3>2. Sound(v)' /\ v.op = "copies" /\ Touched(v) = v.ids /\ s \subseteq v.ids
      BY <2>1, <2>3, <3>1 DEF Touched
    <3>3. w.op = "copies" /\ w.ids = s /\ Touched(w) = s
      BY <2>3, TouchedIs
    <3>4. QED BY <3>2, <3>3 DEF Sound
  <2>4. QED BY <1>1, <1>9, <2>2, <2>3, OpsWrite
<1>10. QED BY <1>8, <1>9 DEF KnownInv

LEMMA KnownCrash == ASSUME Typed, KnownInv, Crash PROVE KnownInv'
<1>1. /\ TypeOK /\ ~up' /\ writes' = <<>> /\ retired' = {} /\ entries' = NoEntries
      /\ UNCHANGED <<files, used, kept, deleted, redone>>
      /\ bound' = [c \in Conns |-> None] /\ at' = [r \in Replies |-> None]
  BY DEF Typed, Crash, history
<1>2. \A i \in Ids : ~Held(i)' /\ entries'[i] = None /\ OldFile(i)' = OldFile(i)
  BY <1>1, NoneApart DEF Held, NoEntries, OldFile, files
<1>3. IdsUsed'
  BY <1>1, <1>2 DEF KnownInv, IdsUsed, Listed, files
<1>4. Ops(writes') = {}
  BY <1>1, OpsOf
<1>5. QED BY <1>3, <1>4 DEF KnownInv

LEMMA KnownMigrate == ASSUME Typed, KnownInv, Migrate PROVE KnownInv'
<1>1. /\ TypeOK /\ FilesType /\ ~up /\ up' = up /\ redone' = redone \cup OldEach
      /\ used' \subseteq Ids /\ OldEach \subseteq OldIds
      /\ UNCHANGED <<files, entries, retired, kept, deleted, replyVars, consoles>>
  BY TypeParts, MigrateIs, HistoryNext DEF Typed, Migrate, index, HistoryType, Next
<1>2. PICK now \in Ids, es \in [Ids -> Entry \cup {None}] :
        /\ IsNow(now)
        /\ used' = used \cup (IF old.one \in {None, {}} THEN {} ELSE {now})
        /\ \A i \in Ids :
             es[i] # None => i \in OldEach \/ (i = now /\ old.one \notin {None, {}})
        /\ \A k \in DOMAIN writes' :
             \/ writes'[k] = Mark \/ writes'[k] = Copies(OldEach)
             \/ \E a \in Ids \cup {None} : writes'[k] = SaveIndex(a, es)
             \/ k = 1 /\ old.one \notin {None, {}} /\ writes'[k] = Doc(now, old.one)
  BY <1>1, MigrateIs
<1>3. \A i \in Ids : Held(i)' = Held(i) /\ OldFile(i)' = OldFile(i)
  BY <1>1, HeldStays DEF OldFile, files
<1>4. used \subseteq used' /\ now \notin used /\ now \notin deleted /\ ~OldFile(now)
  BY <1>1, <1>2, NowIsNew DEF KnownInv, IdsUsed
<1>5. IdsUsed'
  BY <1>1, <1>3, <1>4 DEF KnownInv, IdsUsed, Listed, files
<1>6. \A i \in OldEach : i \in Ids /\ OldFile(i) /\ i \in used'
  BY <1>1, <1>4, NoneApart DEF OldEach, KnownInv, IdsUsed
<1>7. ASSUME NEW w \in Ops(writes') PROVE Sound(w)'
  <2>1. ASSUME w = Mark PROVE Sound(w)'
    BY <2>1, TouchedIs DEF Sound
  <2>2. ASSUME w = Copies(OldEach) PROVE Sound(w)'
    <3>1. w.op = "copies" /\ w.ids = OldEach /\ Touched(w) = OldEach
      BY <2>2, TouchedIs
    <3>2. QED BY <1>1, <1>3, <1>6, <3>1 DEF Sound
  <2>3. ASSUME NEW a, w = SaveIndex(a, es) PROVE Sound(w)'
    <3>1. w.op = "index" /\ Touched(w) = Listed(es)
      BY <2>3, TouchedIs
    <3>2. \A i \in Listed(es) : i \in used' /\ (i \notin deleted \/ OldFile(i)) /\ i \in Ids
      BY <1>2, <1>4, <1>6 DEF Listed
    <3>3. QED BY <1>1, <1>3, <3>1, <3>2 DEF Sound
  <2>4. ASSUME old.one \notin {None, {}}, w = Doc(now, old.one) PROVE Sound(w)'
    <3>1. w.op = "doc" /\ Touched(w) = {now}
      BY <2>4, TouchedIs
    <3>2. now \in used'
      BY <1>2, <2>4
    <3>3. QED BY <1>1, <1>4, <3>1, <3>2 DEF Sound
  <2>5. QED BY <1>2, <1>7, <2>1, <2>2, <2>3, <2>4 DEF Ops
<1>8. QED BY <1>5, <1>7 DEF KnownInv

\* A call that runs in memory: what it leaves to write is of sessions it lists.
LEMMA KnownCall ==
  ASSUME Typed, KnownInv, [Next]_vars, up, up' = up, UNCHANGED <<files, base, kept, redone>>,
         used \subseteq used', deleted \subseteq deleted',
         retired' \subseteq deleted', deleted' \subseteq used',
         \A i \in Ids : entries'[i] # None => i \in used',
         \A i \in Ids : Held(i)' => i \in used',
         \A i \in used' : i >= base => entries'[i] # None \/ i \in retired',
         \A w \in Ops(writes') :
           /\ \A i \in Touched(w) : i \in used' /\ entries'[i] # None
           /\ w.op = "remove" => w.id \in retired'
           /\ w.op # "copies"
  PROVE  KnownInv'
<1>1. \A i \in Ids : OldFile(i)' = OldFile(i)
  BY OldFileStays
<1>2. \A i \in Ids : docs'[i] # None \/ OldFile(i)' => i \in used'
  BY <1>1 DEF KnownInv, IdsUsed, files
<1>3. saved' # None => Listed(saved'.entries) \subseteq used'
  BY DEF KnownInv, IdsUsed, Listed, files
<1>4. \A t \in Turns : kept'[t] \subseteq used'
  BY DEF KnownInv, IdsUsed
<1>5. IdsUsed'
  BY <1>2, <1>3, <1>4 DEF IdsUsed
<1>6. \A w \in Ops(writes') : Sound(w)'
  BY DEF Sound
<1>7. QED BY <1>5, <1>6 DEF KnownInv

LEMMA KnownCreate ==
  ASSUME Typed, KnownInv, [Next]_vars, NEW a \in BOOLEAN, Create(a), Goes({})
  PROVE  KnownInv'
<1>1. PICK i \in Ids :
        /\ Free /\ UNCHANGED <<files, up, retired, base, kept, deleted, redone, had>>
        /\ IsNext(i, entries, retired)
        /\ entries' = [entries EXCEPT ![i] = EmptyEntry] /\ used' = used \cup {i}
        /\ writes' = <<Doc(i, Stored(i)), SaveIndex(active', entries')>>
  BY CreateIs DEF Typed
<1>2. TypeOK /\ entries \in [Ids -> Entry \cup {None}] /\ up
  BY <1>1, TypeParts DEF Typed, IndexType, Free
<1>3. entries'[i] # None /\ \A j \in Ids : j # i => entries'[j] = entries[j]
  BY <1>1, <1>2, EntryIs
<1>4. \A j \in Ids : Held(j)' => j \in used'
  BY <1>1, <1>2, GoesHeld DEF KnownInv, IdsUsed
<1>5. \A j \in Ids : entries'[j] # None => j \in used'
  BY <1>1, <1>3 DEF KnownInv, IdsUsed
<1>6. Ops(writes') = {Doc(i, Stored(i)), SaveIndex(active', entries')}
  BY <1>1, OpsOf
<1>7. ASSUME NEW w \in Ops(writes')
      PROVE  /\ \A j \in Touched(w) : j \in used' /\ entries'[j] # None
             /\ w.op \notin {"remove", "copies"}
  <2>1. w.op \in {"doc", "index"} /\ (Touched(w) = {i} \/ Touched(w) = Listed(entries'))
    BY <1>6, TouchedIs
  <2>2. QED BY <1>1, <1>3, <1>5, <2>1 DEF Listed
<1>8. \A j \in used' : j >= base => entries'[j] # None \/ j \in retired'
  <2>1. used \subseteq Ids
    BY <1>2, TypeParts DEF HistoryType
  <2>2. QED BY <1>1, <1>2, <1>3, <2>1 DEF KnownInv, IdsUsed
<1>9. retired' \subseteq deleted' /\ deleted' \subseteq used'
  BY <1>1 DEF KnownInv, IdsUsed
<1>10. QED BY <1>1, <1>2, <1>4, <1>5, <1>7, <1>8, <1>9, KnownCall

\* A rename, a choice of the active session or the count of a new turn.
LEMMA KnownListed ==
  ASSUME Typed, KnownInv, [Next]_vars, up, UNCHANGED <<files, up, retired, base, history>>,
         Listed(entries') = Listed(entries), entries' \in [Ids -> Entry \cup {None}],
         \A i \in Ids : Held(i)' => Held(i),
         \A w \in Ops(writes') : \E a : w = SaveIndex(a, entries')
  PROVE  KnownInv'
<1>1. \A i \in Ids : entries'[i] # None <=> entries[i] # None
  BY DEF Listed
<1>2. ASSUME NEW w \in Ops(writes')
      PROVE  w.op = "index" /\ Touched(w) = Listed(entries')
  BY TouchedIs
<1>3. \A i \in Ids : entries'[i] # None \/ Held(i)' => i \in used'
  BY <1>1 DEF KnownInv, IdsUsed, history
<1>4. used \subseteq Ids /\ used' = used /\ retired' = retired /\ deleted' = deleted
  BY TypeParts DEF Typed, HistoryType, history
<1>5. \A i \in used' : i >= base => entries'[i] # None \/ i \in retired'
  BY <1>1, <1>4 DEF KnownInv, IdsUsed
<1>6. retired' \subseteq deleted' /\ deleted' \subseteq used' /\ UNCHANGED <<kept, redone>>
  BY DEF KnownInv, IdsUsed, history
<1>7. ASSUME NEW w \in Ops(writes')
      PROVE  /\ \A i \in Touched(w) : i \in used' /\ entries'[i] # None
             /\ w.op = "remove" => w.id \in retired'
             /\ w.op # "copies"
  BY <1>2, <1>3 DEF Listed
<1>8. \A i \in Ids : entries'[i] # None => i \in used'
  BY <1>3
<1>9. \A i \in Ids : Held(i)' => i \in used'
  BY <1>3
<1>10. QED BY <1>4, <1>5, <1>6, <1>7, <1>8, <1>9, KnownCall

LEMMA KnownDelete ==
  ASSUME Typed, KnownInv, [Next]_vars, NEW i \in Ids, Delete(i), Goes({})
  PROVE  KnownInv'
<1>1. /\ Free /\ up /\ TypeOK /\ entries \in [Ids -> Entry \cup {None}] /\ used \subseteq Ids
      /\ UNCHANGED <<files, up, base, kept, redone>>
      /\ entries[i] # None /\ retired' = retired \cup {i} /\ deleted' = deleted \cup {i}
  BY TypeParts, DeleteIs DEF Typed, IndexType, HistoryType, Free
<1>2. i \in used
  BY <1>1 DEF KnownInv, IdsUsed
<1>3. \A j \in Ids : Held(j)' => j \in used
  BY <1>1, GoesHeld DEF KnownInv, IdsUsed
<1>4. CASE /\ entries' = [entries EXCEPT ![i] = None]
           /\ writes' = <<Removed(i), SaveIndex(active', entries')>>
           /\ UNCHANGED used
  <2>1. \A j \in Ids : entries'[j] = IF j = i THEN None ELSE entries[j]
    BY <1>1, <1>4
  <2>2. Ops(writes') = {Removed(i), SaveIndex(active', entries')}
    BY <1>4, OpsOf
  <2>3. \A j \in Ids : entries'[j] # None => j \in used'
    BY <1>4, <2>1 DEF KnownInv, IdsUsed
  <2>4. ASSUME NEW w \in Ops(writes')
        PROVE  /\ \A j \in Touched(w) : j \in used' /\ entries'[j] # None
               /\ w.op = "remove" => w.id \in retired'
               /\ w.op # "copies"
    <3>1. \/ w.op = "remove" /\ w.id = i /\ Touched(w) = {}
          \/ w.op = "index" /\ Touched(w) = Listed(entries')
      BY <2>2, TouchedIs
    <3>2. QED BY <1>1, <2>3, <3>1 DEF Listed
  <2>5. \A j \in used' : j >= base => entries'[j] # None \/ j \in retired'
    BY <1>1, <1>4, <2>1 DEF KnownInv, IdsUsed
  <2>6. retired' \subseteq deleted' /\ deleted' \subseteq used'
    BY <1>1, <1>2, <1>4 DEF KnownInv, IdsUsed
  <2>7. QED BY <1>1, <1>3, <1>4, <2>3, <2>4, <2>5, <2>6, KnownCall
<1>5. ASSUME NEW n \in Ids,
             LET es == [entries EXCEPT ![i] = None]
             IN /\ Listed(es) = {} /\ n # i /\ n \notin retired /\ n >= base
                /\ entries' = [es EXCEPT ![n] = EmptyEntry] /\ used' = used \cup {n}
                /\ writes' = <<Removed(i), SaveIndex(None, es), Doc(n, Stored(n)),
                               SaveIndex(None, entries'), SaveIndex(n, entries')>>
      PROVE  KnownInv'
  <2> DEFINE es == [entries EXCEPT ![i] = None]
  <2>1. /\ \A j \in Ids : es[j] = None
        /\ \A j \in Ids : entries'[j] = IF j = n THEN EmptyEntry ELSE None
    BY <1>1, <1>5 DEF Listed
  <2>2. \A j \in Ids : j # i => entries[j] = None
    BY <1>1, <2>1
  <2>3. /\ used' = used \cup {n}
        /\ writes' = <<Removed(i), SaveIndex(None, es), Doc(n, Stored(n)),
                       SaveIndex(None, entries'), SaveIndex(n, entries')>>
    BY <1>5
  <2> HIDE DEF es
  <2>4. Ops(writes') = {Removed(i), SaveIndex(None, es), Doc(n, Stored(n)),
                        SaveIndex(None, entries'), SaveIndex(n, entries')}
    BY <2>3, OpsOf
  <2>5. entries'[n] # None /\ \A j \in Ids : entries'[j] # None => j = n
    BY <2>1, EntryIs
  <2>6. ASSUME NEW w \in Ops(writes')
        PROVE  /\ \A j \in Touched(w) : j \in used' /\ entries'[j] # None
               /\ w.op = "remove" => w.id \in retired'
               /\ w.op # "copies"
    <3>1. \/ w.op = "remove" /\ w.id = i /\ Touched(w) = {}
          \/ w.op = "index" /\ Touched(w) = Listed(es)
          \/ w.op = "index" /\ Touched(w) = Listed(entries')
          \/ w.op = "doc" /\ Touched(w) = {n}
      BY <2>4, TouchedIs
    <3>2. Listed(es) = {} /\ Listed(entries') = {n}
      BY <2>1, <2>5 DEF Listed
    <3>3. QED BY <1>1, <2>3, <2>5, <3>1, <3>2
  <2>7. \A j \in used' : j >= base => entries'[j] # None \/ j \in retired'
    BY <1>1, <2>2, <2>3, <2>5 DEF KnownInv, IdsUsed
  <2>8. retired' \subseteq deleted' /\ deleted' \subseteq used'
    BY <1>1, <1>2, <2>3 DEF KnownInv, IdsUsed
  <2>9. QED BY <1>1, <1>3, <2>3, <2>5, <2>6, <2>7, <2>8, KnownCall
<1>6. QED BY <1>1, <1>4, <1>5, DeleteIs

\* A step that leaves the index and what is still to be written alone.
LEMMA KnownSame ==
  ASSUME Typed, KnownInv, [Next]_vars,
         UNCHANGED <<saved, old, up, entries, retired, base, writes, used, deleted, redone>>,
         \A i \in Ids : docs'[i] # None => docs[i] # None \/ i \in used,
         \A t \in Turns : kept'[t] \subseteq used,
         \A i \in Ids : Held(i)' => i \in used
  PROVE  KnownInv'
<1>1. \A i \in Ids : OldFile(i)' = OldFile(i)
  BY OldFileStays
<1>2. \A i \in Ids : docs'[i] # None \/ OldFile(i)' \/ entries'[i] # None => i \in used
  BY <1>1 DEF KnownInv, IdsUsed
<1>3. IdsUsed'
  BY <1>1, <1>2 DEF KnownInv, IdsUsed, Listed
<1>4. \A w \in Ops(writes) : Sound(w)'
  BY SoundStays
<1>5. QED BY <1>3, <1>4 DEF KnownInv

LEMMA KnownStore == ASSUME Typed, KnownInv, StoreStep, [Next]_vars PROVE KnownInv'
<1>1. TypeOK /\ DocsType
  BY TypeParts DEF Typed
<1>2. ASSUME NEW a \in BOOLEAN, Create(a), Goes({}) PROVE KnownInv'
  BY <1>2, KnownCreate
<1>3. ASSUME NEW i \in Ids, Delete(i), Goes({}) PROVE KnownInv'
  BY <1>3, KnownDelete
<1>4. ASSUME NEW i \in Ids, NEW n \in Names, Rename(i, n), Goes({}) PROVE KnownInv'
  <2>1. /\ Free /\ UNCHANGED <<files, up, retired, base, history>>
        /\ Listed(entries') = Listed(entries)
        /\ writes' = <<SaveIndex(active, entries')>> /\ IndexOk
    BY <1>1, <1>4, RenameIs
  <2>2. up /\ entries' \in [Ids -> Entry \cup {None}]
    BY <2>1 DEF Free, IndexOk
  <2>3. \A j \in Ids : Held(j)' => Held(j)
    BY <1>1, <1>4, GoesHeld
  <2>4. Ops(writes') = {SaveIndex(active, entries')}
    BY <2>1, OpsOf
  <2>5. QED BY <2>1, <2>2, <2>3, <2>4, KnownListed
<1>5. ASSUME NEW i \in Ids, Activate(i), Goes({}) PROVE KnownInv'
  <2>1. /\ Free /\ UNCHANGED <<files, up, entries, retired, base, history>>
        /\ writes' = <<SaveIndex(i, entries)>> /\ IndexOk
    BY <1>1, <1>5, ActivateIs
  <2>2. up /\ entries' \in [Ids -> Entry \cup {None}] /\ entries' = entries
    BY <2>1 DEF Free, IndexOk
  <2>3. \A j \in Ids : Held(j)' => Held(j)
    BY <1>1, <1>5, GoesHeld
  <2>4. Ops(writes') = {SaveIndex(i, entries')}
    BY <2>1, <2>2, OpsOf
  <2>5. QED BY <2>1, <2>2, <2>3, <2>4, KnownListed
<1>6. ASSUME NEW i \in Ids, entries[i] # None, Open(i), Goes({i}) PROVE KnownInv'
  <2>1. UNCHANGED <<saved, old, up, entries, retired, base, writes, used, deleted, redone>>
    BY <1>6 DEF Open, index
  <2>2. i \in used
    BY <1>6 DEF KnownInv, IdsUsed
  <2>3. UNCHANGED <<docs, kept>> \/ Written(i, Stored(i))
    BY <1>1, <1>6, OpenIs
  <2>4. /\ \A j \in Ids : docs'[j] # None => docs[j] # None \/ j \in used
        /\ \A t \in Turns : kept'[t] \subseteq used
    BY <1>1, <2>2, <2>3 DEF Written, DocsType, KnownInv, IdsUsed
  <2>5. \A j \in Ids : Held(j)' => j \in used
    BY <1>1, <1>6, <2>2, GoesHeld DEF KnownInv, IdsUsed
  <2>6. QED BY <2>1, <2>4, <2>5, KnownSame
<1>7. ASSUME Frame, Goes({}) PROVE KnownInv'
  <2>1. /\ UNCHANGED <<saved, old, up, entries, retired, base, writes, used, deleted, redone>>
        /\ UNCHANGED <<docs, kept>>
    BY <1>7 DEF Frame, files, index, history
  <2>2. \A j \in Ids : Held(j)' => j \in used
    BY <1>1, <1>7, GoesHeld DEF KnownInv, IdsUsed
  <2>3. QED BY <2>1, <2>2, KnownSame DEF KnownInv, IdsUsed
<1>8. QED BY <1>2, <1>3, <1>4, <1>5, <1>6, <1>7 DEF StoreStep

LEMMA KnownNext == ASSUME Typed, KnownInv, [Next]_vars PROVE KnownInv'
<1>1. TypeOK /\ DocsType
  BY TypeParts DEF Typed
<1>2. CASE UNCHANGED vars \/ Rollback
  <2>1. /\ UNCHANGED <<saved, old, up, entries, retired, base, writes, used, deleted, redone>>
        /\ UNCHANGED <<docs, kept, replyVars, consoles>>
    BY <1>2 DEF vars, Rollback, files, index, history
  <2>2. \A i \in Ids : Held(i)' => i \in used
    BY <2>1, HeldStays DEF KnownInv, IdsUsed
  <2>3. QED BY <2>1, <2>2, KnownSame DEF KnownInv, IdsUsed
<1>3. CASE WriteNext \/ Start \/ Crash \/ Migrate
  BY <1>3, KnownWrite, KnownStart, KnownCrash, KnownMigrate
<1>4. CASE StoreStep
  BY <1>4, KnownStore
<1>5. ASSUME NEW r \in Replies, SaveTurn(r) PROVE KnownInv'
  <2>1. /\ UNCHANGED <<saved, old, up, entries, retired, base, writes, used, deleted, redone>>
        /\ at[r] \in Ids /\ Held(at[r]) /\ Written(at[r], conv[at[r]] \cup {r})
    BY <1>5, SaveTurnIs DEF SaveTurn, index
  <2>2. at[r] \in used
    BY <2>1 DEF KnownInv, IdsUsed
  <2>3. /\ \A j \in Ids : docs'[j] # None => docs[j] # None \/ j \in used
        /\ \A t \in Turns : kept'[t] \subseteq used
    BY <1>1, <2>1, <2>2 DEF Written, DocsType, KnownInv, IdsUsed
  <2>4. \A j \in Ids : Held(j)' => j \in used
    BY <1>5, TurnHeld DEF KnownInv, IdsUsed
  <2>5. QED BY <2>1, <2>3, <2>4, KnownSame
<1>6. ASSUME NEW r \in Replies, Note(r) PROVE KnownInv'
  <2>1. /\ Free /\ UNCHANGED <<files, up, retired, base, history>>
        /\ Listed(entries') = Listed(entries) /\ IndexOk
        /\ writes' = <<>> \/ writes' = <<SaveIndex(active, entries')>>
    BY <1>6, NoteIs
  <2>2. up /\ entries' \in [Ids -> Entry \cup {None}]
    BY <2>1 DEF Free, IndexOk
  <2>3. \A j \in Ids : Held(j)' => Held(j)
    BY <1>6, TurnHeld
  <2>4. Ops(writes') \subseteq {SaveIndex(active, entries')}
    BY <2>1, OpsOf
  <2>5. QED BY <2>1, <2>2, <2>3, <2>4, KnownListed
<1>7. QED BY <1>2, <1>3, <1>4, <1>5, <1>6, Kinds

LEMMA KnownInit == ASSUME Init PROVE KnownInv
<1>1. /\ docs = [i \in Ids |-> None] /\ saved = None /\ ~up /\ entries = NoEntries
      /\ retired = {} /\ writes = <<>> /\ used = {i \in OldIds : OldFile(i)}
      /\ kept = [t \in Turns |-> {}] /\ deleted = {}
      /\ at = [r \in Replies |-> None] /\ bound = [c \in Conns |-> None]
  BY DEF Init
<1>2. \A i \in Ids : ~Held(i) /\ entries[i] = None
  BY <1>1, NoneApart DEF Held, NoEntries
<1>3. IdsUsed
  BY <1>1, <1>2 DEF IdsUsed, OldFile
<1>4. Ops(writes) = {}
  BY <1>1, OpsOf
<1>5. QED BY <1>3, <1>4 DEF KnownInv

LEMMA AlwaysKnown == Spec => [](Typed /\ KnownInv)
<1> DEFINE I == Typed /\ KnownInv
<1>1. Init => I
  BY InitTyped, KnownInit
<1>2. I /\ [Next]_vars => I'
  BY TypedNext, KnownNext
<1> HIDE DEF I
<1>3. Spec => []I
  BY <1>1, <1>2, PTL DEF Spec
<1>4. QED BY <1>3 DEF I

(* A deletion is final *)

LEMMA FinalApart ==
  ASSUME Typed, KnownInv, NEW i \in Ids, Final(i)
  PROVE  /\ i \in used /\ \A w \in Ops(writes) : i \notin Touched(w)
         /\ \A r \in Replies : pc[r] \in Live => at[r] # i
BY DEF KnownInv, IdsUsed, Sound, Final, Live

\* No reply and no console gets a session of which nothing is left.
LEMMA FinalGoes ==
  ASSUME Typed, NEW s, Goes(s), NEW i \in Ids, i \notin s, Final(i)
  PROVE  /\ \A r \in Replies : at'[r] # i \/ pc'[r] = "over"
         /\ \A c \in Conns : bound'[c] # i
<1>1. i # None /\ entries[i] = None
  BY NoneApart DEF Final
<1>2. \A c \in Conns : bound'[c] # i
  BY <1>1 DEF Goes, Final
<1>3. ASSUME NEW r \in Replies, at'[r] = i, pc'[r] # "over" PROVE FALSE
  BY <1>1, <1>3 DEF Goes, Final
<1>4. QED BY <1>2, <1>3

LEMMA FinalStart ==
  ASSUME Typed, KnownInv, Start, NEW i \in Ids, Final(i) PROVE Final(i)'
<1>1. UNCHANGED <<files, replyVars, consoles, deleted>>
  BY StartIs DEF Typed
<1>2. Found[i] = None
  <2>1. i \notin Orphans
    BY DEF Orphans, Final
  <2>2. ReadIndex.entries[i] = None
    BY DEF ReadIndex, SavedEntries, NoEntries, Final
  <2>3. QED BY <2>1, <2>2 DEF Found
<1>3. entries'[i] = None
  BY <1>2, StartNew, FinalApart
<1>4. QED BY <1>1, <1>3 DEF Final, OldFile, files, replyVars, consoles

LEMMA FinalStore ==
  ASSUME Typed, KnownInv, StoreStep, [Next]_vars, NEW i \in Ids, Final(i) PROVE Final(i)'
<1>1. TypeOK /\ DocsType /\ entries \in [Ids -> Entry \cup {None}] /\ OldFile(i)' = OldFile(i)
  BY TypeParts, OldFileStays DEF Typed, IndexType
<1>2. i \in used /\ entries[i] = None
  BY FinalApart DEF Final
<1>3. ASSUME NEW s, i \notin s, Goes(s), docs'[i] = None, saved' = saved, entries'[i] = None,
             i \in deleted'
      PROVE  Final(i)'
  BY <1>1, <1>3, FinalGoes DEF Final
<1>4. ASSUME NEW a \in BOOLEAN, Create(a), Goes({}) PROVE Final(i)'
  <2>1. PICK n \in Ids :
          /\ Free /\ UNCHANGED <<files, deleted>> /\ IsNext(n, entries, retired)
          /\ entries' = [entries EXCEPT ![n] = EmptyEntry]
    BY <1>1, <1>4, CreateIs
  <2>2. n \notin used
    BY <1>1, <2>1, NextIsNew DEF IsNext, Taken, Listed, Free
  <2>3. QED BY <1>1, <1>2, <1>3, <1>4, <2>1, <2>2 DEF Final, files
<1>5. ASSUME NEW j \in Ids, Delete(j), Goes({}) PROVE Final(i)'
  <2>1. Free /\ up /\ UNCHANGED files /\ deleted' = deleted \cup {j} /\ j # i
    BY <1>1, <1>2, <1>5, DeleteIs DEF Free
  <2>2. entries'[i] = None
    <3>1. CASE entries' = [entries EXCEPT ![j] = None]
      BY <1>1, <1>2, <2>1, <3>1
    <3>2. ASSUME NEW n \in Ids, Listed([entries EXCEPT ![j] = None]) = {},
                 n # j, n \notin retired, n >= base,
                 entries' = [[entries EXCEPT ![j] = None] EXCEPT ![n] = EmptyEntry]
          PROVE  entries'[i] = None
      <4>1. [entries EXCEPT ![j] = None][n] = None
        BY <3>2 DEF Listed
      <4>2. entries[n] = None
        BY <1>1, <3>2, <4>1
      <4>3. n \notin used
        BY <1>1, <2>1, <3>2, <4>2, NextIsNew
      <4>4. n # i
        BY <1>2, <4>3
      <4>5. QED BY <1>1, <1>2, <2>1, <3>2, <4>4
    <3>3. QED BY <1>1, <1>5, <3>1, <3>2, DeleteIs
  <2>3. QED BY <1>3, <1>5, <2>1, <2>2 DEF Final, files
<1>6. ASSUME NEW j \in Ids, NEW n \in Names, Rename(j, n), Goes({}) PROVE Final(i)'
  <2>1. UNCHANGED <<files, history>> /\ Listed(entries') = Listed(entries)
    BY <1>1, <1>6, RenameIs
  <2>2. entries'[i] = None
    BY <1>2, <2>1 DEF Listed
  <2>3. QED BY <1>3, <1>6, <2>1, <2>2 DEF Final, files, history
<1>7. ASSUME NEW j \in Ids, Activate(j), Goes({}) PROVE Final(i)'
  BY <1>1, <1>2, <1>3, <1>7, ActivateIs DEF Final, files, history
<1>8. ASSUME NEW j \in Ids, entries[j] # None, Open(j), Goes({j}) PROVE Final(i)'
  <2>1. j # i /\ UNCHANGED <<saved, entries, deleted>>
    BY <1>2, <1>8 DEF Open, index
  <2>2. docs'[i] = docs[i]
    BY <1>1, <1>8, <2>1, OpenIs DEF DocsType
  <2>3. QED BY <1>2, <1>3, <1>8, <2>1, <2>2 DEF Final
<1>9. ASSUME Frame, Goes({}) PROVE Final(i)'
  BY <1>2, <1>3, <1>9 DEF Final, Frame, files, index, history
<1>10. QED BY <1>4, <1>5, <1>6, <1>7, <1>8, <1>9 DEF StoreStep

LEMMA FinalNext ==
  ASSUME Typed, KnownInv, [Next]_vars, NEW i \in Ids, Final(i) PROVE Final(i)'
<1>1. /\ TypeOK /\ DocsType /\ StoreType /\ entries \in [Ids -> Entry \cup {None}]
      /\ OldFile(i)' = OldFile(i)
  BY TypeParts, OldFileStays DEF Typed, IndexType
<1>2. i \in used /\ entries[i] = None /\ i # None
  BY FinalApart, NoneApart DEF Final
<1>3. CASE UNCHANGED vars \/ Migrate \/ Rollback
  <2>1. UNCHANGED <<docs, saved, old, entries, deleted, pc, at, bound>>
    BY <1>3 DEF vars, Migrate, Rollback, files, index, replyVars, consoles, history
  <2>2. QED BY <1>1, <2>1 DEF Final
<1>4. CASE WriteNext
  <2>1. UNCHANGED <<entries, deleted, pc, at, bound>> /\ writes[1] \in Ops(writes)
    BY <1>1, <1>4, WriteSeq DEF WriteNext, index, replyVars, consoles, Ops
  <2>2. i \notin Touched(writes[1])
    BY <2>1, FinalApart
  <2>3. docs'[i] = None /\ (saved' # None => saved'.entries[i] = None)
    BY <1>1, <1>4, <2>2, WriteTouches DEF Final
  <2>4. QED BY <1>1, <2>1, <2>3 DEF Final
<1>5. CASE Start
  BY <1>5, FinalStart
<1>6. CASE Crash
  <2>1. /\ UNCHANGED <<files, deleted>> /\ entries' = NoEntries
        /\ at' = [r \in Replies |-> None] /\ bound' = [c \in Conns |-> None]
    BY <1>6 DEF Crash, history
  <2>2. QED BY <1>1, <1>2, <2>1 DEF Final, NoEntries, files
<1>7. CASE StoreStep
  BY <1>7, FinalStore
<1>8. ASSUME NEW r \in Replies, SaveTurn(r) PROVE Final(i)'
  <2>1. /\ UNCHANGED <<saved, entries, deleted, at, bound>> /\ pc' = [pc EXCEPT ![r] = "note"]
        /\ at[r] # i /\ docs' = [docs EXCEPT ![at[r]] = conv[at[r]] \cup {r}]
    BY <1>8, SaveTurnIs, FinalApart DEF SaveTurn, index, consoles
  <2>2. docs'[i] = docs[i] /\ \A q \in Replies : q # r => pc'[q] = pc[q]
    BY <1>1, <2>1, TypeParts DEF DocsType, ReplyType
  <2>3. QED BY <1>1, <2>1, <2>2 DEF Final
<1>9. ASSUME NEW r \in Replies, Note(r) PROVE Final(i)'
  <2>1. /\ UNCHANGED <<files, at, history>> /\ UNCHANGED consoles
        /\ pc' = [pc EXCEPT ![r] = "over"]
        /\ Listed(entries') = Listed(entries)
    BY <1>9, NoteIs
  <2>2. entries'[i] = None /\ \A q \in Replies : pc[q] = "over" => pc'[q] = "over"
    BY <1>1, <1>2, <2>1, TypeParts DEF Listed, ReplyType
  <2>3. QED BY <1>1, <2>1, <2>2 DEF Final, files, consoles, history
<1>10. QED BY <1>3, <1>4, <1>5, <1>6, <1>7, <1>8, <1>9, Kinds

\* A deleted session of which nothing is left does not come back and its id is
\* never given out again: not by a late reply, by a pending write, by a restart
\* that looks for documents, or by migrate().
THEOREM DeletionStays == Spec => DeletionIsFinal
<1> DEFINE F == \A i \in Ids : Final(i) => Final(i)'
           I == Typed /\ KnownInv
<1>1. I /\ [Next]_vars => [F]_vars
  BY FinalNext
<1>2. Spec => []I
  BY AlwaysKnown
<1> HIDE DEF I
<1>3. Spec => [][F]_vars
  BY <1>1, <1>2, PTL DEF Spec
<1>4. QED BY <1>3 DEF DeletionIsFinal

(* Objects and documents *)

\* A document still to be written is a new one, and its object is handed out but
\* not yet taken.
NewDoc(w) == w.op = "doc" =>
  /\ ~OldFile(w.id) /\ ~Held(w.id)
  /\ up => w.id \in cached /\ w.turns \subseteq conv[w.id]
  /\ \A t \in Turns : w.id \in kept[t] => t \in w.turns
InFile(i) == \E w \in Ops(writes) : w.op = "doc" /\ w.id = i

\* A session's object has what its document has; who holds one outlives only its
\* deletion.
ObjectInv ==
  /\ \A w \in Ops(writes) : NewDoc(w)
  /\ \A i \in cached : /\ entries[i] # None
                       /\ docs[i] = None => InFile(i)
                       /\ docs[i] # None => docs[i] \subseteq conv[i]
  /\ \A i \in Ids : Held(i) => (i \in cached /\ docs[i] # None) \/ i \in retired

LEMMA FreeObjects ==
  ASSUME Free, ObjectInv
  PROVE  \A i \in cached : docs[i] # None /\ docs[i] \subseteq conv[i] /\ entries[i] # None
BY OpsOf DEF Free, ObjectInv, InFile

\* A call that runs in memory: it keeps the objects, drops the deleted one, or
\* makes one for a new session.
LEMMA ObjectCall ==
  ASSUME Typed, KnownInv, ObjectInv, [Next]_vars, Free, UNCHANGED <<docs, kept, up>>,
         \A i \in cached' :
           \/ i \in cached /\ entries'[i] # None /\ conv'[i] = conv[i]
           \/ /\ i \in Ids /\ i \notin used /\ entries'[i] # None
              /\ \E w \in Ops(writes') : w.op = "doc" /\ w.id = i,
         \A i \in Ids : Held(i)' => Held(i),
         \A i \in cached : i \in cached' \/ i \in retired', retired \subseteq retired',
         \A w \in Ops(writes') : w.op = "doc" =>
           w.id \in Ids /\ w.id \notin used /\ w.id \in cached' /\ w.turns = {}
  PROVE  ObjectInv'
<1>1. TypeOK /\ up
  BY DEF Typed, Free
<1>2. ASSUME NEW w \in Ops(writes') PROVE NewDoc(w)'
  <2>1. CASE w.op = "doc"
    <3>1. ~OldFile(w.id) /\ ~Held(w.id) /\ \A t \in Turns : w.id \notin kept[t]
      BY <1>1, <2>1, NewStored
    <3>2. ~OldFile(w.id)' /\ ~Held(w.id)' /\ w.turns \subseteq conv'[w.id]
      BY <2>1, <3>1, OldFileStays
    <3>3. QED BY <2>1, <3>1, <3>2 DEF NewDoc
  <2>2. QED BY <2>1 DEF NewDoc
<1>3. ASSUME NEW i \in cached'
      PROVE  /\ entries'[i] # None
             /\ docs'[i] = None => InFile(i)'
             /\ docs'[i] # None => docs'[i] \subseteq conv'[i]
  <2>1. CASE i \in cached /\ entries'[i] # None /\ conv'[i] = conv[i]
    BY <2>1, FreeObjects
  <2>2. CASE /\ i \in Ids /\ i \notin used /\ entries'[i] # None
             /\ \E w \in Ops(writes') : w.op = "doc" /\ w.id = i
    <3>1. docs[i] = None
      BY <1>1, <2>2, NewStored
    <3>2. QED BY <2>2, <3>1 DEF InFile
  <2>3. QED BY <1>3, <2>1, <2>2
<1>4. ASSUME NEW i \in Ids, Held(i)' PROVE (i \in cached' /\ docs'[i] # None) \/ i \in retired'
  BY <1>4 DEF ObjectInv
<1>5. QED BY <1>2, <1>3, <1>4 DEF ObjectInv

LEMMA ObjectCreate ==
  ASSUME Typed, KnownInv, ObjectInv, [Next]_vars, NEW a \in BOOLEAN, Create(a), Goes({})
  PROVE  ObjectInv'
<1>1. PICK i \in Ids :
        /\ Free /\ UNCHANGED <<files, up, retired, kept>> /\ IsNext(i, entries, retired)
        /\ conv' = [conv EXCEPT ![i] = Stored(i)] /\ cached' = cached \cup {i}
        /\ entries' = [entries EXCEPT ![i] = EmptyEntry]
        /\ writes' = <<Doc(i, Stored(i)), SaveIndex(active', entries')>>
  BY CreateIs DEF Typed
<1>2. /\ TypeOK /\ StoreType /\ cached \subseteq Ids /\ entries \in [Ids -> Entry \cup {None}]
      /\ conv \in [Ids -> (SUBSET Turns) \cup {None}] /\ up
  BY <1>1, TypeParts DEF Typed, IndexType, StoreType, Free
<1>3. i \notin used
  BY <1>1, <1>2, NextIsNew DEF IsNext, Taken, Listed
<1>4. Stored(i) = {} /\ entries[i] = None
  BY <1>2, <1>3, NewStored
<1>5. Ops(writes') = {Doc(i, Stored(i)), SaveIndex(active', entries')}
  BY <1>1, OpsOf
<1>6. \A w \in Ops(writes') : w.op = "doc" => w.id = i /\ w.turns = {}
  BY <1>4, <1>5, TouchedIs
<1>7. \E w \in Ops(writes') : w.op = "doc" /\ w.id = i
  BY <1>5, TouchedIs
<1>8. \A j \in cached : j # i
  BY <1>1, <1>4, FreeObjects
<1>9. ASSUME NEW j \in cached'
      PROVE  \/ j \in cached /\ entries'[j] # None /\ conv'[j] = conv[j]
             \/ /\ j \in Ids /\ j \notin used /\ entries'[j] # None
                /\ \E w \in Ops(writes') : w.op = "doc" /\ w.id = j
  <2>1. CASE j = i
    <3>1. entries'[j] # None
      BY <1>1, <1>2, <2>1, EntryIs
    <3>2. QED BY <1>3, <1>7, <2>1, <3>1
  <2>2. CASE j \in cached /\ j # i
    <3>1. entries'[j] = entries[j] /\ conv'[j] = conv[j]
      BY <1>1, <1>2, <2>2
    <3>2. QED BY <1>1, <2>2, <3>1, FreeObjects
  <2>3. QED BY <1>1, <1>9, <2>1, <2>2
<1>10. \A j \in Ids : Held(j)' => Held(j)
  BY <1>2, GoesHeld
<1>11. /\ Free /\ UNCHANGED <<docs, kept, up>> /\ retired \subseteq retired'
       /\ \A j \in cached : j \in cached' \/ j \in retired'
  BY <1>1 DEF files
<1>12. \A w \in Ops(writes') : w.op = "doc" =>
          w.id \in Ids /\ w.id \notin used /\ w.id \in cached' /\ w.turns = {}
  BY <1>1, <1>3, <1>6
<1>13. QED BY <1>9, <1>10, <1>11, <1>12, ObjectCall

LEMMA ObjectDelete ==
  ASSUME Typed, KnownInv, ObjectInv, [Next]_vars, NEW i \in Ids, Delete(i), Goes({})
  PROVE  ObjectInv'
<1>1. /\ Free /\ up /\ UNCHANGED <<files, up, kept>> /\ retired' = retired \cup {i}
      /\ TypeOK /\ cached \subseteq Ids /\ entries \in [Ids -> Entry \cup {None}]
      /\ conv \in [Ids -> (SUBSET Turns) \cup {None}]
  BY DeleteIs, TypeParts DEF Typed, IndexType, StoreType, Free
<1>2. \A j \in Ids : Held(j)' => Held(j)
  BY <1>1, GoesHeld
<1>3. UNCHANGED <<docs, kept, up>> /\ retired \subseteq retired'
  BY <1>1 DEF files
<1>4. CASE /\ entries' = [entries EXCEPT ![i] = None] /\ cached' = cached \ {i}
           /\ writes' = <<Removed(i), SaveIndex(active', entries')>> /\ UNCHANGED conv
  <2>1. Ops(writes') = {Removed(i), SaveIndex(active', entries')}
    BY <1>4, OpsOf
  <2>2. \A w \in Ops(writes') : w.op # "doc"
    BY <2>1, TouchedIs
  <2>3. \A j \in cached' : j \in cached /\ entries'[j] # None /\ conv'[j] = conv[j]
    BY <1>1, <1>4, FreeObjects
  <2>4. \A j \in cached : j \in cached' \/ j \in retired'
    BY <1>1, <1>4
  <2>5. QED BY <1>1, <1>2, <1>3, <2>2, <2>3, <2>4, ObjectCall
<1>5. ASSUME NEW n \in Ids,
             LET es == [entries EXCEPT ![i] = None]
             IN /\ Listed(es) = {} /\ n # i /\ n \notin retired /\ n >= base
                /\ entries' = [es EXCEPT ![n] = EmptyEntry]
                /\ conv' = [conv EXCEPT ![n] = Stored(n)] /\ cached' = (cached \ {i}) \cup {n}
                /\ writes' = <<Removed(i), SaveIndex(None, es), Doc(n, Stored(n)),
                               SaveIndex(None, entries'), SaveIndex(n, entries')>>
      PROVE  ObjectInv'
  <2> DEFINE es == [entries EXCEPT ![i] = None]
  <2>1. /\ \A j \in Ids : es[j] = None
        /\ \A j \in Ids : entries'[j] = IF j = n THEN EmptyEntry ELSE None
    BY <1>1, <1>5 DEF Listed
  <2>2. \A j \in Ids : j # i => entries[j] = None
    BY <1>1, <2>1
  <2>3. n \notin used
    BY <1>1, <1>5, <2>2, NextIsNew
  <2>4. /\ writes' = <<Removed(i), SaveIndex(None, es), Doc(n, Stored(n)),
                       SaveIndex(None, entries'), SaveIndex(n, entries')>>
        /\ cached' = (cached \ {i}) \cup {n} /\ n # i
    BY <1>5
  <2> HIDE DEF es
  <2>5. Ops(writes') = {Removed(i), SaveIndex(None, es), Doc(n, Stored(n)),
                        SaveIndex(None, entries'), SaveIndex(n, entries')}
    BY <2>4, OpsOf
  <2>6. Stored(n) = {}
    BY <1>1, <2>3, NewStored
  <2>7. \A w \in Ops(writes') : w.op = "doc" => w.id = n /\ w.turns = {}
    BY <2>5, <2>6, TouchedIs
  <2>8. \E w \in Ops(writes') : w.op = "doc" /\ w.id = n
    BY <2>5, TouchedIs
  <2>9. cached \subseteq {i}
    BY <1>1, <2>2, FreeObjects
  <2>10. cached' = {n} /\ entries'[n] # None
    BY <2>1, <2>4, <2>9, EntryIs
  <2>11. ASSUME NEW j \in cached'
         PROVE  \/ j \in cached /\ entries'[j] # None /\ conv'[j] = conv[j]
                \/ /\ j \in Ids /\ j \notin used /\ entries'[j] # None
                   /\ \E w \in Ops(writes') : w.op = "doc" /\ w.id = j
    BY <2>3, <2>8, <2>10, <2>11
  <2>12. \A j \in cached : j \in cached' \/ j \in retired'
    BY <1>1, <2>9
  <2>13. \A w \in Ops(writes') : w.op = "doc" =>
            w.id \in Ids /\ w.id \notin used /\ w.id \in cached' /\ w.turns = {}
    BY <2>3, <2>7, <2>10
  <2>14. QED BY <1>1, <1>2, <1>3, <2>11, <2>12, <2>13, ObjectCall
<1>6. QED BY <1>4, <1>5, DeleteIs, <1>1

LEMMA ObjectSame ==
  ASSUME Typed, ObjectInv, [Next]_vars,
         UNCHANGED <<docs, kept, up, entries, objects, retired, writes>>,
         \A i \in Ids : Held(i)' => Held(i)
  PROVE  ObjectInv'
<1>1. \A i : OldFile(i)' = OldFile(i)
  BY OldFileStays
<1>2. ASSUME NEW w \in Ops(writes) PROVE NewDoc(w)'
  <2>1. NewDoc(w) /\ w \in Writes
    BY OpsTyped DEF ObjectInv, Typed
  <2>2. w.op = "doc" => w.id \in Ids
    BY <2>1, WriteFields
  <2>3. QED BY <1>1, <2>1, <2>2 DEF NewDoc, objects
<1>3. \A i \in cached : InFile(i)' = InFile(i)
  BY DEF InFile
<1>4. QED BY <1>2, <1>3 DEF ObjectInv, objects

LEMMA ObjectOpen ==
  ASSUME Typed, ObjectInv, NEW i \in Ids, entries[i] # None, Open(i), Goes({i})
  PROVE  ObjectInv'
<1>1. /\ TypeOK /\ FilesType /\ cached \subseteq Ids /\ conv \in [Ids -> (SUBSET Turns) \cup {None}]
      /\ docs \in [Ids -> (SUBSET Turns) \cup {None}]
      /\ Free /\ UNCHANGED <<entries, retired, writes>>
  BY TypeParts DEF Typed, StoreType, Open, index, FilesType
<1>2. cached' = cached \cup {i} /\ Ops(writes') = {}
  BY <1>1, OpenIs, OpsOf DEF Free
<1>3. \A j \in cached : docs[j] # None /\ docs[j] \subseteq conv[j] /\ entries[j] # None
  BY <1>1, FreeObjects
<1>4. \A j \in Ids : j # i => docs'[j] = docs[j] /\ conv'[j] = conv[j]
  BY <1>1, OpenIs
<1>5. docs'[i] # None /\ docs'[i] \subseteq conv'[i]
  <2>1. CASE i \in cached
    BY <1>1, <1>3, <2>1, OpenIs
  <2>2. CASE i \notin cached
    <3>1. docs'[i] = Stored(i) /\ conv'[i] = Stored(i)
      BY <1>1, <2>2, OpenIs
    <3>2. Stored(i) # None
      BY <1>1, StoredType, NoneApart
    <3>3. QED BY <3>1, <3>2
  <2>3. QED BY <2>1, <2>2
<1>6. ASSUME NEW j \in cached'
      PROVE  docs'[j] # None /\ docs'[j] \subseteq conv'[j] /\ entries'[j] # None
  BY <1>1, <1>2, <1>3, <1>4, <1>5
<1>7. ASSUME NEW j \in Ids, Held(j)' PROVE (j \in cached' /\ docs'[j] # None) \/ j \in retired'
  <2>1. CASE j = i
    BY <1>2, <1>5, <2>1
  <2>2. CASE j # i
    <3>1. Held(j)
      BY <1>1, <1>7, <2>2, GoesHeld
    <3>2. QED BY <1>1, <1>2, <1>4, <2>2, <3>1 DEF ObjectInv
  <2>3. QED BY <2>1, <2>2
<1>8. QED BY <1>2, <1>6, <1>7 DEF ObjectInv

LEMMA ObjectStore ==
  ASSUME Typed, KnownInv, ObjectInv, StoreStep, [Next]_vars PROVE ObjectInv'
<1>1. TypeOK
  BY DEF Typed
<1>2. ASSUME NEW a \in BOOLEAN, Create(a), Goes({}) PROVE ObjectInv'
  BY <1>2, ObjectCreate
<1>3. ASSUME NEW i \in Ids, Delete(i), Goes({}) PROVE ObjectInv'
  BY <1>3, ObjectDelete
<1>4. ASSUME Free, UNCHANGED <<files, up, objects, retired, kept>>, Goes({}),
             Listed(entries') = Listed(entries), \A w \in Ops(writes') : w.op # "doc"
      PROVE  ObjectInv'
  <2>1. cached \subseteq Ids
    BY <1>1, TypeParts DEF StoreType
  <2>2. \A i \in cached' : i \in cached /\ entries'[i] # None /\ conv'[i] = conv[i]
    BY <1>4, <2>1, FreeObjects DEF objects, Listed
  <2>3. \A i \in Ids : Held(i)' => Held(i)
    BY <1>1, <1>4, GoesHeld
  <2>4. UNCHANGED <<docs, kept, up, cached, retired>>
    BY <1>4 DEF files, objects
  <2>5. QED BY <1>4, <2>2, <2>3, <2>4, ObjectCall
<1>5. ASSUME NEW i \in Ids, NEW n \in Names, Rename(i, n), Goes({}) PROVE ObjectInv'
  <2>1. /\ Free /\ UNCHANGED <<files, up, objects, retired, history>>
        /\ Listed(entries') = Listed(entries) /\ writes' = <<SaveIndex(active, entries')>>
    BY <1>1, <1>5, RenameIs
  <2>2. \A w \in Ops(writes') : w.op # "doc"
    BY <2>1, OpsOf, TouchedIs
  <2>3. QED BY <1>4, <1>5, <2>1, <2>2 DEF history
<1>6. ASSUME NEW i \in Ids, Activate(i), Goes({}) PROVE ObjectInv'
  <2>1. /\ Free /\ UNCHANGED <<files, up, entries, objects, retired, history>>
        /\ writes' = <<SaveIndex(i, entries)>>
    BY <1>1, <1>6, ActivateIs
  <2>2. \A w \in Ops(writes') : w.op # "doc"
    BY <2>1, OpsOf, TouchedIs
  <2>3. Listed(entries') = Listed(entries)
    BY <2>1
  <2>4. QED BY <1>4, <1>6, <2>1, <2>2, <2>3 DEF history
<1>7. ASSUME NEW i \in Ids, entries[i] # None, Open(i), Goes({i}) PROVE ObjectInv'
  BY <1>7, ObjectOpen
<1>8. ASSUME Frame, Goes({}) PROVE ObjectInv'
  <2>1. UNCHANGED <<docs, kept, up, entries, objects, retired, writes>>
    BY <1>8 DEF Frame, files, index, history
  <2>2. \A i \in Ids : Held(i)' => Held(i)
    BY <1>1, <1>8, GoesHeld
  <2>3. QED BY <2>1, <2>2, ObjectSame
<1>9. QED BY <1>2, <1>3, <1>5, <1>6, <1>7, <1>8 DEF StoreStep

LEMMA ObjectTurn ==
  ASSUME Typed, KnownInv, ObjectInv, [Next]_vars, NEW r \in Replies, SaveTurn(r)
  PROVE  ObjectInv'
<1>1. /\ TypeOK /\ DocsType /\ cached \subseteq Ids /\ conv \in [Ids -> (SUBSET Turns) \cup {None}]
      /\ UNCHANGED <<up, entries, cached, retired, writes>>
  BY TypeParts DEF Typed, StoreType, SaveTurn, index
<1>2. PICK i \in Ids : i = at[r]
  BY SaveTurnIs
<1>3. /\ Held(i) /\ conv[i] \in SUBSET Turns /\ r \in Turns
      /\ conv' = [conv EXCEPT ![i] = conv[i] \cup {r}]
      /\ Written(i, conv[i] \cup {r})
      /\ docs' = [docs EXCEPT ![i] = conv[i] \cup {r}]
  BY <1>2, SaveTurnIs
<1>4. /\ conv'[i] = conv[i] \cup {r} /\ docs'[i] = conv'[i] /\ docs'[i] # None
      /\ \A j \in Ids : j # i => docs'[j] = docs[j] /\ conv'[j] = conv[j]
  <2>1. conv[i] \cup {r} # None
    BY <1>3, NoneApart
  <2>2. QED BY <1>1, <1>3, <2>1 DEF DocsType
<1>5. \A j \in Ids : Held(j)' => Held(j)
  BY TurnHeld
<1>6. ASSUME NEW w \in Ops(writes') PROVE NewDoc(w)'
  <2>1. NewDoc(w) /\ w \in Writes
    BY <1>1, OpsTyped DEF ObjectInv
  <2>2. CASE w.op = "doc"
    <3>1. w.id \in Ids /\ w.id # i
      BY <1>3, <2>1, <2>2, WriteFields DEF NewDoc
    <3>2. \A t \in Turns : w.id \in kept'[t] => w.id \in kept[t]
      BY <1>1, <1>3, <3>1 DEF Written, DocsType
    <3>3. ~OldFile(w.id)' /\ ~Held(w.id)'
      BY <1>5, <2>1, <2>2, <3>1, OldFileStays DEF NewDoc
    <3>4. QED BY <1>1, <1>4, <2>1, <2>2, <3>1, <3>2, <3>3 DEF NewDoc
  <2>3. QED BY <2>2 DEF NewDoc
<1>7. ASSUME NEW j \in cached'
      PROVE  /\ entries'[j] # None
             /\ docs'[j] = None => InFile(j)'
             /\ docs'[j] # None => docs'[j] \subseteq conv'[j]
  <2>1. InFile(j)' = InFile(j)
    BY <1>1 DEF InFile
  <2>2. QED BY <1>1, <1>4, <2>1 DEF ObjectInv
<1>8. ASSUME NEW j \in Ids, Held(j)' PROVE (j \in cached' /\ docs'[j] # None) \/ j \in retired'
  <2>1. Held(j) /\ (docs[j] # None => docs'[j] # None)
    BY <1>4, <1>5, <1>8
  <2>2. QED BY <1>1, <2>1 DEF ObjectInv
<1>9. QED BY <1>6, <1>7, <1>8 DEF ObjectInv

LEMMA ObjectNote ==
  ASSUME Typed, KnownInv, ObjectInv, [Next]_vars, NEW r \in Replies, Note(r) PROVE ObjectInv'
<1>1. /\ Free /\ UNCHANGED <<files, up, objects, retired, history>>
      /\ Listed(entries') = Listed(entries) /\ cached \subseteq Ids
      /\ writes' = <<>> \/ writes' = <<SaveIndex(active, entries')>>
  BY NoteIs, TypeParts DEF Typed, StoreType
<1>2. \A w \in Ops(writes') : w.op # "doc"
  BY <1>1, OpsOf, TouchedIs
<1>3. \A i \in cached' : i \in cached /\ entries'[i] # None /\ conv'[i] = conv[i]
  BY <1>1, FreeObjects DEF objects, Listed
<1>4. \A i \in Ids : Held(i)' => Held(i)
  BY TurnHeld
<1>5. UNCHANGED <<docs, kept, up, cached, retired>>
  BY <1>1 DEF files, objects, history
<1>6. QED BY <1>1, <1>2, <1>3, <1>4, <1>5, ObjectCall

\* Of two documents still to be written the first is empty.
DocsOrdered ==
  \A j, k \in DOMAIN writes :
    j < k /\ writes[j].op = "doc" /\ writes[k].op = "doc" => writes[j].turns = {}

\* Before conversation.json goes its turns are written.
Unlinks ==
  \A k \in DOMAIN writes : writes[k].op = "unlink" /\ old.one # None =>
    \A t \in old.one : \/ kept[t] # {}
                       \/ \E j \in DOMAIN writes :
                            j < k /\ writes[j].op = "doc" /\ t \in writes[j].turns
ImportInv == DocsOrdered /\ Unlinks

\* Where the writes that are left were.
LEMMA WriteRest ==
  ASSUME StoreType, WriteNext
  PROVE  /\ \A k \in DOMAIN writes : k # 1 => writes[k] \in Ops(writes')
         /\ \A w \in Ops(writes') : \/ w.op = "copies"
                                    \/ \E k \in DOMAIN writes : 1 < k /\ writes[k] = w
<1>1. /\ Len(writes) \in Nat /\ DOMAIN writes = 1 .. Len(writes) /\ 1 \in DOMAIN writes
  BY WriteSeq
<1>2. CASE /\ DOMAIN writes' = 1 .. Len(writes) - 1
           /\ \A k \in DOMAIN writes' : k + 1 \in DOMAIN writes /\ writes'[k] = writes[k + 1]
  <2>1. ASSUME NEW k \in DOMAIN writes, k # 1 PROVE writes[k] \in Ops(writes')
    <3>1. k - 1 \in DOMAIN writes' /\ (k - 1) + 1 = k
      BY <1>1, <1>2, <2>1
    <3>2. writes'[k - 1] = writes[k]
      BY <1>2, <3>1
    <3>3. QED BY <3>1, <3>2 DEF Ops
  <2>2. ASSUME NEW w \in Ops(writes') PROVE \E k \in DOMAIN writes : 1 < k /\ writes[k] = w
    <3>1. PICK k \in DOMAIN writes' : w = writes'[k]
      BY <2>2 DEF Ops
    <3>2. k + 1 \in DOMAIN writes /\ 1 < k + 1 /\ writes[k + 1] = w
      BY <1>1, <1>2, <3>1
    <3>3. QED BY <3>2
  <2>3. QED BY <2>1, <2>2
<1>3. CASE /\ DOMAIN writes' = DOMAIN writes
           /\ \A k \in DOMAIN writes' : k # 1 => writes'[k] = writes[k]
           /\ \E i \in writes[1].ids : writes'[1] = Copies(writes[1].ids \ {i})
  <2>1. ASSUME NEW k \in DOMAIN writes, k # 1 PROVE writes[k] \in Ops(writes')
    BY <1>3, <2>1 DEF Ops
  <2>2. ASSUME NEW w \in Ops(writes')
        PROVE  w.op = "copies" \/ \E k \in DOMAIN writes : 1 < k /\ writes[k] = w
    <3>1. PICK k \in DOMAIN writes' : w = writes'[k]
      BY <2>2 DEF Ops
    <3>2. CASE k = 1
      BY <1>3, <3>1, <3>2, TouchedIs
    <3>3. CASE k # 1
      <4>1. 1 < k /\ writes[k] = w
        BY <1>1, <1>3, <3>1, <3>3
      <4>2. QED BY <1>3, <4>1
    <3>4. QED BY <3>2, <3>3
  <2>3. QED BY <2>1, <2>2
<1>4. QED BY <1>2, <1>3, WriteSeq

\* What a write changes of a session, by the kind of write.
LEMMA WriteDocs ==
  ASSUME Typed, KnownInv, ObjectInv, WriteNext, NEW i \in Ids
  PROVE  \/ UNCHANGED docs[i] /\ \A t \in Turns : i \in kept'[t] <=> i \in kept[t]
         \/ /\ writes[1].op = "doc" /\ writes[1].id = i /\ docs'[i] = writes[1].turns
            /\ writes[1].turns \in SUBSET Turns /\ NewDoc(writes[1])
            /\ \A t \in Turns : i \in kept'[t] <=> i \in kept[t] \/ t \in writes[1].turns
         \/ /\ writes[1].op = "copies" /\ i \in redone /\ OldFile(i) /\ ~up
            /\ docs'[i] = old.each[i] /\ old.each[i] \in SUBSET Turns
            /\ \A t \in Turns : i \in kept'[t] <=> i \in kept[t] \/ t \in old.each[i]
         \/ /\ writes[1].op = "remove" /\ i \in retired /\ docs'[i] = None
            /\ \A t \in Turns : i \in kept'[t] <=> i \in kept[t]
<1>1. TypeOK /\ DocsType /\ StoreType /\ FilesType
  BY TypeParts DEF Typed
<1>2. Sound(writes[1]) /\ NewDoc(writes[1])
  BY <1>1, WriteSeq DEF KnownInv, ObjectInv, Ops
<1>3. ASSUME writes[1].op = "doc", Written(writes[1].id, writes[1].turns),
             writes[1].id \in Ids, writes[1].turns \in SUBSET Turns
      PROVE  \/ /\ docs'[i] = docs[i] /\ writes[1].id # i
                /\ \A t \in Turns : i \in kept'[t] <=> i \in kept[t]
             \/ /\ writes[1].id = i /\ docs'[i] = writes[1].turns
                /\ \A t \in Turns : i \in kept'[t] <=> i \in kept[t] \/ t \in writes[1].turns
  BY <1>1, <1>3 DEF Written, DocsType
<1>4. ASSUME writes[1].op = "copies", NEW j \in writes[1].ids, j \in OldIds,
             Written(j, old.each[j])
      PROVE  \/ docs'[i] = docs[i] /\ \A t \in Turns : i \in kept'[t] <=> i \in kept[t]
             \/ /\ i = j /\ i \in redone /\ OldFile(i) /\ ~up
                /\ docs'[i] = old.each[i] /\ old.each[i] \in SUBSET Turns
                /\ \A t \in Turns : i \in kept'[t] <=> i \in kept[t] \/ t \in old.each[i]
  <2>1. j \in redone /\ OldFile(j) /\ ~up /\ old.each[j] # None
    BY <1>2, <1>4 DEF Sound, OldFile
  <2>2. old.each[j] \in SUBSET Turns
    BY <1>1, <1>4, <2>1, OldType, NoneApart
  <2>3. CASE i = j
    BY <1>1, <1>4, <2>1, <2>2, <2>3 DEF Written, DocsType
  <2>4. CASE i # j
    BY <1>1, <1>4, <2>4 DEF Written, DocsType
  <2>5. QED BY <2>3, <2>4
<1>5. ASSUME writes[1].op = "remove", writes[1].id \in Ids,
             docs' = [docs EXCEPT ![writes[1].id] = None], kept' = kept
      PROVE  \/ docs'[i] = docs[i] /\ \A t \in Turns : i \in kept'[t] <=> i \in kept[t]
             \/ /\ i \in retired /\ docs'[i] = None
                /\ \A t \in Turns : i \in kept'[t] <=> i \in kept[t]
  BY <1>1, <1>2, <1>5 DEF Sound, DocsType
<1>6. QED BY <1>1, <1>2, <1>3, <1>4, <1>5, WriteFiles

LEMMA ObjectWrite ==
  ASSUME Typed, KnownInv, ObjectInv, ImportInv, [Next]_vars, WriteNext PROVE ObjectInv'
<1>1. /\ TypeOK /\ StoreType /\ DocsType /\ UNCHANGED <<up, entries, conv, cached, retired>>
      /\ UNCHANGED <<replyVars, consoles>> /\ cached \subseteq Ids
      /\ 1 \in DOMAIN writes /\ DOMAIN writes = 1 .. Len(writes) /\ Len(writes) \in Nat
  BY TypeParts, WriteSeq DEF Typed, WriteNext, index, objects, StoreType
<1>2. \A i \in Ids : Held(i)' = Held(i) /\ OldFile(i)' = OldFile(i)
  BY <1>1, HeldStays, OldFileStays
<1>3. ASSUME NEW w \in Ops(writes') PROVE NewDoc(w)'
  <2>1. CASE w.op = "doc"
    <3>1. PICK k \in DOMAIN writes : 1 < k /\ writes[k] = w
      BY <1>1, <2>1, WriteRest
    <3>2. NewDoc(w) /\ w \in Writes
      BY <1>1, <3>1, OpsTyped DEF ObjectInv, Ops
    <3>3. w.id \in Ids /\ ~OldFile(w.id)
      BY <2>1, <3>2, WriteFields DEF NewDoc
    <3>4. writes[1].op = "doc" => writes[1].turns = {}
      BY <1>1, <2>1, <3>1 DEF ImportInv, DocsOrdered
    <3>5. \A t \in Turns : w.id \in kept'[t] => t \in w.turns
      <4>1. \A t \in Turns : w.id \in kept'[t] => w.id \in kept[t]
        BY <3>3, <3>4, WriteDocs
      <4>2. QED BY <2>1, <3>2, <4>1 DEF NewDoc
    <3>6. QED BY <1>1, <1>2, <2>1, <3>2, <3>3, <3>5 DEF NewDoc
  <2>2. QED BY <2>1 DEF NewDoc
<1>4. ASSUME NEW i \in cached
      PROVE  /\ docs'[i] = None => InFile(i)'
             /\ docs'[i] # None => docs'[i] \subseteq conv[i]
  <2>1. up /\ i \notin retired /\ i \in Ids
    BY <1>1 DEF ObjectInv, Typed, ServerInv
  <2>2. \/ docs'[i] = docs[i]
        \/ /\ writes[1].op = "doc" /\ writes[1].id = i /\ docs'[i] = writes[1].turns
           /\ writes[1].turns \in SUBSET Turns /\ NewDoc(writes[1])
    BY <2>1, WriteDocs
  <2>3. docs'[i] # None => docs'[i] \subseteq conv[i]
    BY <2>1, <2>2 DEF ObjectInv, NewDoc
  <2>4. ASSUME docs'[i] = None PROVE InFile(i)'
    <3>1. docs[i] = None /\ ~(writes[1].op = "doc" /\ writes[1].id = i)
      <4>1. docs'[i] = docs[i]
        BY <2>2, <2>4, NoneApart
      <4>2. writes[1].op = "doc" /\ writes[1].id = i => docs'[i] # None
        <5>1. ASSUME writes[1].op = "doc", writes[1].id = i PROVE docs'[i] # None
          <6>1. docs' = [docs EXCEPT ![i] = writes[1].turns] /\ writes[1].turns \in SUBSET Turns
            BY <1>1, <5>1, WriteFiles DEF Written
          <6>2. QED BY <1>1, <2>1, <6>1, NoneApart DEF DocsType
        <5>2. QED BY <5>1
      <4>3. QED BY <2>4, <4>1, <4>2
    <3>2. PICK k \in DOMAIN writes : writes[k].op = "doc" /\ writes[k].id = i
      BY <3>1 DEF ObjectInv, InFile, Ops
    <3>3. writes[k] \in Ops(writes')
      BY <1>1, <3>1, <3>2, WriteRest
    <3>4. PICK w \in Ops(writes') : w = writes[k]
      BY <3>3
    <3>5. QED BY <3>2, <3>4 DEF InFile
  <2>5. QED BY <2>3, <2>4
<1>5. ASSUME NEW i \in Ids, Held(i) PROVE (i \in cached /\ docs'[i] # None) \/ i \in retired
  <2>1. CASE i \in retired
    BY <2>1
  <2>2. CASE i \in cached /\ docs[i] # None /\ i \notin retired
    <3>1. \/ docs'[i] = docs[i]
          \/ docs'[i] \in SUBSET Turns
      BY <2>2, WriteDocs
    <3>2. QED BY <2>2, <3>1, NoneApart
  <2>3. QED BY <1>5, <2>1, <2>2 DEF ObjectInv
<1>6. QED BY <1>1, <1>2, <1>3, <1>4, <1>5 DEF ObjectInv

LEMMA ImportEasy ==
  ASSUME \A w \in Ops(writes') : w.op = "doc" => w.turns = {},
         (\A w \in Ops(writes') : w.op # "unlink") \/ old'.one \in {None, {}}
  PROVE  ImportInv'
<1>1. DocsOrdered'
  BY DEF DocsOrdered, Ops
<1>2. Unlinks'
  BY DEF Unlinks, Ops
<1>3. QED BY <1>1, <1>2 DEF ImportInv

LEMMA ImportStart ==
  ASSUME Typed, KnownInv, Start
  PROVE  /\ ImportInv'
         /\ cached' # {} => \E w \in Ops(writes') : w.op = "doc" /\ w.id = base'
<1>1. TypeOK /\ FilesType /\ cached = {} /\ UNCHANGED <<files, kept>>
  BY TypeParts, StartIs DEF Typed, ServerInv, Start
<1>2. PICK now \in 1 .. MaxId + 1 :
        /\ IsNow(now) /\ base' = now
        /\ \/ /\ now \in Ids /\ old.one \in SUBSET OldTurns
              /\ writes' = <<Doc(now, Stored(now)), Doc(now, old.one),
                             SaveIndex(now, entries'), Unlink>>
           \/ /\ now \in Ids
              /\ \E a \in Ids \cup {None} :
                   LET d == Doc(now, Stored(now))
                       x == SaveIndex(a, entries')
                       y == SaveIndex(now, entries')
                   IN \/ writes' = <<d, x>> /\ a = now
                      \/ writes' = <<d, x, y>>
                      \/ writes' = <<Unlink, d, x>> /\ old.one = {} /\ a = now
                      \/ writes' = <<Unlink, d, x, y>> /\ old.one = {}
           \/ /\ UNCHANGED cached
              /\ LET y == SaveIndex(active', Found)
                 IN \/ writes' = <<>>
                    \/ writes' = <<Unlink>> /\ old.one = {}
                    \/ writes' = <<y>>
                    \/ writes' = <<Unlink, y>> /\ old.one = {}
  BY <1>1, StartIs
<1>3. now \in Ids => Stored(now) = {}
  BY <1>1, <1>2, NowIsNew, NewStored
<1>4. CASE /\ now \in Ids /\ old.one \in SUBSET OldTurns
           /\ writes' = <<Doc(now, Stored(now)), Doc(now, old.one),
                          SaveIndex(now, entries'), Unlink>>
  <2> DEFINE d == Doc(now, Stored(now))
             e == Doc(now, old.one)
             x == SaveIndex(now, entries')
             u == Unlink
  <2>1. writes' = <<d, e, x, u>>
    BY <1>4
  <2>2. /\ d.op = "doc" /\ d.turns = {} /\ d.id = now /\ e.op = "doc" /\ e.turns = old.one
        /\ x.op = "index" /\ u.op = "unlink"
    BY <1>3, <1>4, TouchedIs
  <2> HIDE DEF d, e, x, u
  <2>3. /\ DOMAIN writes' = 1 .. 4 /\ writes'[1] = d /\ writes'[2] = e /\ writes'[3] = x
        /\ writes'[4] = u
    BY <2>1
  <2>4. DocsOrdered'
    BY <2>2, <2>3 DEF DocsOrdered
  <2>5. Unlinks'
    <3>1. SUFFICES ASSUME NEW k \in DOMAIN writes', writes'[k].op = "unlink", NEW t \in old'.one
                   PROVE  \E j \in DOMAIN writes' :
                            j < k /\ writes'[j].op = "doc" /\ t \in writes'[j].turns
      BY DEF Unlinks
    <3>2. k = 4
      BY <2>2, <2>3, <3>1
    <3>3. t \in writes'[2].turns
      BY <1>1, <2>2, <2>3, <3>1 DEF files
    <3>4. 2 \in DOMAIN writes' /\ 2 < k /\ writes'[2].op = "doc"
      BY <2>2, <2>3, <3>2
    <3>5. QED BY <3>3, <3>4
  <2>6. Ops(writes') = {d, e, x, u}
    BY <2>1, OpsOf
  <2>7. QED BY <1>2, <2>2, <2>4, <2>5, <2>6 DEF ImportInv
<1>5. ASSUME now \in Ids, NEW a \in Ids \cup {None},
             LET d == Doc(now, Stored(now))
                 x == SaveIndex(a, entries')
                 y == SaveIndex(now, entries')
             IN \/ writes' = <<d, x>>
                \/ writes' = <<d, x, y>>
                \/ writes' = <<Unlink, d, x>> /\ old.one = {}
                \/ writes' = <<Unlink, d, x, y>> /\ old.one = {}
      PROVE  ImportInv' /\ \E w \in Ops(writes') : w.op = "doc" /\ w.id = base'
  <2> DEFINE d == Doc(now, Stored(now))
             x == SaveIndex(a, entries')
             y == SaveIndex(now, entries')
             u == Unlink
  <2>1. \/ writes' = <<d, x>> \/ writes' = <<d, x, y>>
        \/ writes' = <<u, d, x>> /\ old.one = {}
        \/ writes' = <<u, d, x, y>> /\ old.one = {}
    BY <1>5
  <2>2. /\ d.op = "doc" /\ d.turns = {} /\ d.id = now /\ x.op = "index" /\ y.op = "index"
        /\ u.op = "unlink"
    BY <1>3, <1>5, TouchedIs
  <2> HIDE DEF d, x, y, u
  <2>3. d \in Ops(writes') /\ Ops(writes') \subseteq {d, x, y, u}
    BY <2>1, OpsOf
  <2>4. Ops(writes') \subseteq {d, x, y} \/ old'.one = {}
    BY <1>1, <2>1, OpsOf DEF files
  <2>5. ImportInv'
    BY <2>2, <2>3, <2>4, ImportEasy
  <2>6. QED BY <1>2, <2>2, <2>3, <2>5
<1>6. CASE /\ UNCHANGED cached
           /\ LET y == SaveIndex(active', Found)
              IN \/ writes' = <<>>
                 \/ writes' = <<Unlink>> /\ old.one = {}
                 \/ writes' = <<y>>
                 \/ writes' = <<Unlink, y>> /\ old.one = {}
  <2> DEFINE y == SaveIndex(active', Found)
             u == Unlink
  <2>1. \/ writes' = <<>>
        \/ writes' = <<u>> /\ old.one = {}
        \/ writes' = <<y>>
        \/ writes' = <<u, y>> /\ old.one = {}
    BY <1>6
  <2>2. y.op = "index" /\ u.op = "unlink"
    BY TouchedIs
  <2> HIDE DEF y, u
  <2>3. CASE writes' = <<>> \/ writes' = <<y>>
    <3>1. Ops(writes') \subseteq {y}
      BY <2>3, OpsOf
    <3>2. QED BY <1>1, <1>6, <2>2, <3>1, ImportEasy
  <2>4. CASE (writes' = <<u>> \/ writes' = <<u, y>>) /\ old.one = {}
    <3>1. Ops(writes') \subseteq {y, u} /\ old'.one = {}
      BY <1>1, <2>4, OpsOf DEF files
    <3>2. QED BY <1>1, <1>6, <2>2, <3>1, ImportEasy
  <2>5. QED BY <2>1, <2>3, <2>4
<1>7. QED BY <1>1, <1>2, <1>4, <1>5, <1>6

LEMMA ImportWrite == ASSUME Typed, ImportInv, WriteNext PROVE ImportInv'
<1>1. /\ TypeOK /\ StoreType /\ DocsType /\ 1 \in DOMAIN writes
      /\ DOMAIN writes = 1 .. Len(writes) /\ Len(writes) \in Nat
  BY TypeParts, WriteSeq DEF Typed
<1>2. \A t \in Turns : kept[t] # {} => kept'[t] # {}
  <2>1. \/ kept' = kept
        \/ \E i, ts : Written(i, ts)
    BY <1>1, WriteFiles
  <2>2. QED BY <1>1, <2>1 DEF Written, DocsType
<1>3. writes[1].op = "doc" => \A t \in Turns : t \in writes[1].turns => kept'[t] # {}
  BY <1>1, WriteFiles DEF Written, DocsType
<1>4. old'.one # None => old'.one = old.one /\ old.one \subseteq Turns
  BY <1>1, WriteFiles, TypeParts, OldType, NoneApart
<1>5. CASE /\ DOMAIN writes' = 1 .. Len(writes) - 1
           /\ \A k \in DOMAIN writes' : k + 1 \in DOMAIN writes /\ writes'[k] = writes[k + 1]
  <2>1. DocsOrdered'
    <3>1. SUFFICES ASSUME NEW j \in DOMAIN writes', NEW k \in DOMAIN writes', j < k,
                          writes'[j].op = "doc", writes'[k].op = "doc"
                   PROVE  writes'[j].turns = {}
      BY DEF DocsOrdered
    <3>2. j + 1 < k + 1 /\ j + 1 \in DOMAIN writes /\ k + 1 \in DOMAIN writes
      BY <1>1, <1>5, <3>1
    <3>3. QED BY <1>5, <3>1, <3>2 DEF ImportInv, DocsOrdered
  <2>2. Unlinks'
    <3>1. SUFFICES ASSUME NEW k \in DOMAIN writes', writes'[k].op = "unlink", old'.one # None,
                          NEW t \in old'.one, kept'[t] = {}
                   PROVE  \E j \in DOMAIN writes' :
                            j < k /\ writes'[j].op = "doc" /\ t \in writes'[j].turns
      BY DEF Unlinks
    <3>2. /\ k + 1 \in DOMAIN writes /\ writes[k + 1].op = "unlink" /\ old.one # None
          /\ t \in old.one /\ t \in Turns /\ kept[t] = {}
      BY <1>2, <1>4, <1>5, <3>1
    <3>3. PICK j \in DOMAIN writes :
            j < k + 1 /\ writes[j].op = "doc" /\ t \in writes[j].turns
      BY <3>2 DEF ImportInv, Unlinks
    <3>4. j # 1
      BY <1>3, <3>1, <3>2, <3>3
    <3>5. j - 1 \in DOMAIN writes' /\ (j - 1) + 1 = j /\ j - 1 < k
      BY <1>1, <1>5, <3>1, <3>3, <3>4
    <3>6. writes'[j - 1] = writes[j]
      BY <1>5, <3>5
    <3>7. QED BY <3>3, <3>5, <3>6
  <2>3. QED BY <2>1, <2>2 DEF ImportInv
<1>6. CASE /\ writes[1].op = "copies" /\ DOMAIN writes' = DOMAIN writes
           /\ \A k \in DOMAIN writes' : k # 1 => writes'[k] = writes[k]
           /\ \E i \in writes[1].ids : writes'[1] = Copies(writes[1].ids \ {i})
  <2>1. writes'[1].op = "copies" /\ writes[1].op = "copies"
    BY <1>6, TouchedIs
  <2>2. \A k \in DOMAIN writes' :
          /\ k \in DOMAIN writes
          /\ writes'[k].op \in {"doc", "unlink"} => writes'[k] = writes[k]
          /\ writes[k].op \in {"doc", "unlink"} => writes'[k] = writes[k]
    BY <1>6, <2>1
  <2>3. DocsOrdered'
    BY <1>1, <1>6, <2>2 DEF ImportInv, DocsOrdered
  <2>4. Unlinks'
    <3>1. SUFFICES ASSUME NEW k \in DOMAIN writes', writes'[k].op = "unlink", old'.one # None,
                          NEW t \in old'.one, kept'[t] = {}
                   PROVE  \E j \in DOMAIN writes' :
                            j < k /\ writes'[j].op = "doc" /\ t \in writes'[j].turns
      BY DEF Unlinks
    <3>2. /\ k \in DOMAIN writes /\ writes[k].op = "unlink" /\ old.one # None
          /\ t \in old.one /\ kept[t] = {}
      BY <1>2, <1>4, <2>2, <3>1
    <3>3. PICK j \in DOMAIN writes : j < k /\ writes[j].op = "doc" /\ t \in writes[j].turns
      BY <3>2 DEF ImportInv, Unlinks
    <3>4. j \in DOMAIN writes' /\ writes'[j] = writes[j]
      BY <1>6, <2>2, <3>3
    <3>5. QED BY <3>3, <3>4
  <2>5. QED BY <2>3, <2>4 DEF ImportInv
<1>7. QED BY <1>1, <1>5, <1>6, WriteSeq

LEMMA ImportMigrate == ASSUME Typed, Migrate PROVE ImportInv'
<1>1. TypeOK /\ FilesType
  BY TypeParts DEF Typed
<1>2. \A k \in DOMAIN writes' :
        /\ writes'[k].op # "unlink"
        /\ writes'[k].op = "doc" => k = 1
  BY <1>1, MigrateIs, TouchedIs
<1>3. writes' \in Seq(Writes) /\ DOMAIN writes' = 1 .. Len(writes')
  BY <1>1, MigrateIs
<1>4. DocsOrdered'
  BY <1>2, <1>3 DEF DocsOrdered
<1>5. QED BY <1>2, <1>4 DEF ImportInv, Unlinks

LEMMA ObjectStart == ASSUME Typed, KnownInv, [Next]_vars, Start PROVE ObjectInv'
<1>1. /\ TypeOK /\ up' = TRUE /\ ~up /\ UNCHANGED <<files, replyVars, job, consoles, kept>>
  BY StartIs DEF Typed, Start
<1>2. \A i \in Ids : ~Held(i)'
  BY <1>1, HeldStays, NoneHeld
<1>3. ASSUME NEW w \in Ops(writes') PROVE NewDoc(w)'
  <2>1. CASE w.op = "doc"
    <3>1. /\ cached' = {base'} /\ base' \in Ids /\ conv'[base'] \in SUBSET Turns
          /\ w.id = base' /\ w.turns \subseteq conv'[base'] /\ base' \notin used
      <4>1. \/ w = Unlink
            \/ \E a \in Ids \cup {None} : w = SaveIndex(a, entries')
            \/ /\ cached' = {base'} /\ base' \in Ids /\ conv'[base'] \in SUBSET Turns
               /\ w = Doc(base', {}) \/ w = Doc(base', conv'[base'])
        BY <1>3, StartNew
      <4>2. /\ cached' = {base'} /\ base' \in Ids /\ conv'[base'] \in SUBSET Turns
            /\ w = Doc(base', {}) \/ w = Doc(base', conv'[base'])
        BY <2>1, <4>1, TouchedIs
      <4>3. base' \notin used
        BY <4>2, StartNew
      <4>4. QED BY <4>2, <4>3, TouchedIs
    <3>2. ~OldFile(base') /\ \A t \in Turns : base' \notin kept[t]
      BY <1>1, <3>1, NewStored
    <3>3. \A i : OldFile(i)' = OldFile(i)
      BY OldFileStays
    <3>4. QED BY <1>1, <1>2, <3>1, <3>2, <3>3 DEF NewDoc
  <2>2. QED BY <2>1 DEF NewDoc
<1>4. ASSUME NEW i \in cached'
      PROVE  entries'[i] # None /\ docs'[i] = None /\ InFile(i)'
  <2>1. /\ i = base' /\ base' \in Ids /\ base' \notin used /\ entries'[base'] # None
        /\ docs[base'] = None
    BY <1>4, StartNew
  <2>2. \E w \in Ops(writes') : w.op = "doc" /\ w.id = base'
    BY <1>4, ImportStart
  <2>3. QED BY <1>1, <2>1, <2>2 DEF InFile, files
<1>5. QED BY <1>2, <1>3, <1>4 DEF ObjectInv

LEMMA ObjectMigrate == ASSUME Typed, KnownInv, [Next]_vars, Migrate PROVE ObjectInv'
<1>1. /\ TypeOK /\ FilesType /\ ~up /\ up' = up /\ cached' = {}
      /\ UNCHANGED <<files, kept, replyVars, consoles>>
  BY TypeParts, MigrateIs DEF Typed, ServerInv, Migrate, objects
<1>2. \A i \in Ids : ~Held(i)'
  BY <1>1, HeldStays, NoneHeld
<1>3. ASSUME NEW w \in Ops(writes') PROVE NewDoc(w)'
  <2>1. CASE w.op = "doc"
    <3>1. PICK now \in Ids : IsNow(now) /\ w = Doc(now, old.one)
      BY <1>1, <1>3, <2>1, MigrateIs, TouchedIs DEF Ops
    <3>2. w.id = now /\ now \notin used
      BY <1>1, <3>1, NowIsNew, TouchedIs
    <3>3. ~OldFile(now) /\ \A t \in Turns : now \notin kept[t]
      BY <1>1, <3>2, NewStored
    <3>4. \A i : OldFile(i)' = OldFile(i)
      BY OldFileStays
    <3>5. QED BY <1>1, <1>2, <3>2, <3>3, <3>4 DEF NewDoc
  <2>2. QED BY <2>1 DEF NewDoc
<1>4. QED BY <1>1, <1>2, <1>3 DEF ObjectInv

LEMMA ObjectCrash == ASSUME Typed, Crash PROVE ObjectInv'
<1>1. /\ writes' = <<>> /\ cached' = {}
      /\ bound' = [c \in Conns |-> None] /\ at' = [r \in Replies |-> None]
  BY DEF Crash
<1>2. Ops(writes') = {} /\ \A i \in Ids : ~Held(i)'
  BY <1>1, OpsOf, NoneApart DEF Held
<1>3. QED BY <1>1, <1>2 DEF ObjectInv

LEMMA ObjectNext ==
  ASSUME Typed, KnownInv, ObjectInv, ImportInv, [Next]_vars PROVE ObjectInv'
<1>1. CASE UNCHANGED vars \/ Rollback
  <2>1. UNCHANGED <<docs, kept, up, entries, objects, retired, writes, replyVars, consoles>>
    BY <1>1 DEF vars, Rollback, files, index, history
  <2>2. \A i \in Ids : Held(i)' => Held(i)
    BY <2>1, HeldStays
  <2>3. QED BY <2>1, <2>2, ObjectSame
<1>2. QED BY <1>1, Kinds, ObjectWrite, ObjectStart, ObjectCrash, ObjectMigrate, ObjectStore,
             ObjectTurn, ObjectNote

\* What is left to write, when it is what it was.
LEMMA ImportSame ==
  ASSUME ImportInv, UNCHANGED <<old, writes>>, \A t \in Turns : kept[t] # {} => kept'[t] # {},
         old.one # None => old.one \subseteq Turns
  PROVE  ImportInv'
<1>1. DocsOrdered'
  BY DEF ImportInv, DocsOrdered
<1>2. Unlinks'
  BY DEF ImportInv, Unlinks
<1>3. QED BY <1>1, <1>2 DEF ImportInv

LEMMA ImportStore ==
  ASSUME Typed, KnownInv, ImportInv, StoreStep PROVE ImportInv'
<1>1. TypeOK /\ DocsType /\ entries \in [Ids -> Entry \cup {None}]
      /\ (old.one # None => old.one \subseteq Turns)
  BY TypeParts, OldType, NoneApart DEF Typed, IndexType
<1>2. ASSUME NEW a \in BOOLEAN, Create(a) PROVE ImportInv'
  <2>1. PICK i \in Ids :
          /\ Free /\ IsNext(i, entries, retired)
          /\ writes' = <<Doc(i, Stored(i)), SaveIndex(active', entries')>>
    BY <1>1, <1>2, CreateIs
  <2>2. i \notin used
    BY <1>1, <2>1, NextIsNew DEF IsNext, Taken, Listed, Free
  <2>3. Stored(i) = {} /\ Ops(writes') = {Doc(i, Stored(i)), SaveIndex(active', entries')}
    BY <1>1, <2>1, <2>2, NewStored, OpsOf
  <2>4. \A w \in Ops(writes') : (w.op = "doc" => w.turns = {}) /\ w.op # "unlink"
    BY <2>3, TouchedIs
  <2>5. QED BY <2>4, ImportEasy
<1>3. ASSUME NEW i \in Ids, Delete(i) PROVE ImportInv'
  <2>1. CASE writes' = <<Removed(i), SaveIndex(active', entries')>>
    <3>1. \A w \in Ops(writes') : w.op \notin {"doc", "unlink"}
      BY <2>1, OpsOf, TouchedIs
    <3>2. QED BY <3>1, ImportEasy
  <2>2. ASSUME NEW n \in Ids,
               LET es == [entries EXCEPT ![i] = None]
               IN /\ Listed(es) = {} /\ n # i /\ n \notin retired /\ n >= base
                  /\ writes' = <<Removed(i), SaveIndex(None, es), Doc(n, Stored(n)),
                                 SaveIndex(None, entries'), SaveIndex(n, entries')>>
        PROVE  ImportInv'
    <3> DEFINE es == [entries EXCEPT ![i] = None]
    <3>1. es[n] = None /\ entries[n] = None
      BY <1>1, <2>2 DEF Listed
    <3>2. n \notin used
      BY <1>1, <1>3, <2>2, <3>1, NextIsNew DEF Delete, Free
    <3>3. writes' = <<Removed(i), SaveIndex(None, es), Doc(n, Stored(n)),
                      SaveIndex(None, entries'), SaveIndex(n, entries')>>
      BY <2>2
    <3> HIDE DEF es
    <3>4. Ops(writes') = {Removed(i), SaveIndex(None, es), Doc(n, Stored(n)),
                          SaveIndex(None, entries'), SaveIndex(n, entries')}
      BY <3>3, OpsOf
    <3>5. Stored(n) = {}
      BY <1>1, <3>2, NewStored
    <3>6. \A w \in Ops(writes') : (w.op = "doc" => w.turns = {}) /\ w.op # "unlink"
      BY <3>4, <3>5, TouchedIs
    <3>7. QED BY <3>6, ImportEasy
  <2>3. QED BY <1>1, <1>3, <2>1, <2>2, DeleteIs
<1>4. ASSUME NEW i \in Ids, NEW n \in Names, Rename(i, n) PROVE ImportInv'
  <2>1. \A w \in Ops(writes') : w.op \notin {"doc", "unlink"}
    BY <1>1, <1>4, RenameIs, OpsOf, TouchedIs
  <2>2. QED BY <2>1, ImportEasy
<1>5. ASSUME NEW i \in Ids, Activate(i) PROVE ImportInv'
  <2>1. \A w \in Ops(writes') : w.op \notin {"doc", "unlink"}
    BY <1>1, <1>5, ActivateIs, OpsOf, TouchedIs
  <2>2. QED BY <2>1, ImportEasy
<1>6. ASSUME NEW i \in Ids, Open(i) PROVE ImportInv'
  <2>1. UNCHANGED <<old, writes>> /\ (UNCHANGED kept \/ Written(i, Stored(i)))
    BY <1>1, <1>6, OpenIs DEF Open
  <2>2. QED BY <1>1, <2>1, ImportSame DEF Written, DocsType
<1>7. ASSUME Frame PROVE ImportInv'
  BY <1>1, <1>7, ImportSame DEF Frame, files, history
<1>8. QED BY <1>2, <1>3, <1>4, <1>5, <1>6, <1>7 DEF StoreStep

LEMMA ImportNext == ASSUME Typed, KnownInv, ImportInv, [Next]_vars PROVE ImportInv'
<1>1. TypeOK /\ DocsType /\ (old.one # None => old.one \subseteq Turns)
  BY TypeParts, OldType, NoneApart DEF Typed
<1>2. CASE UNCHANGED vars \/ Rollback
  BY <1>1, <1>2, ImportSame DEF vars, Rollback, files, history
<1>3. CASE Crash
  BY <1>3, OpsOf, ImportEasy DEF Crash
<1>4. ASSUME NEW r \in Replies, SaveTurn(r) PROVE ImportInv'
  <2>1. UNCHANGED <<old, writes>> /\ Written(at[r], conv[at[r]] \cup {r})
    BY <1>4, SaveTurnIs DEF SaveTurn
  <2>2. QED BY <1>1, <2>1, ImportSame DEF Written, DocsType
<1>5. ASSUME NEW r \in Replies, Note(r) PROVE ImportInv'
  <2>1. \A w \in Ops(writes') : w.op \notin {"doc", "unlink"}
    BY <1>5, NoteIs, OpsOf, TouchedIs
  <2>2. QED BY <2>1, ImportEasy
<1>6. QED BY <1>2, <1>3, <1>4, <1>5, Kinds, ImportWrite, ImportStart, ImportMigrate, ImportStore

(* History *)

\* What a document holds was written to it.
KeptInv == HistoryKept /\ \A i \in Ids : docs[i] # None => \A t \in docs[i] : i \in kept[t]

Stores == Typed /\ KnownInv /\ ObjectInv /\ ImportInv /\ KeptInv

\* What a step does to the document of session i: it replaces it by one that has
\* all it should, or removes it for good.
DocStep(i) ==
  \/ docs'[i] = docs[i] /\ \A t \in Turns : i \in kept'[t] <=> i \in kept[t]
  \/ \E ts \in SUBSET Turns :
       /\ docs'[i] = ts
       /\ \A t \in Turns : i \in kept'[t] <=> i \in kept[t] \/ t \in ts
       /\ \A t \in Turns : i \in kept[t] /\ ~Excused(i) => t \in ts
       /\ OldFile(i) /\ docs[i] = None => old.each[i] \subseteq ts \/ i \in deleted
  \/ docs'[i] = None /\ i \in retired /\ \A t \in Turns : i \in kept'[t] <=> i \in kept[t]

LEMMA DocSame == ASSUME UNCHANGED <<docs, kept>> PROVE \A i : DocStep(i)
BY DEF DocStep

LEMMA DocOpen ==
  ASSUME Stores, NEW i \in Ids, Open(i), NEW j \in Ids PROVE DocStep(j)
<1>1. TypeOK /\ DocsType /\ FilesType /\ i \in Ids
  BY TypeParts DEF Stores, Typed
<1>2. CASE i \in cached
  BY <1>1, <1>2, OpenIs, DocSame
<1>3. CASE i \notin cached /\ j # i
  BY <1>1, <1>3, OpenIs DEF Written, DocsType, DocStep
<1>4. CASE i \notin cached /\ j = i
  <2> DEFINE ts == Stored(i)
  <2>1. Written(i, ts) /\ docs' = [docs EXCEPT ![i] = ts] /\ ts \in SUBSET Turns
    BY <1>1, <1>4, OpenIs, StoredType
  <2>2. ASSUME NEW t \in Turns, i \in kept[t], ~Excused(i) PROVE t \in ts
    <3>1. docs[i] # None /\ t \in docs[i]
      BY <2>2 DEF Stores, KeptInv, HistoryKept
    <3>2. docs[i] \cap Ruled = {}
      BY <1>1, <2>2, <3>1 DEF Stores, KeptInv, Excused
    <3>3. QED BY <3>1, <3>2 DEF Stored, ReadTurns
  <2>3. OldFile(i) /\ docs[i] = None => old.each[i] \subseteq ts
    BY DEF Stored
  <2> HIDE DEF ts
  <2>4. docs'[i] = ts /\ \A t \in Turns : i \in kept'[t] <=> i \in kept[t] \/ t \in ts
    BY <1>1, <2>1 DEF Written, DocsType
  <2>5. QED BY <1>4, <2>1, <2>2, <2>3, <2>4 DEF DocStep
<1>5. QED BY <1>2, <1>3, <1>4

LEMMA DocTurn ==
  ASSUME Stores, NEW r \in Replies, SaveTurn(r), NEW j \in Ids PROVE DocStep(j)
<1>1. TypeOK /\ DocsType /\ Typed
  BY TypeParts DEF Stores, Typed
<1>2. PICK i \in Ids : i = at[r]
  BY <1>1, SaveTurnIs
<1>3. /\ Held(i) /\ conv[i] \in SUBSET Turns /\ r \in Turns
      /\ Written(i, conv[i] \cup {r})
      /\ docs' = [docs EXCEPT ![i] = conv[i] \cup {r}]
  BY <1>1, <1>2, SaveTurnIs
<1>4. CASE j # i
  BY <1>1, <1>3, <1>4 DEF Written, DocsType, DocStep
<1>5. CASE j = i
  <2> DEFINE ts == conv[i] \cup {r}
  <2>1. ts \in SUBSET Turns
    BY <1>3
  <2>2. docs'[i] = ts /\ \A t \in Turns : i \in kept'[t] <=> i \in kept[t] \/ t \in ts
    BY <1>1, <1>3 DEF Written, DocsType
  <2>3. (docs[i] # None /\ docs[i] \subseteq conv[i]) \/ i \in deleted
    BY <1>3 DEF Stores, ObjectInv, KnownInv, IdsUsed
  <2>4. ASSUME NEW t \in Turns, i \in kept[t], ~Excused(i) PROVE t \in ts
    BY <2>3, <2>4 DEF Stores, KeptInv, HistoryKept, Excused
  <2> HIDE DEF ts
  <2>5. QED BY <1>5, <2>1, <2>2, <2>3, <2>4 DEF DocStep
<1>6. QED BY <1>4, <1>5

LEMMA DocWrite ==
  ASSUME Stores, WriteNext, NEW i \in Ids PROVE DocStep(i)
<1>1. CASE /\ writes[1].op = "doc" /\ writes[1].id = i /\ docs'[i] = writes[1].turns
           /\ writes[1].turns \in SUBSET Turns /\ NewDoc(writes[1])
           /\ \A t \in Turns : i \in kept'[t] <=> i \in kept[t] \/ t \in writes[1].turns
  <2>1. ~OldFile(i) /\ \A t \in Turns : i \in kept[t] => t \in writes[1].turns
    BY <1>1 DEF NewDoc
  <2>2. QED BY <1>1, <2>1 DEF DocStep
<1>2. CASE /\ writes[1].op = "copies" /\ i \in redone /\ OldFile(i) /\ ~up
           /\ docs'[i] = old.each[i] /\ old.each[i] \in SUBSET Turns
           /\ \A t \in Turns : i \in kept'[t] <=> i \in kept[t] \/ t \in old.each[i]
  <2>1. Excused(i)
    BY <1>2 DEF Excused
  <2>2. QED BY <1>2, <2>1 DEF DocStep
<1>3. QED BY <1>1, <1>2, WriteDocs DEF Stores, DocStep

LEMMA DocNext == ASSUME Stores, [Next]_vars, NEW i \in Ids PROVE DocStep(i)
<1>1. TypeOK /\ Typed
  BY DEF Stores, Typed
<1>2. CASE UNCHANGED vars \/ Start \/ Crash \/ Migrate \/ Rollback
  BY <1>2, DocSame DEF vars, Start, Crash, Migrate, Rollback, files, history
<1>3. CASE StoreStep
  <2>1. ASSUME NEW a \in BOOLEAN, Create(a) PROVE UNCHANGED <<docs, kept>>
    BY <2>1 DEF Create, files
  <2>2. ASSUME NEW j \in Ids, NEW n \in Names, Rename(j, n) PROVE UNCHANGED <<docs, kept>>
    BY <2>2 DEF Rename, history, files
  <2>3. ASSUME NEW j \in Ids, Activate(j) PROVE UNCHANGED <<docs, kept>>
    BY <2>3 DEF Activate, history, files
  <2>4. ASSUME NEW j \in Ids, Delete(j) PROVE UNCHANGED <<docs, kept>>
    BY <2>4 DEF Delete, files
  <2>5. ASSUME Frame PROVE UNCHANGED <<docs, kept>>
    BY <2>5 DEF Frame, history, files
  <2>6. QED BY <1>3, <2>1, <2>2, <2>3, <2>4, <2>5, DocOpen, DocSame DEF StoreStep
<1>4. ASSUME NEW r \in Replies, Note(r) PROVE DocStep(i)
  BY <1>4, DocSame DEF Note, files, history
<1>5. QED BY <1>1, <1>2, <1>3, <1>4, Kinds, DocWrite, DocTurn

\* What is deleted or written over stays so; conversation.json goes by its write.
LEMMA PastNext ==
  ASSUME Typed, [Next]_vars
  PROVE  /\ deleted \subseteq deleted' /\ redone \subseteq redone' /\ had' = had
         /\ old'.one = old.one \/ (writes # <<>> /\ writes[1].op = "unlink")
<1>1. TypeOK
  BY DEF Typed
<1>2. CASE WriteNext
  BY <1>1, <1>2, WriteFiles DEF WriteNext
<1>3. CASE UNCHANGED vars \/ Start \/ Crash \/ Migrate \/ Rollback
  BY <1>3 DEF vars, Start, Crash, Migrate, Rollback, files, history
<1>4. CASE StoreStep
  <2>1. ASSUME NEW a \in BOOLEAN, Create(a) PROVE UNCHANGED <<old, deleted, redone, had>>
    BY <2>1 DEF Create, files
  <2>2. ASSUME NEW j \in Ids, NEW n \in Names, Rename(j, n)
        PROVE  UNCHANGED <<old, deleted, redone, had>>
    BY <2>2 DEF Rename, history, files
  <2>3. ASSUME NEW j \in Ids, Activate(j) PROVE UNCHANGED <<old, deleted, redone, had>>
    BY <2>3 DEF Activate, history, files
  <2>4. ASSUME NEW j \in Ids, Delete(j)
        PROVE  UNCHANGED <<old, redone, had>> /\ deleted \subseteq deleted'
    BY <2>4 DEF Delete, files
  <2>5. ASSUME Frame \/ \E j \in Ids : Open(j) PROVE UNCHANGED <<old, deleted, redone, had>>
    BY <2>5 DEF Frame, Open, history, files
  <2>6. QED BY <1>4, <2>1, <2>2, <2>3, <2>4, <2>5 DEF StoreStep
<1>5. ASSUME NEW r \in Replies, SaveTurn(r) \/ Note(r)
      PROVE  UNCHANGED <<old, deleted, redone, had>>
  BY <1>5 DEF SaveTurn, Note, files, history
<1>6. QED BY <1>2, <1>3, <1>4, <1>5, Kinds

LEMMA KeptNext == ASSUME Stores, [Next]_vars PROVE KeptInv'
<1>1. /\ TypeOK /\ Typed /\ StoreType /\ FilesType /\ had \subseteq Turns
      /\ DocsType' /\ old'.each = old.each /\ \A i : OldFile(i)' = OldFile(i)
  BY TypeParts, FilesNext, OldFileStays, NoneApart DEF Stores, Typed, HistoryType
<1>2. \A i \in Ids : DocStep(i)
  BY DocNext
<1>3. /\ deleted \subseteq deleted' /\ redone \subseteq redone' /\ had' = had
      /\ old'.one = old.one \/ (writes # <<>> /\ writes[1].op = "unlink")
  BY <1>1, PastNext
<1>4. \A t \in Turns, i \in Ids : i \in kept[t] => i \in kept'[t]
  BY <1>2 DEF DocStep
<1>5. \A i \in Ids : Excused(i) => Excused(i)'
  BY <1>3, <1>4, SessionAssumption DEF Excused
<1>6. retired \subseteq deleted
  BY DEF Stores, KnownInv, IdsUsed
<1>7. ASSUME NEW t \in Turns, NEW i \in kept'[t], ~Excused(i)'
      PROVE  docs'[i] # None /\ t \in docs'[i]
  <2>1. i \in Ids /\ ~Excused(i)
    BY <1>1, <1>5, <1>7 DEF DocsType
  <2>2. i \notin retired
    BY <1>6, <2>1 DEF Excused
  <2>3. CASE docs'[i] = docs[i] /\ i \in kept[t]
    BY <2>1, <2>3 DEF Stores, KeptInv, HistoryKept
  <2>4. ASSUME NEW ts \in SUBSET Turns, docs'[i] = ts, i \in kept[t] \/ t \in ts,
               i \in kept[t] => t \in ts
        PROVE  docs'[i] # None /\ t \in docs'[i]
    BY <2>4, NoneApart
  <2>5. QED BY <1>2, <1>7, <2>1, <2>2, <2>3, <2>4 DEF DocStep
<1>8. ASSUME NEW t \in had'
      PROVE  \/ old'.one # None /\ t \in old'.one
             \/ \E i \in OldIds : OldFile(i)' /\ docs'[i] = None /\ t \in old'.each[i]
             \/ kept'[t] # {}
             \/ \E i \in deleted' \cap OldIds : OldFile(i)' /\ t \in old'.each[i]
  <2>1. t \in had /\ t \in Turns
    BY <1>1, <1>3
  <2>2. CASE kept[t] # {}
    <3>1. kept[t] \subseteq Ids
      BY <1>1, <2>1, TypeParts DEF DocsType
    <3>2. QED BY <1>4, <2>1, <2>2, <3>1
  <2>3. CASE old.one # None /\ t \in old.one
    <3>1. CASE old'.one = old.one
      BY <2>3, <3>1
    <3>2. CASE writes # <<>> /\ writes[1].op = "unlink"
      <4>1. 1 \in DOMAIN writes /\ \A j \in DOMAIN writes : ~(j < 1)
        BY <1>1, <3>2 DEF StoreType
      <4>2. kept[t] # {}
        BY <2>3, <3>2, <4>1 DEF Stores, ImportInv, Unlinks
      <4>3. QED BY <2>2, <4>2
    <3>3. QED BY <1>3, <3>1, <3>2
  <2>4. ASSUME NEW i \in OldIds, OldFile(i), docs[i] = None, t \in old.each[i]
        PROVE  \/ docs'[i] = None \/ i \in kept'[t] \/ i \in deleted
    BY <1>2, <2>1, <2>4, NoneApart DEF DocStep
  <2>5. QED BY <1>1, <1>3, <2>1, <2>2, <2>3, <2>4 DEF Stores, KeptInv, HistoryKept
<1>9. HistoryKept'
  BY <1>7, <1>8 DEF HistoryKept
<1>10. ASSUME NEW i \in Ids, docs'[i] # None, NEW t \in docs'[i] PROVE i \in kept'[t]
  <2>1. t \in Turns
    BY <1>1, <1>10 DEF DocsType
  <2>2. QED BY <1>2, <1>10, <2>1 DEF DocStep, Stores, KeptInv
<1>11. QED BY <1>9, <1>10 DEF KeptInv

LEMMA StoresInit == ASSUME Init PROVE Stores
<1>1. /\ docs = [i \in Ids |-> None] /\ cached = {} /\ writes = <<>>
      /\ kept = [t \in Turns |-> {}] /\ OldIds \subseteq Ids
      /\ had = {t \in OldTurns : \/ old.one # None /\ t \in old.one
                                 \/ \E i \in OldIds : old.each[i] # None /\ t \in old.each[i]}
      /\ at = [r \in Replies |-> None] /\ bound = [c \in Conns |-> None]
  BY NoneApart DEF Init
<1>2. Ops(writes) = {} /\ \A i \in Ids : ~Held(i)
  BY <1>1, OpsOf, NoneApart DEF Held
<1>3. ObjectInv /\ ImportInv
  BY <1>1, <1>2 DEF ObjectInv, ImportInv, DocsOrdered, Unlinks
<1>4. KeptInv
  BY <1>1 DEF KeptInv, HistoryKept, OldFile
<1>5. QED BY <1>3, <1>4, InitTyped, KnownInit DEF Stores

LEMMA StoresNext == ASSUME Stores, [Next]_vars PROVE Stores'
BY TypedNext, KnownNext, ObjectNext, ImportNext, KeptNext DEF Stores

LEMMA AlwaysStores == Spec => []Stores
BY StoresInit, StoresNext, PTL DEF Spec

\* No turn is lost: what was written to a session's document stays in it and what
\* an older version left stays in its file or gets into a document, through every
\* overlap of replies and calls, every crash between two files and every upgrade.
THEOREM NothingForgotten == Spec => []HistoryKept
<1>1. Stores => HistoryKept
  BY DEF Stores, KeptInv
<1>2. QED BY <1>1, AlwaysStores, PTL

(* Restarts *)

Settled(w, es) == w.op \in {"unlink", "mark"} \/ (w.op = "index" /\ w.value.entries = es)
NoIndex == \A w \in Ops(writes) : w.op # "index"
Noting(i) == \E r \in Replies : pc[r] = "note" /\ at[r] = i
Late(i) == \E r \in Replies : at[r] = i /\ pc[r] \in {"note", "over"}
Removing(i) == \E w \in Ops(writes) : w.op = "remove" /\ w.id = i

\* After any other write the index is still to be written; last, as it is.
Closing ==
  up => \A k \in DOMAIN writes :
          \/ Settled(writes[k], entries)
          \/ \E j \in DOMAIN writes : k < j /\ writes[j].op = "index"

\* Once the index is written a restart finds what is listed.
FindsListed ==
  up /\ NoIndex => \A i \in Ids : entries[i] # None =>
    \/ Found[i] = entries[i] \/ RuledIndex
    \/ docs[i] # None /\ (Noting(i) \/ (i \in cached /\ docs[i] \cap Ruled # {}))

\* A file of a session that is not listed is that of a deleted one.
FilesListed ==
  up => \A i \in Ids : entries[i] = None /\ (docs[i] # None \/ OldFile(i)) =>
          i \in retired /\ (OldFile(i) \/ Late(i) \/ Removing(i))
IndexListed ==
  up /\ NoIndex /\ saved # None =>
    \A i \in Ids : SavedEntries[i] # None => entries[i] # None
FoundInv == Closing /\ FindsListed /\ FilesListed /\ IndexListed

LEMMA FoundIs ==
  ASSUME NEW i \in Ids
  PROVE  /\ ReadIndex.entries[i] # None => Found[i] = ReadIndex.entries[i]
         /\ ReadIndex.entries[i] = None /\ (docs[i] # None \/ OldFile(i)) =>
              Found[i] = [turns |-> Cardinality(Stored(i)), name |-> NoName]
         /\ ReadIndex.entries[i] = None /\ ~(docs[i] # None \/ OldFile(i)) => Found[i] = None
BY DEF Found, Orphans

LEMMA FoundThere ==
  ASSUME FilesType, NEW i \in Ids, docs[i] # None \/ OldFile(i) PROVE Found[i] # None
BY FoundIs, StoredType, EntryIs

LEMMA ReadIndexSame ==
  ASSUME UNCHANGED saved, old'.each = old.each
  PROVE  (ReadIndex.entries)' = ReadIndex.entries /\ SavedEntries' = SavedEntries
<1>1. \A i : OldFile(i)' = OldFile(i)
  BY DEF OldFile
<1>2. SavedEntries' = SavedEntries
  BY DEF SavedEntries
<1>3. CASE saved # None
  BY <1>2, <1>3 DEF ReadIndex
<1>4. CASE saved = None
  <2>1. (ReadIndex.entries)' =
          [i \in Ids |-> IF i \in OldIndexed /\ OldFile(i)'
                        THEN [turns |-> Cardinality(old'.each[i]), name |-> NoName] ELSE None]
    BY <1>4 DEF ReadIndex
  <2>2. ReadIndex.entries =
          [i \in Ids |-> IF i \in OldIndexed /\ OldFile(i)
                        THEN [turns |-> Cardinality(old.each[i]), name |-> NoName] ELSE None]
    BY <1>4 DEF ReadIndex
  <2>3. QED BY <1>1, <1>2, <2>1, <2>2
<1>5. QED BY <1>3, <1>4

LEMMA FoundSame ==
  ASSUME UNCHANGED saved, old'.each = old.each, NEW i \in Ids, docs'[i] = docs[i]
  PROVE  Found'[i] = Found[i]
<1>1. OldFile(i)' = OldFile(i)
  BY DEF OldFile
<1>2. (i \in Orphans)' <=> i \in Orphans
  BY <1>1 DEF Orphans
<1>3. Stored(i)' = Stored(i)
  BY <1>1 DEF Stored, ReadTurns
<1>4. Found'[i] = IF (ReadIndex.entries)'[i] = None /\ (i \in Orphans)'
                  THEN [turns |-> Cardinality(Stored(i)'), name |-> NoName]
                  ELSE (ReadIndex.entries)'[i]
  BY DEF Found
<1>5. Found[i] = IF ReadIndex.entries[i] = None /\ i \in Orphans
                 THEN [turns |-> Cardinality(Stored(i)), name |-> NoName]
                 ELSE ReadIndex.entries[i]
  BY DEF Found
<1>6. QED BY <1>2, <1>3, <1>4, <1>5, ReadIndexSame

\* Replies that have answered stay with their session.
LEMMA LateGoes ==
  ASSUME NEW s, Goes(s), NEW i
  PROVE  (Late(i) => Late(i)') /\ (Noting(i) => Noting(i)')
BY DEF Goes, Late, Noting

LEMMA RestartFound == ASSUME Typed, FoundInv PROVE RestartFinds
<1>1. FilesType
  BY TypeParts DEF Typed
<1>2. SUFFICES ASSUME Free, NEW i \in Ids
               PROVE  /\ entries[i] # None =>
                           \/ Found[i] = entries[i]
                           \/ RuledIndex /\ (docs[i] # None => Found[i] # None)
                           \/ /\ Found[i] # None
                              /\ \/ \E r \in Replies : pc[r] = "note" /\ at[r] = i
                                 \/ docs[i] # None /\ docs[i] \cap Ruled # {}
                      /\ entries[i] = None /\ Found[i] # None =>
                           /\ i \in retired
                           /\ \/ OldFile(i)
                              \/ \E r \in Replies : at[r] = i /\ pc[r] \in {"note", "over"}
  BY DEF RestartFinds
<1>3. up /\ NoIndex /\ ~Removing(i)
  BY <1>2, OpsOf DEF Free, NoIndex, Removing
<1>4. docs[i] # None \/ OldFile(i) => Found[i] # None
  BY <1>1, FoundThere
<1>5. ASSUME entries[i] # None
      PROVE  \/ Found[i] = entries[i]
             \/ RuledIndex /\ (docs[i] # None => Found[i] # None)
             \/ /\ Found[i] # None
                /\ \/ \E r \in Replies : pc[r] = "note" /\ at[r] = i
                   \/ docs[i] # None /\ docs[i] \cap Ruled # {}
  BY <1>3, <1>4, <1>5 DEF FoundInv, FindsListed, Noting
<1>6. ASSUME entries[i] = None, Found[i] # None
      PROVE  /\ i \in retired
             /\ \/ OldFile(i)
                \/ \E r \in Replies : at[r] = i /\ pc[r] \in {"note", "over"}
  <2>1. docs[i] # None \/ OldFile(i)
    <3>1. CASE ReadIndex.entries[i] = None
      BY <1>6, <3>1, FoundIs
    <3>2. CASE ReadIndex.entries[i] # None /\ saved = None
      BY <3>2 DEF ReadIndex
    <3>3. CASE ReadIndex.entries[i] # None /\ saved # None
      <4>1. SavedEntries[i] # None
        BY <3>3 DEF ReadIndex
      <4>2. QED BY <1>3, <1>6, <3>3, <4>1 DEF FoundInv, IndexListed
    <3>4. QED BY <3>1, <3>2, <3>3
  <2>2. QED BY <1>3, <1>6, <2>1 DEF FoundInv, FilesListed, Late
<1>7. QED BY <1>5, <1>6

\* A call leaves the index to write, and it is the one in memory.
LEMMA ClosingLast ==
  ASSUME NEW n \in DOMAIN writes', DOMAIN writes' \subseteq Nat,
         writes'[n].op = "index", Settled(writes'[n], entries'),
         \A k \in DOMAIN writes' : n < k => Settled(writes'[k], entries')
  PROVE  Closing' /\ ~NoIndex'
<1>1. ASSUME NEW k \in DOMAIN writes'
      PROVE  \/ Settled(writes'[k], entries')
             \/ \E j \in DOMAIN writes' : k < j /\ writes'[j].op = "index"
  <2>1. k < n \/ k = n \/ n < k
    OBVIOUS
  <2>2. QED BY <2>1
<1>2. ~NoIndex'
  BY DEF NoIndex, Ops
<1>3. QED BY <1>1, <1>2 DEF Closing

LEMMA SettledIs ==
  /\ \A a, es : Settled(SaveIndex(a, es), es) /\ SaveIndex(a, es).op = "index"
  /\ \A es : Settled(Unlink, es) /\ Settled(Mark, es)
BY TouchedIs DEF Settled

LEMMA FoundWrite ==
  ASSUME Typed, KnownInv, FoundInv, [Next]_vars, WriteNext PROVE FoundInv'
<1>1. /\ TypeOK /\ StoreType /\ DocsType /\ 1 \in DOMAIN writes /\ DOMAIN writes = 1 .. Len(writes)
      /\ Len(writes) \in Nat /\ old'.each = old.each
      /\ UNCHANGED <<up, entries, cached, retired, pc, at>> /\ FilesType /\ writes[1] \in Writes
  BY TypeParts, WriteSeq, WriteFiles DEF Typed, WriteNext, index, objects, replyVars
<1>2. /\ \A i : Noting(i)' = Noting(i) /\ Late(i)' = Late(i) /\ OldFile(i)' = OldFile(i)
      /\ RuledIndex' = RuledIndex
  BY <1>1 DEF Noting, Late, OldFile, RuledIndex
<1>3. \A k \in DOMAIN writes : k # 1 => writes[k] \in Ops(writes')
  BY <1>1, WriteRest
<1>4. Closing'
  <2>1. SUFFICES ASSUME up, NEW k \in DOMAIN writes'
                 PROVE  \/ Settled(writes'[k], entries)
                        \/ \E j \in DOMAIN writes' : k < j /\ writes'[j].op = "index"
    BY <1>1 DEF Closing
  <2>2. writes[1].op # "copies"
    BY <1>1, <2>1 DEF KnownInv, Sound, Ops
  <2>3. /\ DOMAIN writes' = 1 .. Len(writes) - 1
        /\ \A n \in DOMAIN writes' : n + 1 \in DOMAIN writes /\ writes'[n] = writes[n + 1]
    BY <1>1, <2>2, WriteSeq
  <2>4. CASE Settled(writes[k + 1], entries)
    BY <2>3, <2>4
  <2>5. ASSUME NEW j \in DOMAIN writes, k + 1 < j, writes[j].op = "index"
        PROVE  \E m \in DOMAIN writes' : k < m /\ writes'[m].op = "index"
    <3>1. j - 1 \in DOMAIN writes' /\ (j - 1) + 1 = j /\ k < j - 1
      BY <1>1, <2>1, <2>3, <2>5
    <3>2. writes'[j - 1] = writes[j]
      BY <2>3, <3>1
    <3>3. QED BY <2>5, <3>1, <3>2
  <2>6. QED BY <2>1, <2>3, <2>4, <2>5 DEF FoundInv, Closing
<1>5. ASSUME up, NoIndex'
      PROVE  \/ /\ writes[1].op = "index" /\ saved' = writes[1].value /\ saved' # None
                /\ saved'.entries = entries
             \/ NoIndex /\ UNCHANGED <<docs, saved>>
  <2>1. \A k \in DOMAIN writes : k # 1 => writes[k].op # "index"
    BY <1>3, <1>5 DEF NoIndex
  <2>2. \A j \in DOMAIN writes : ~(1 < j /\ writes[j].op = "index")
    BY <1>1, <2>1
  <2>3. Settled(writes[1], entries)
    BY <1>1, <1>5, <2>2 DEF FoundInv, Closing
  <2>4. CASE writes[1].op = "index"
    <3>1. saved' = writes[1].value /\ writes[1].value \in Index
      BY <1>1, <2>4, WriteFiles, WriteFields
    <3>2. QED BY <2>3, <2>4, <3>1, NoneApart DEF Settled
  <2>5. CASE writes[1].op # "index"
    <3>1. NoIndex
      BY <2>1, <2>5 DEF NoIndex, Ops
    <3>2. UNCHANGED <<docs, saved>>
      BY <1>1, <2>3, <2>5, WriteFiles DEF Settled
    <3>3. QED BY <3>1, <3>2
  <2>6. QED BY <2>4, <2>5
<1>6. ASSUME up, NoIndex', writes[1].op = "index", saved' # None, saved'.entries = entries
      PROVE  /\ \A i \in Ids : SavedEntries'[i] # None => entries[i] # None
             /\ \A i \in Ids : entries[i] # None => Found'[i] = entries[i] \/ RuledIndex
  <2>1. CASE RuledIndex
    <3>1. SavedEntries' = NoEntries
      BY <1>6, <2>1 DEF SavedEntries, RuledIndex
    <3>2. QED BY <2>1, <3>1 DEF NoEntries
  <2>2. CASE ~RuledIndex
    <3>1. SavedEntries' = entries
      BY <1>6, <2>2 DEF SavedEntries, RuledIndex
    <3>2. (ReadIndex.entries)' = entries
      BY <1>6, <3>1 DEF ReadIndex
    <3>3. ASSUME NEW i \in Ids, entries[i] # None PROVE Found'[i] = entries[i]
      <4>1. Found'[i] = IF (ReadIndex.entries)'[i] = None /\ (i \in Orphans)'
                        THEN [turns |-> Cardinality(Stored(i)'), name |-> NoName]
                        ELSE (ReadIndex.entries)'[i]
        BY DEF Found
      <4>2. QED BY <3>2, <3>3, <4>1
    <3>4. QED BY <3>1, <3>3
  <2>3. QED BY <2>1, <2>2
<1>7. FindsListed'
  <2>1. SUFFICES ASSUME up, NoIndex', NEW i \in Ids, entries[i] # None
                 PROVE  \/ Found'[i] = entries[i] \/ RuledIndex
                        \/ /\ docs'[i] # None
                           /\ Noting(i) \/ (i \in cached /\ docs'[i] \cap Ruled # {})
    BY <1>1, <1>2 DEF FindsListed
  <2>2. CASE NoIndex /\ UNCHANGED <<docs, saved>>
    <3>1. Found'[i] = Found[i]
      BY <1>1, <2>2, FoundSame
    <3>2. QED BY <2>1, <2>2, <3>1 DEF FoundInv, FindsListed
  <2>3. QED BY <1>5, <1>6, <2>1, <2>2
<1>8. IndexListed'
  <2>1. SUFFICES ASSUME up, NoIndex', saved' # None, NEW i \in Ids, SavedEntries'[i] # None
                 PROVE  entries[i] # None
    BY <1>1 DEF IndexListed
  <2>2. CASE NoIndex /\ UNCHANGED <<docs, saved>>
    <3>1. SavedEntries' = SavedEntries
      BY <1>1, <2>2, ReadIndexSame
    <3>2. QED BY <2>1, <2>2, <3>1 DEF FoundInv, IndexListed
  <2>3. QED BY <1>5, <1>6, <2>1, <2>2
<1>9. FilesListed'
  <2>1. SUFFICES ASSUME up, NEW i \in Ids, entries[i] = None, docs'[i] # None \/ OldFile(i)
                 PROVE  i \in retired /\ (OldFile(i) \/ Late(i) \/ Removing(i)')
    BY <1>1, <1>2 DEF FilesListed
  <2>2. i \notin Touched(writes[1])
    BY <1>1, <2>1 DEF KnownInv, Sound, Ops
  <2>3. docs[i] # None \/ OldFile(i)
    BY <1>1, <2>1, <2>2, WriteTouches
  <2>4. i \in retired /\ (OldFile(i) \/ Late(i) \/ Removing(i))
    BY <2>1, <2>3 DEF FoundInv, FilesListed
  <2>5. ASSUME Removing(i), ~OldFile(i) PROVE Removing(i)'
    <3>1. PICK k \in DOMAIN writes : writes[k].op = "remove" /\ writes[k].id = i
      BY <2>5 DEF Removing, Ops
    <3>2. CASE k = 1
      <4>1. docs' = [docs EXCEPT ![i] = None]
        BY <1>1, <3>1, <3>2, WriteFiles
      <4>2. QED BY <1>1, <2>1, <2>5, <4>1 DEF DocsType
    <3>3. CASE k # 1
      <4>1. PICK w \in Ops(writes') : w = writes[k]
        BY <1>3, <3>3
      <4>2. QED BY <3>1, <4>1 DEF Removing
    <3>4. QED BY <3>2, <3>3
  <2>6. QED BY <2>4, <2>5
<1>10. QED BY <1>4, <1>7, <1>8, <1>9 DEF FoundInv

\* A call that saves the index.
LEMMA FoundCall ==
  ASSUME Typed, FoundInv, [Next]_vars, Free, UNCHANGED docs, Closing', ~NoIndex',
         \A i : Late(i) => Late(i)', retired \subseteq retired',
         \A i \in Ids : entries'[i] = None =>
           entries[i] = None \/ (i \in retired' /\ Removing(i)')
  PROVE  FoundInv'
<1>1. \A i : OldFile(i)' = OldFile(i)
  BY OldFileStays
<1>2. up /\ \A i : ~Removing(i)
  BY OpsOf DEF Free, Removing
<1>3. ASSUME NEW i \in Ids, entries'[i] = None, docs'[i] # None \/ OldFile(i)'
      PROVE  i \in retired' /\ (OldFile(i)' \/ Late(i)' \/ Removing(i)')
  <2>1. CASE entries[i] = None
    <3>1. i \in retired /\ (OldFile(i) \/ Late(i))
      BY <1>1, <1>2, <1>3, <2>1 DEF FoundInv, FilesListed
    <3>2. QED BY <1>1, <3>1
  <2>2. QED BY <1>3, <2>1
<1>4. QED BY <1>3 DEF FoundInv, FindsListed, FilesListed, IndexListed

LEMMA FoundStay ==
  ASSUME Typed, FoundInv, [Next]_vars, UNCHANGED <<saved, up, entries, cached, retired, writes>>,
         \A i \in Ids : \/ docs'[i] = docs[i]
                        \/ docs'[i] # None /\ Noting(i)' /\ (entries[i] = None => i \in retired),
         \A i \in Ids : Late(i) => Late(i)',
         \A i \in Ids : Noting(i) /\ entries[i] # None => Noting(i)'
  PROVE  FoundInv'
<1>1. old'.each = old.each /\ \A i : OldFile(i)' = OldFile(i) /\ Removing(i)' = Removing(i)
  BY FilesNext, OldFileStays DEF Removing
<1>2. NoIndex' = NoIndex /\ RuledIndex' = RuledIndex /\ SavedEntries' = SavedEntries
  BY <1>1, ReadIndexSame DEF NoIndex, RuledIndex
<1>3. Closing' /\ IndexListed'
  BY <1>2 DEF FoundInv, Closing, IndexListed
<1>4. FindsListed'
  <2>1. SUFFICES ASSUME up, NoIndex, NEW i \in Ids, entries[i] # None
                 PROVE  \/ Found'[i] = entries[i] \/ RuledIndex
                        \/ /\ docs'[i] # None
                           /\ Noting(i)' \/ (i \in cached /\ docs'[i] \cap Ruled # {})
    BY <1>2 DEF FindsListed
  <2>2. CASE docs'[i] = docs[i]
    <3>1. Found'[i] = Found[i]
      BY <1>1, <2>2, FoundSame
    <3>2. QED BY <2>1, <2>2, <3>1 DEF FoundInv, FindsListed
  <2>3. QED BY <2>1, <2>2
<1>5. FilesListed'
  <2>1. SUFFICES ASSUME up, NEW i \in Ids, entries[i] = None, docs'[i] # None \/ OldFile(i)
                 PROVE  i \in retired /\ (OldFile(i) \/ Late(i)' \/ Removing(i))
    BY <1>1 DEF FilesListed
  <2>2. CASE docs'[i] = docs[i]
    BY <2>1, <2>2 DEF FoundInv, FilesListed
  <2>3. CASE Noting(i)' /\ i \in retired
    BY <2>3 DEF Noting, Late
  <2>4. QED BY <2>1, <2>2, <2>3
<1>6. QED BY <1>3, <1>4, <1>5 DEF FoundInv

LEMMA FoundOpen ==
  ASSUME Typed, FoundInv, [Next]_vars, NEW i \in Ids, entries[i] # None, Open(i), Goes({i})
  PROVE  FoundInv'
<1>1. /\ TypeOK /\ FilesType /\ docs \in [Ids -> (SUBSET Turns) \cup {None}]
      /\ Free /\ up /\ writes = <<>> /\ UNCHANGED <<saved, up, entries, retired, writes>>
      /\ cached' = cached \cup {i}
  BY TypeParts, OpenIs DEF Typed, Open, index, FilesType, Free
<1>2. \A j : Late(j) => Late(j)'
  BY LateGoes
<1>3. \A j : Noting(j) => Noting(j)'
  BY LateGoes
<1>4. CASE i \in cached
  <2>1. UNCHANGED docs /\ UNCHANGED cached
    BY <1>1, <1>4, OpenIs
  <2>2. QED BY <1>1, <1>2, <1>3, <2>1, FoundStay
<1>5. CASE i \notin cached
  <2>1. /\ docs'[i] = Stored(i) /\ Stored(i) \in SUBSET Turns
        /\ \A j \in Ids : j # i => docs'[j] = docs[j]
    BY <1>1, <1>5, OpenIs, StoredType
  <2>2. docs'[i] # None
    BY <2>1, NoneApart
  <2>3. old'.each = old.each /\ \A j : OldFile(j)' = OldFile(j) /\ ~Removing(j)
    BY <1>1, FilesNext, OldFileStays, OpsOf DEF Removing
  <2>4. NoIndex /\ NoIndex' /\ RuledIndex' = RuledIndex /\ SavedEntries' = SavedEntries
        /\ (ReadIndex.entries)' = ReadIndex.entries
    BY <1>1, <2>3, ReadIndexSame, OpsOf DEF NoIndex, RuledIndex
  <2>5. Closing' /\ IndexListed'
    BY <1>1, <2>4 DEF FoundInv, Closing, IndexListed
  <2>6. FilesListed'
    <3>1. SUFFICES ASSUME NEW j \in Ids, entries[j] = None, docs'[j] # None \/ OldFile(j)
                   PROVE  j \in retired /\ (OldFile(j) \/ Late(j)')
      BY <1>1, <2>3 DEF FilesListed
    <3>2. j # i /\ docs'[j] = docs[j]
      BY <2>1, <3>1
    <3>3. QED BY <1>1, <1>2, <2>3, <3>1, <3>2 DEF FoundInv, FilesListed
  <2>7. ASSUME NEW j \in Ids, entries[j] # None
        PROVE  \/ Found'[j] = entries[j] \/ RuledIndex
               \/ /\ docs'[j] # None
                  /\ Noting(j)' \/ (j \in cached' /\ docs'[j] \cap Ruled # {})
    <3>1. \/ Found[j] = entries[j] \/ RuledIndex
          \/ docs[j] # None /\ (Noting(j) \/ (j \in cached /\ docs[j] \cap Ruled # {}))
      BY <1>1, <2>4, <2>7 DEF FoundInv, FindsListed
    <3>2. CASE j # i
      <4>1. docs'[j] = docs[j] /\ Found'[j] = Found[j]
        BY <1>1, <2>1, <2>3, <3>2, FoundSame
      <4>2. QED BY <1>1, <1>3, <3>1, <4>1
    <3>3. CASE j = i /\ Found[j] = entries[j] /\ docs'[j] \cap Ruled = {}
      <4>1. CASE ReadIndex.entries[j] # None
        <5>1. Found'[j] = (ReadIndex.entries)'[j]
          BY <2>4, <4>1 DEF Found
        <5>2. QED BY <2>4, <3>3, <4>1, <5>1, FoundIs
      <4>2. CASE ReadIndex.entries[j] = None
        <5>1. Stored(j)' = Stored(j)
          <6>1. Stored(j)' = IF docs'[j] \cap Ruled # {} THEN {} ELSE docs'[j]
            BY <2>2, <3>3 DEF Stored, ReadTurns
          <6>2. QED BY <2>1, <3>3, <6>1
        <5>2. (j \in Orphans)'
          BY <2>2, <3>3 DEF Orphans
        <5>3. Found'[j] = [turns |-> Cardinality(Stored(j)'), name |-> NoName]
          BY <2>4, <4>2, <5>2 DEF Found
        <5>4. Found[j] = [turns |-> Cardinality(Stored(j)), name |-> NoName]
          BY <2>7, <3>3, <4>2, FoundIs
        <5>5. QED BY <3>3, <5>1, <5>3, <5>4
      <4>3. QED BY <4>1, <4>2
    <3>4. CASE j = i /\ docs'[j] \cap Ruled # {}
      BY <1>1, <2>2, <3>4
    <3>5. CASE j = i /\ Noting(j)
      BY <1>3, <2>2, <3>5
    <3>6. QED BY <1>5, <3>1, <3>2, <3>3, <3>4, <3>5
  <2>8. FindsListed'
    BY <1>1, <2>4, <2>7 DEF FindsListed
  <2>9. QED BY <2>5, <2>6, <2>8 DEF FoundInv
<1>6. QED BY <1>4, <1>5

LEMMA FoundStart == ASSUME Typed, KnownInv, FoundInv, [Next]_vars, Start PROVE FoundInv'
<1>1. /\ TypeOK /\ FilesType /\ UNCHANGED <<files, replyVars>> /\ UNCHANGED <<docs, saved, old>>
      /\ entries' \in [Ids -> Entry \cup {None}]
  BY TypeParts, StartIs DEF Typed, IndexOk, files
<1>2. FilesListed'
  <2>1. ASSUME NEW i \in Ids, entries'[i] = None, docs'[i] # None \/ OldFile(i)' PROVE FALSE
    <3>1. Found[i] # None
      BY <1>1, <2>1, FoundThere DEF OldFile
    <3>2. QED BY <2>1, <3>1, StartNew
  <2>2. QED BY <2>1 DEF FilesListed
<1>3. ASSUME Closing', ~NoIndex' PROVE FoundInv'
  BY <1>2, <1>3 DEF FoundInv, FindsListed, IndexListed
<1>4. PICK now \in 1 .. MaxId + 1 :
        \/ writes' = <<Doc(now, Stored(now)), Doc(now, old.one),
                       SaveIndex(now, entries'), Unlink>>
        \/ \E a \in Ids \cup {None} :
             LET d == Doc(now, Stored(now))
                 x == SaveIndex(a, entries')
                 y == SaveIndex(now, entries')
             IN \/ writes' = <<d, x>> /\ a = now
                \/ writes' = <<d, x, y>>
                \/ writes' = <<Unlink, d, x>> /\ old.one = {} /\ a = now
                \/ writes' = <<Unlink, d, x, y>> /\ old.one = {}
        \/ /\ entries' = Found
           /\ LET y == SaveIndex(active', Found)
              IN \/ writes' = <<>>
                 \/ writes' = <<Unlink>> /\ old.one = {}
                 \/ writes' = <<y>>
                 \/ writes' = <<Unlink, y>> /\ old.one = {}
  BY <1>1, StartIs
<1>5. CASE writes' = <<Doc(now, Stored(now)), Doc(now, old.one),
                       SaveIndex(now, entries'), Unlink>>
  <2> DEFINE d == Doc(now, Stored(now))
             e == Doc(now, old.one)
             x == SaveIndex(now, entries')
             u == Unlink
  <2>1. writes' = <<d, e, x, u>>
    BY <1>5
  <2>2. x.op = "index" /\ Settled(x, entries') /\ Settled(u, entries')
    BY SettledIs
  <2> HIDE DEF d, e, x, u
  <2>3. DOMAIN writes' = 1 .. 4 /\ writes'[3] = x /\ writes'[4] = u
    BY <2>1
  <2>4. /\ 3 \in DOMAIN writes' /\ DOMAIN writes' \subseteq Nat
        /\ \A k \in DOMAIN writes' : 3 < k => k = 4
    BY <2>3
  <2>5. Closing' /\ ~NoIndex'
    BY <2>2, <2>3, <2>4, ClosingLast
  <2>6. QED BY <1>3, <2>5
<1>6. ASSUME NEW a,
             LET d == Doc(now, Stored(now))
                 x == SaveIndex(a, entries')
                 y == SaveIndex(now, entries')
             IN \/ writes' = <<d, x>> \/ writes' = <<d, x, y>>
                \/ writes' = <<Unlink, d, x>> \/ writes' = <<Unlink, d, x, y>>
      PROVE  FoundInv'
  <2> DEFINE d == Doc(now, Stored(now))
             x == SaveIndex(a, entries')
             y == SaveIndex(now, entries')
             u == Unlink
  <2>1. \/ writes' = <<d, x>> \/ writes' = <<d, x, y>>
        \/ writes' = <<u, d, x>> \/ writes' = <<u, d, x, y>>
    BY <1>6
  <2>2. x.op = "index" /\ Settled(x, entries') /\ y.op = "index" /\ Settled(y, entries')
    BY SettledIs
  <2> HIDE DEF d, x, y, u
  <2>3. \E n \in DOMAIN writes' :
          /\ DOMAIN writes' = 1 .. n /\ n \in Nat
          /\ writes'[n] = x \/ writes'[n] = y
    <3>1. ASSUME writes' = <<d, x>> PROVE DOMAIN writes' = 1 .. 2 /\ writes'[2] = x
      BY <3>1
    <3>2. ASSUME writes' = <<d, x, y>> PROVE DOMAIN writes' = 1 .. 3 /\ writes'[3] = y
      BY <3>2
    <3>3. ASSUME writes' = <<u, d, x>> PROVE DOMAIN writes' = 1 .. 3 /\ writes'[3] = x
      BY <3>3
    <3>4. ASSUME writes' = <<u, d, x, y>> PROVE DOMAIN writes' = 1 .. 4 /\ writes'[4] = y
      BY <3>4
    <3>5. /\ 2 \in 1 .. 2 /\ 3 \in 1 .. 3 /\ 4 \in 1 .. 4 /\ 2 \in Nat /\ 3 \in Nat
          /\ 4 \in Nat
      OBVIOUS
    <3>6. QED BY <2>1, <3>1, <3>2, <3>3, <3>4, <3>5
  <2>4. PICK n \in DOMAIN writes' :
          /\ DOMAIN writes' = 1 .. n /\ n \in Nat
          /\ writes'[n] = x \/ writes'[n] = y
    BY <2>3
  <2>5. DOMAIN writes' \subseteq Nat /\ \A k \in DOMAIN writes' : ~(n < k)
    BY <2>4
  <2>6. Closing' /\ ~NoIndex'
    BY <2>2, <2>4, <2>5, ClosingLast
  <2>7. QED BY <1>3, <2>6
<1>7. CASE entries' = Found /\ (writes' = <<>> \/ writes' = <<Unlink>>)
  <2>1. NoIndex' /\ Closing'
    BY <1>7, SettledIs, OpsOf, TouchedIs DEF NoIndex, Closing
  <2>2. FindsListed'
    <3>1. \A i \in Ids : Found'[i] = Found[i]
      BY <1>1, FoundSame
    <3>2. QED BY <1>7, <3>1 DEF FindsListed
  <2>3. IndexListed'
    <3>1. SUFFICES ASSUME saved # None, NEW i \in Ids, SavedEntries[i] # None PROVE Found[i] # None
      BY <1>1, <1>7, ReadIndexSame DEF IndexListed
    <3>2. ReadIndex.entries[i] = SavedEntries[i]
      BY <3>1 DEF ReadIndex
    <3>3. QED BY <3>1, <3>2, FoundIs
  <2>4. QED BY <1>2, <2>1, <2>2, <2>3 DEF FoundInv
<1>8. CASE /\ entries' = Found
           /\ LET y == SaveIndex(active', Found) IN writes' = <<y>> \/ writes' = <<Unlink, y>>
  <2> DEFINE y == SaveIndex(active', Found)
             u == Unlink
  <2>1. writes' = <<y>> \/ writes' = <<u, y>>
    BY <1>8
  <2>2. y.op = "index" /\ Settled(y, entries')
    BY <1>8, SettledIs
  <2> HIDE DEF y, u
  <2>3. \E n \in DOMAIN writes' : DOMAIN writes' = 1 .. n /\ n \in Nat /\ writes'[n] = y
    <3>1. ASSUME writes' = <<y>> PROVE DOMAIN writes' = 1 .. 1 /\ writes'[1] = y
      BY <3>1
    <3>2. ASSUME writes' = <<u, y>> PROVE DOMAIN writes' = 1 .. 2 /\ writes'[2] = y
      BY <3>2
    <3>3. 1 \in 1 .. 1 /\ 2 \in 1 .. 2 /\ 1 \in Nat /\ 2 \in Nat
      OBVIOUS
    <3>4. QED BY <2>1, <3>1, <3>2, <3>3
  <2>4. PICK n \in DOMAIN writes' : DOMAIN writes' = 1 .. n /\ n \in Nat /\ writes'[n] = y
    BY <2>3
  <2>5. DOMAIN writes' \subseteq Nat /\ \A k \in DOMAIN writes' : ~(n < k)
    BY <2>4
  <2>6. Closing' /\ ~NoIndex'
    BY <2>2, <2>4, <2>5, ClosingLast
  <2>7. QED BY <1>3, <2>6
<1>9. QED BY <1>4, <1>5, <1>6, <1>7, <1>8

LEMMA ClosingOne ==
  ASSUME NEW a, writes' = <<SaveIndex(a, entries')>> PROVE Closing' /\ ~NoIndex'
<1> DEFINE x == SaveIndex(a, entries')
<1>1. writes' = <<x>>
  OBVIOUS
<1>2. x.op = "index" /\ Settled(x, entries')
  BY SettledIs
<1> HIDE DEF x
<1>3. DOMAIN writes' = {1} /\ writes'[1] = x
  BY <1>1
<1>4. 1 \in DOMAIN writes' /\ DOMAIN writes' \subseteq Nat /\ \A k \in DOMAIN writes' : ~(1 < k)
  BY <1>3
<1>5. QED BY <1>2, <1>3, <1>4, ClosingLast

LEMMA ClosingTwo ==
  ASSUME NEW a, NEW w, writes' = <<w, SaveIndex(a, entries')>> PROVE Closing' /\ ~NoIndex'
<1> DEFINE x == SaveIndex(a, entries')
<1>1. writes' = <<w, x>>
  OBVIOUS
<1>2. x.op = "index" /\ Settled(x, entries')
  BY SettledIs
<1> HIDE DEF x
<1>3. DOMAIN writes' = 1 .. 2 /\ writes'[2] = x
  BY <1>1
<1>4. 2 \in DOMAIN writes' /\ DOMAIN writes' \subseteq Nat /\ \A k \in DOMAIN writes' : ~(2 < k)
  BY <1>3
<1>5. QED BY <1>2, <1>3, <1>4, ClosingLast

LEMMA FoundStore ==
  ASSUME Typed, FoundInv, [Next]_vars, StoreStep PROVE FoundInv'
<1>1. TypeOK /\ entries \in [Ids -> Entry \cup {None}]
  BY TypeParts DEF Typed, IndexType
<1>2. ASSUME NEW a \in BOOLEAN, Create(a), Goes({}) PROVE FoundInv'
  <2>1. PICK i \in Ids :
          /\ Free /\ UNCHANGED <<files, retired>>
          /\ entries' = [entries EXCEPT ![i] = EmptyEntry]
          /\ writes' = <<Doc(i, Stored(i)), SaveIndex(active', entries')>>
    BY <1>1, <1>2, CreateIs
  <2>2. \A j \in Ids : entries'[j] = None => entries[j] = None
    BY <1>1, <2>1, EntryIs
  <2>3. Closing' /\ ~NoIndex'
    BY <2>1, ClosingTwo
  <2>4. \A j : Late(j) => Late(j)'
    BY <1>2, LateGoes
  <2>5. QED BY <2>1, <2>2, <2>3, <2>4, FoundCall DEF files
<1>3. ASSUME NEW i \in Ids, Delete(i), Goes({}) PROVE FoundInv'
  <2>1. Free /\ UNCHANGED files /\ retired' = retired \cup {i}
    BY <1>1, <1>3, DeleteIs
  <2>2. \A j : Late(j) => Late(j)'
    BY <1>3, LateGoes
  <2>3. CASE /\ entries' = [entries EXCEPT ![i] = None]
             /\ writes' = <<Removed(i), SaveIndex(active', entries')>>
    <3>1. Closing' /\ ~NoIndex'
      BY <2>3, ClosingTwo
    <3>2. Removing(i)'
      BY <2>3, OpsOf, TouchedIs DEF Removing
    <3>3. \A j \in Ids : entries'[j] = None => entries[j] = None \/ j = i
      BY <1>1, <2>3
    <3>4. QED BY <2>1, <2>2, <3>1, <3>2, <3>3, FoundCall DEF files
  <2>4. ASSUME NEW n \in Ids,
               LET es == [entries EXCEPT ![i] = None]
               IN /\ entries' = [es EXCEPT ![n] = EmptyEntry]
                  /\ writes' = <<Removed(i), SaveIndex(None, es), Doc(n, Stored(n)),
                                 SaveIndex(None, entries'), SaveIndex(n, entries')>>
        PROVE  FoundInv'
    <3> DEFINE es == [entries EXCEPT ![i] = None]
               a == Removed(i)
               b == SaveIndex(None, es)
               c == Doc(n, Stored(n))
               d == SaveIndex(None, entries')
               x == SaveIndex(n, entries')
    <3>1. writes' = <<a, b, c, d, x>>
      BY <2>4
    <3>2. x.op = "index" /\ Settled(x, entries') /\ a.op = "remove" /\ a.id = i
      BY SettledIs, TouchedIs
    <3>3. \A j \in Ids : entries'[j] = None => entries[j] = None \/ j = i
      BY <1>1, <2>4, EntryIs
    <3> HIDE DEF es, a, b, c, d, x
    <3>4. DOMAIN writes' = 1 .. 5 /\ writes'[5] = x
      BY <3>1
    <3>5. 5 \in DOMAIN writes' /\ DOMAIN writes' \subseteq Nat /\ \A k \in DOMAIN writes' : ~(5 < k)
      BY <3>4
    <3>6. Closing' /\ ~NoIndex'
      BY <3>2, <3>4, <3>5, ClosingLast
    <3>7. Removing(i)'
      <4>1. Ops(writes') = {a, b, c, d, x}
        BY <3>1, OpsOf
      <4>2. QED BY <3>2, <4>1 DEF Removing
    <3>8. QED BY <2>1, <2>2, <3>3, <3>6, <3>7, FoundCall DEF files
  <2>5. QED BY <1>1, <1>3, <2>3, <2>4, DeleteIs
<1>4. ASSUME NEW i \in Ids, NEW n \in Names, Rename(i, n), Goes({}) PROVE FoundInv'
  <2>1. /\ Free /\ UNCHANGED <<files, retired>> /\ Listed(entries') = Listed(entries)
        /\ writes' = <<SaveIndex(active, entries')>>
    BY <1>1, <1>4, RenameIs
  <2>2. \A j \in Ids : entries'[j] = None => entries[j] = None
    BY <2>1 DEF Listed
  <2>3. Closing' /\ ~NoIndex'
    BY <2>1, ClosingOne
  <2>4. \A j : Late(j) => Late(j)'
    BY <1>4, LateGoes
  <2>5. QED BY <2>1, <2>2, <2>3, <2>4, FoundCall DEF files
<1>5. ASSUME NEW i \in Ids, Activate(i), Goes({}) PROVE FoundInv'
  <2>1. /\ Free /\ UNCHANGED <<files, retired, entries>> /\ writes' = <<SaveIndex(i, entries')>>
    BY <1>1, <1>5, ActivateIs
  <2>2. Closing' /\ ~NoIndex'
    BY <2>1, ClosingOne
  <2>3. \A j : Late(j) => Late(j)'
    BY <1>5, LateGoes
  <2>4. QED BY <2>1, <2>2, <2>3, FoundCall DEF files
<1>6. ASSUME NEW i \in Ids, entries[i] # None, Open(i), Goes({i}) PROVE FoundInv'
  BY <1>6, FoundOpen
<1>7. ASSUME Frame, Goes({}) PROVE FoundInv'
  <2>1. UNCHANGED <<docs, saved, up, entries, cached, retired, writes>>
    BY <1>7 DEF Frame, files, index, objects
  <2>2. \A j : Late(j) => Late(j)'
    BY <1>7, LateGoes
  <2>3. \A j : Noting(j) => Noting(j)'
    BY <1>7, LateGoes
  <2>4. QED BY <2>1, <2>2, <2>3, FoundStay
<1>8. QED BY <1>2, <1>3, <1>4, <1>5, <1>6, <1>7 DEF StoreStep

LEMMA FoundTurn ==
  ASSUME Stores, FoundInv, [Next]_vars, NEW r \in Replies, SaveTurn(r) PROVE FoundInv'
<1>1. /\ TypeOK /\ Typed /\ DocsType /\ ReplyType /\ pc' = [pc EXCEPT ![r] = "note"]
      /\ UNCHANGED <<saved, up, entries, cached, retired, writes, at>>
  BY TypeParts DEF Stores, Typed, SaveTurn, index
<1>2. /\ at[r] \in Ids /\ Held(at[r]) /\ conv[at[r]] \in SUBSET Turns /\ r \in Turns
      /\ docs' = [docs EXCEPT ![at[r]] = conv[at[r]] \cup {r}]
  BY <1>1, SaveTurnIs
<1>3. \A q \in Replies : pc'[q] = IF q = r THEN "note" ELSE pc[q]
  BY <1>1 DEF ReplyType
<1>4. \A j : (Noting(j) => Noting(j)') /\ (Late(j) => Late(j)')
  BY <1>1, <1>3 DEF Noting, Late
<1>5. entries[at[r]] = None => at[r] \in retired
  BY <1>2 DEF Stores, ObjectInv
<1>6. docs'[at[r]] # None
  BY <1>1, <1>2, NoneApart DEF DocsType
<1>7. \A i \in Ids : \/ docs'[i] = docs[i]
                     \/ docs'[i] # None /\ Noting(i)' /\ (entries[i] = None => i \in retired)
  <2>1. PICK k \in Ids : k = at[r]
    BY <1>2
  <2>2. Noting(k)'
    BY <1>1, <1>3, <2>1 DEF Noting
  <2>3. ASSUME NEW i \in Ids, i # k PROVE docs'[i] = docs[i]
    BY <1>1, <1>2, <2>1, <2>3 DEF DocsType
  <2>4. QED BY <1>5, <1>6, <2>1, <2>2, <2>3
<1>8. QED BY <1>1, <1>4, <1>7, FoundStay

LEMMA FoundNote ==
  ASSUME Typed, FoundInv, [Next]_vars, NEW r \in Replies, Note(r) PROVE FoundInv'
<1>1. /\ Free /\ pc[r] = "note" /\ at[r] \in Ids /\ ReplyType
      /\ UNCHANGED <<files, up, objects, retired, at>> /\ pc' = [pc EXCEPT ![r] = "over"]
      /\ Listed(entries') = Listed(entries)
      /\ entries[at[r]] = None => writes' = <<>> /\ entries' = entries
      /\ entries[at[r]] # None => writes' = <<SaveIndex(active, entries')>>
  BY NoteIs, TypeParts DEF Typed
<1>2. \A q \in Replies : pc'[q] = IF q = r THEN "over" ELSE pc[q]
  BY <1>1 DEF ReplyType
<1>3. \A j : Late(j) => Late(j)'
  BY <1>1, <1>2 DEF Late
<1>4. \A j \in Ids : entries'[j] = None => entries[j] = None
  BY <1>1 DEF Listed
<1>5. CASE entries[at[r]] # None
  <2>1. Closing' /\ ~NoIndex'
    BY <1>1, <1>5, ClosingOne
  <2>2. QED BY <1>1, <1>3, <1>4, <2>1, FoundCall DEF files
<1>6. CASE entries[at[r]] = None
  <2>1. UNCHANGED <<docs, saved, up, entries, cached, retired, writes>>
    BY <1>1, <1>6 DEF files, objects, Free
  <2>2. \A j \in Ids : Noting(j) /\ entries[j] # None => Noting(j)'
    BY <1>1, <1>2, <1>6 DEF Noting
  <2>3. QED BY <1>3, <2>1, <2>2, FoundStay
<1>7. QED BY <1>5, <1>6

LEMMA FoundNext == ASSUME Stores, FoundInv, [Next]_vars PROVE FoundInv'
<1>1. Typed /\ KnownInv
  BY DEF Stores
<1>2. CASE UNCHANGED vars
  <2>1. UNCHANGED <<docs, saved, up, entries, cached, retired, writes, pc, at>>
    BY <1>2 DEF vars, files, index, objects, replyVars
  <2>2. \A j : Late(j)' = Late(j) /\ Noting(j)' = Noting(j)
    BY <2>1 DEF Late, Noting
  <2>3. QED BY <1>1, <2>1, <2>2, FoundStay
<1>3. CASE Crash \/ Migrate \/ Rollback
  <2>1. ~up'
    BY <1>3 DEF Crash, Migrate, Rollback
  <2>2. QED BY <2>1 DEF FoundInv, Closing, FindsListed, FilesListed, IndexListed
<1>4. QED BY <1>1, <1>2, <1>3, Kinds, FoundWrite, FoundStart, FoundStore, FoundTurn, FoundNote

\* When the lock is free the index in memory is sound and the files hold what it
\* lists: a restart at that point finds the sessions listed, with their names and
\* numbers of turns, and no other but what a deleted one left behind.
THEOREM RestartsKeep == Spec => []IndexKept
<1> DEFINE I == Stores /\ FoundInv
<1>1. Init => I
  <2>1. ASSUME Init PROVE FoundInv
    BY <2>1 DEF Init, FoundInv, Closing, FindsListed, FilesListed, IndexListed
  <2>2. QED BY <2>1, StoresInit
<1>2. I /\ [Next]_vars => I'
  BY StoresNext, FoundNext
<1>3. I => IndexKept
  <2>1. ASSUME I PROVE IndexSound /\ RestartFinds
    <3>1. Typed
      BY <2>1 DEF Stores
    <3>2. QED BY <2>1, <3>1, ActiveListed, RestartFound
  <2>2. QED BY <2>1 DEF IndexKept
<1> HIDE DEF I
<1>4. QED BY <1>1, <1>2, <1>3, PTL DEF Spec

=============================================================================
