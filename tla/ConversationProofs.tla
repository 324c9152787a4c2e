------------------------- MODULE ConversationProofs -------------------------
(***************************************************************************)
(* Proofs about Conversation: the types, that no turn is lost, for any     *)
(* number of replies, overlaps, compactions and crashes, and what becomes  *)
(* of a pending tool task.                                                 *)
(***************************************************************************)
EXTENDS Conversation, SequenceTheorems, TLAPS

\* A single turn is a sequence of turns.
LEMMA Single == ASSUME NEW r \in Replies PROVE <<r>> \in Seq(Replies)
  OBVIOUS

\* The snapshot of a thread that has none.
LEMMA NoSnapshotType == NoSnapshot \in Snapshots
  BY DEF NoSnapshot, Snapshots

\* A compaction thread moves on.
LEMMA CompactType ==
  ASSUME NEW r \in Replies, comp \in [Replies -> CompactStates],
         NEW s \in CompactStates, BecomeCompact(r, s)
  PROVE  comp' \in [Replies -> CompactStates]
  BY DEF BecomeCompact

\* Initial types.
LEMMA InitType == Init => TypeOK
<1> SUFFICES ASSUME Init PROVE TypeOK
  OBVIOUS
<1> USE ConversationAssumption DEF Init
<1>1. TurnTypeOK
  <2>1. snap \in [Replies -> Snapshots]
    BY NoSnapshotType
  <2>2. document \in Documents
    BY DEF Documents
  <2>3. comp \in [Replies -> CompactStates]
    BY DEF CompactStates
  <2>4. <<>> \in Seq(Replies)
    OBVIOUS
  <2>5. turns = <<>> /\ summary = <<>> /\ accepted = <<>> /\ forgotten = <<>>
    OBVIOUS
  <2>6. compactions \in Nat /\ crashes \in Nat
    OBVIOUS
  <2>7. compacting \in BOOLEAN
    OBVIOUS
  <2> QED BY <2>1, <2>2, <2>3, <2>4, <2>5, <2>6, <2>7 DEF TurnTypeOK
<1>2. ReplyTypeOK
  BY DEF ReplyTypeOK, States, AllKinds
<1>3. TaskTypeOK
  BY DEF TaskTypeOK, ToolStates
<1> QED BY <1>1, <1>2, <1>3 DEF TypeOK

\* Writing the document keeps it a document.
LEMMA SaveType ==
  ASSUME Save, turns' \in Seq(Replies), summary' \in Seq(Replies), compactions' \in Nat
  PROVE  document' \in Documents
  BY DEF Save, Documents

\* Every step keeps the types of the turns and of the compaction threads.
LEMMA TurnTypeStep == ASSUME TurnTypeOK, [Next]_vars PROVE TurnTypeOK'
<1> USE DEF TurnTypeOK
<1>1. CASE UNCHANGED vars
  BY <1>1 DEF vars, memory, compactVars, turnHistory
<1>2. CASE Crash
  <2>1. snap' \in [Replies -> Snapshots]
    BY <1>2, NoSnapshotType DEF Crash
  <2>2. comp' \in [Replies -> CompactStates]
    BY <1>2 DEF Crash, CompactStates
  <2>3. turns' \in Seq(Replies) /\ summary' \in Seq(Replies) /\ compactions' \in Nat
    BY <1>2 DEF Crash, Documents
  <2>4. document' = document /\ accepted' = accepted /\ forgotten' = forgotten
    BY <1>2 DEF Crash, turnHistory
  <2>5. crashes' \in Nat
    BY <1>2 DEF Crash
  <2>6. compacting' \in BOOLEAN
    BY <1>2 DEF Crash
  <2> QED BY <2>1, <2>2, <2>3, <2>4, <2>5, <2>6
<1>3. ASSUME NEW r \in Replies, Store(r) PROVE TurnTypeOK'
  <2>1. CASE answered[r]
    <3>0. UNCHANGED <<compacting, comp, snap, crashes>>
      BY <1>3 DEF Store, compactVars
    <3>1. /\ turns' = Append(turns, r) /\ accepted' = Append(accepted, r)
          /\ UNCHANGED <<summary, compactions, forgotten>>
      BY <1>3, <2>1 DEF Store
    <3>2. Save
      BY <1>3, <2>1 DEF Store
    <3>3. turns' \in Seq(Replies) /\ accepted' \in Seq(Replies)
      BY <3>1
    <3>4. document' \in Documents
      BY <3>1, <3>2, <3>3, SaveType
    <3> QED BY <3>0, <3>1, <3>3, <3>4
  <2>2. CASE ~answered[r]
    BY <1>3, <2>2 DEF Store, memory, compactVars, turnHistory
  <2> QED BY <2>1, <2>2
<1>4. ASSUME NEW r \in Replies, SpawnCompaction(r) PROVE TurnTypeOK'
  BY <1>4 DEF SpawnCompaction, memory, CompactStates, turnHistory
<1>5. ASSUME NEW r \in Replies,
             Begin(r) \/ Resolve(r) \/ Resume(r) \/ Run(r) \/ Conclude(r) \/ SetToolState(r)
      PROVE  TurnTypeOK'
  BY <1>5 DEF Begin, Resolve, Resume, Run, Conclude, SetToolState, memory, compactVars, turnHistory
<1>6. ASSUME NEW r \in Replies, CompactBegin(r) PROVE TurnTypeOK'
  <2>1. CASE BecomeCompact(r, "over") /\ UNCHANGED <<compacting, snap>>
    BY <1>6, <2>1 DEF CompactBegin, CompactFrame, BecomeCompact, CompactStates, memory
  <2>2. CASE ~(BecomeCompact(r, "over") /\ UNCHANGED <<compacting, snap>>)
    <3> DEFINE n == Len(turns) - Kept
               S == [old |-> SubSeq(turns, 1, n), recent |-> SubSeq(turns, n + 1, Len(turns)),
                     summary |-> summary, reset |-> ResetDue]
    <3>1. /\ snap' = [snap EXCEPT ![r] = S] /\ compacting' = TRUE
          /\ comp' = [comp EXCEPT ![r] = "llm"] /\ Len(turns) > KeepRecent
      BY <1>6, <2>2 DEF CompactBegin, BecomeCompact
    <3>2. Len(turns) \in Nat /\ n \in Nat /\ n < Len(turns)
      <4> DEFINE l == Len(turns)
      <4>1. l \in Nat
        OBVIOUS
      <4>2. l > KeepRecent /\ n = l - KeepRecent /\ KeepRecent \in Nat \ {0}
        BY <3>1, ConversationAssumption DEF Kept
      <4> HIDE DEF l, n
      <4>3. n \in Nat /\ n < l
        BY ONLY <4>1, <4>2
      <4> QED BY <4>1, <4>3 DEF l
    <3>3. S.old \in Seq(Replies) /\ S.recent \in Seq(Replies)
      BY <3>2, SubSeqProperties, ElementOfSeq
    <3>4. S \in Snapshots
      BY <3>3 DEF Snapshots, ResetDue
    <3> HIDE DEF S
    <3> QED BY <1>6, <3>1, <3>4 DEF CompactBegin, CompactFrame, CompactStates, memory
  <2> QED BY <2>1, <2>2
<1>7. ASSUME NEW r \in Replies, Summarize(r) PROVE TurnTypeOK'
  BY <1>7 DEF Summarize, CompactFrame, BecomeCompact, CompactStates, memory
<1>8. ASSUME NEW r \in Replies, Apply(r) PROVE TurnTypeOK'
  <2>0. snap[r] \in Snapshots
    OBVIOUS
  <2>1. CASE Unchanged(r)
    <3>1. /\ snap[r].old \in Seq(Replies) /\ snap[r].recent \in Seq(Replies)
          /\ snap[r].summary \in Seq(Replies)
      BY <2>0 DEF Snapshots
    <3>2. /\ snap[r].summary \o snap[r].old \in Seq(Replies)
          /\ forgotten \o snap[r].summary \in Seq(Replies)
      BY <3>1, ConcatProperties
    <3>3. Save
      BY <1>8, <2>1 DEF Apply
    <3>4. turns' = snap[r].recent /\ compactions' = compactions + 1
      BY <1>8, <2>1 DEF Apply
    <3>5. summary' \in Seq(Replies) /\ forgotten' \in Seq(Replies)
      <4>1. CASE snap[r].reset
        BY <1>8, <2>1, <3>1, <3>2, <4>1 DEF Apply
      <4>2. CASE ~snap[r].reset
        BY <1>8, <2>1, <3>1, <3>2, <4>2 DEF Apply
      <4> QED BY <4>1, <4>2
    <3>6. /\ turns' \in Seq(Replies) /\ summary' \in Seq(Replies) /\ compactions' \in Nat
          /\ forgotten' \in Seq(Replies)
      BY <3>1, <3>4, <3>5
    <3>7. document' \in Documents
      BY <3>6, <3>3, SaveType
    <3>8. comp' \in [Replies -> CompactStates]
      BY <1>8, CompactType DEF Apply, CompactStates
    <3>9. /\ UNCHANGED <<compacting, snap, crashes, accepted>>
      BY <1>8 DEF Apply, CompactFrame
    <3> QED BY <3>6, <3>7, <3>8, <3>9
  <2>2. CASE ~Unchanged(r)
    BY <1>8, <2>2 DEF Apply, CompactFrame, BecomeCompact, CompactStates, memory
  <2> QED BY <2>1, <2>2
<1>9. ASSUME NEW r \in Replies, CompactFinish(r) PROVE TurnTypeOK'
  <2>1. snap' \in [Replies -> Snapshots]
    BY <1>9, NoSnapshotType DEF CompactFinish
  <2>2. comp' \in [Replies -> CompactStates]
    BY <1>9, CompactType DEF CompactFinish, CompactStates
  <2> QED BY <1>9, <2>1, <2>2 DEF CompactFinish, CompactFrame, memory, Released
<1> QED BY <1>1, <1>2, <1>3, <1>4, <1>5, <1>6, <1>7, <1>8, <1>9 DEF Next, Reply, Compactor

\* Every step keeps the types of the replies.
LEMMA ReplyTypeStep == ASSUME ReplyTypeOK, [Next]_vars PROVE ReplyTypeOK'
<1> USE DEF ReplyTypeOK
<1>1. CASE UNCHANGED vars
  BY <1>1 DEF vars, replyVars
<1>2. CASE Crash
  BY <1>2 DEF Crash, States
<1>3. ASSUME NEW r \in Replies, Run(r) PROVE ReplyTypeOK'
  <2>1. pc' \in [Replies -> States] /\ kind' = kind
    BY <1>3 DEF Run, Goto, States
  <2>2. /\ \E a \in BOOLEAN : answered' = [answered EXCEPT ![r] = a]
        /\ \E f \in BOOLEAN : finalised' = [finalised EXCEPT ![r] = f]
    BY <1>3 DEF Run
  <2> QED BY <2>1, <2>2
<1>4. ASSUME NEW r \in Replies, Resume(r) PROVE ReplyTypeOK'
  <2>1. pc' \in [Replies -> States] /\ kind' = kind /\ finalised' = finalised
    BY <1>4 DEF Resume, Goto, States
  <2>2. answered' = answered \/ answered' = [answered EXCEPT ![r] = TRUE]
    BY <1>4 DEF Resume
  <2> QED BY <2>1, <2>2
<1>5. ASSUME NEW r \in Replies,
             Resolve(r) \/ Store(r) \/ Conclude(r) \/ SetToolState(r) \/ SpawnCompaction(r)
      PROVE  ReplyTypeOK'
  <2>1. pc' \in [Replies -> States]
    BY <1>5 DEF Resolve, Store, Conclude, SetToolState, SpawnCompaction, Goto, States
  <2>2. UNCHANGED <<kind, answered, finalised>>
    BY <1>5 DEF Resolve, Store, Conclude, SetToolState, SpawnCompaction
  <2> QED BY <2>1, <2>2
<1>6. ASSUME NEW r \in Replies, Begin(r) PROVE ReplyTypeOK'
  <2>1. pc' \in [Replies -> States] /\ kind' = kind /\ finalised' = finalised
    BY <1>6 DEF Begin, Goto, States
  <2>2. answered' = answered \/ \E a \in BOOLEAN : answered' = [answered EXCEPT ![r] = a]
    BY <1>6 DEF Begin
  <2> QED BY <2>1, <2>2
<1>7. ASSUME NEW r \in Replies, Compactor(r) PROVE ReplyTypeOK'
  BY <1>7 DEF Compactor, CompactBegin, Summarize, Apply, CompactFinish, CompactFrame, replyVars
<1> QED BY <1>1, <1>2, <1>3, <1>4, <1>5, <1>6, <1>7 DEF Next, Reply

\* Every step keeps the types of the tool task.
LEMMA TaskTypeStep == ASSUME TaskTypeOK, [Next]_vars PROVE TaskTypeOK'
<1> USE DEF TaskTypeOK
<1>1. CASE UNCHANGED vars
  BY <1>1 DEF vars, replyVars, taskHistory
<1>2. CASE Crash
  BY <1>2 DEF Crash, ToolStates
<1>3. ASSUME NEW r \in Replies, Begin(r) PROVE TaskTypeOK'
  BY <1>3 DEF Begin
<1>4. ASSUME NEW r \in Replies, Resolve(r) PROVE TaskTypeOK'
  BY <1>4 DEF Resolve, ToolStates, taskHistory
<1>5. ASSUME NEW r \in Replies, Resume(r) PROVE TaskTypeOK'
  <2>1. CASE seen[r] = None \/ Exhausted(seen[r])
    BY <1>5, <2>1 DEF Resume, ToolStates
  <2>2. CASE seen[r] # None /\ ~Exhausted(seen[r])
    <3>1. seen[r] \in [task : Replies, count : Nat]
      BY <2>2 DEF ToolStates
    <3>2. /\ toolState' = [seen[r] EXCEPT !.count = @ + 1]
          /\ task' = [task EXCEPT ![r] = seen[r].task]
          /\ resumed' = [resumed EXCEPT ![seen[r].task] = @ + 1]
          /\ UNCHANGED <<seen, count, lastFinal, owed>>
      BY <1>5, <2>2 DEF Resume
    <3>3. toolState' \in ToolStates
      BY <3>1, <3>2 DEF ToolStates
    <3>4. task' \in [Replies -> Replies] /\ resumed' \in [Replies -> Nat]
      BY <3>1, <3>2
    <3> QED BY <3>2, <3>3, <3>4
  <2> QED BY <2>1, <2>2
<1>6. ASSUME NEW r \in Replies, Conclude(r) PROVE TaskTypeOK'
  <2>1. StoredCount \in Nat
    BY DEF StoredCount, ToolStates
  <2> QED BY <1>6, <2>1 DEF Conclude, ToolStates, taskHistory
<1>7. ASSUME NEW r \in Replies, SetToolState(r) PROVE TaskTypeOK'
  BY <1>7 DEF SetToolState, Continuations, ToolStates
<1>8. ASSUME NEW r \in Replies, Run(r) \/ Store(r) \/ SpawnCompaction(r) PROVE TaskTypeOK'
  BY <1>8 DEF Run, Store, SpawnCompaction, taskHistory
<1>9. ASSUME NEW r \in Replies, Compactor(r) PROVE TaskTypeOK'
  BY <1>9 DEF Compactor, CompactBegin, Summarize, Apply, CompactFinish, CompactFrame, replyVars,
              taskHistory
<1> QED BY <1>1, <1>2, <1>3, <1>4, <1>5, <1>6, <1>7, <1>8, <1>9 DEF Next, Reply

\* Every variable of a conversation keeps its type: no interleaving of replies,
\* compactions and crashes stores a missing count or applies half a snapshot.
THEOREM ConversationTypes == Spec => []TypeOK
<1>1. TypeOK /\ [Next]_vars => TypeOK'
  BY TurnTypeStep, ReplyTypeStep, TaskTypeStep DEF TypeOK
<1> QED BY InitType, <1>1, PTL DEF Spec
-----------------------------------------------------------------------------
\* ConcatAssociative for sequences of turns.
LEMMA Associative ==
  \A a, b, c \in Seq(Replies) : (a \o b) \o c = a \o (b \o c)
  BY ConcatAssociative

\* Appending to the second of two sequences appends to the whole.
LEMMA AppendLast ==
  ASSUME NEW q \in Seq(Replies), NEW t \in Seq(Replies), NEW r \in Replies
  PROVE  Append(q \o t, r) = q \o Append(t, r)
<1>1. q \o t \in Seq(Replies) /\ <<r>> \in Seq(Replies)
  BY Single, ConcatProperties
<1>2. Append(q \o t, r) = (q \o t) \o <<r>>
  BY <1>1, AppendIsConcat
<1>3. (q \o t) \o <<r>> = q \o (t \o <<r>>)
  BY <1>1, ConcatAssociative
<1>4. Append(t, r) = t \o <<r>>
  BY AppendIsConcat
<1> QED BY <1>2, <1>3, <1>4

\* Appending leaves the earlier turns where they are.
LEMMA AppendPrefix ==
  ASSUME NEW t \in Seq(Replies), NEW r \in Replies, NEW n \in 0 .. Len(t)
  PROVE  SubSeq(Append(t, r), 1, n) = SubSeq(t, 1, n)
<1>1. CASE n = 0
  BY <1>1, SubSeqEmpty
<1>2. CASE n # 0
  <2>1. Append(t, r) = t \o <<r>>
    BY AppendIsConcat
  <2>2. Len(t) \in Nat /\ n \in 1 .. Len(t) /\ 1 \in 1 .. Len(t)
    BY <1>2
  <2> QED BY <2>1, <2>2, Single, SubSeqOfConcat1
<1> QED BY <1>1, <1>2

\* A snapshot is the turns it was cut from.
LEMMA SnapshotWhole ==
  ASSUME NEW t \in Seq(Replies), NEW n \in 0 .. Len(t)
  PROVE  SubSeq(t, 1, n) \o SubSeq(t, n + 1, Len(t)) = t
<1>1. Len(t) \in Nat /\ n \in Nat /\ n <= Len(t)
  OBVIOUS
<1>2. 1 \in 1 .. Len(t) + 1 /\ n \in 1 - 1 .. Len(t) /\ Len(t) \in n .. Len(t)
  BY <1>1
<1>3. SubSeq(t, 1, n) \o SubSeq(t, n + 1, Len(t)) = SubSeq(t, 1, Len(t))
  BY <1>2, ConcatAdjacentSubSeq
<1> QED BY <1>3, SubSeqFull

\* A step that leaves the turns alone and starts no thread keeps the invariant.
LEMMA QuietStep ==
  ASSUME TurnsInv, UNCHANGED <<turns, summary, compactions, document, accepted, forgotten, snap>>,
         compacting' = compacting,
         \A r \in Replies : comp'[r] = comp[r] \/ comp'[r] \in {"begin", "over"}
                              \/ (comp[r] = "llm" /\ comp'[r] \in {"apply", "finish"})
  PROVE  TurnsInv'
<1>1. NothingLost' /\ (document = [turns |-> turns, summary |-> summary,
                                   compactions |-> compactions])'
  BY DEF TurnsInv, NothingLost
<1>2. \A r \in Replies : Busy(r)' => Busy(r)
  BY DEF Busy
<1>3. \A r \in Replies : (comp[r] \in {"llm", "apply"})' => comp[r] \in {"llm", "apply"}
  OBVIOUS
<1>4. \A r \in Replies : Snapped(r)' = Snapped(r) /\ snap'[r] = snap[r]
  BY DEF Snapped
<1> QED BY <1>1, <1>2, <1>3, <1>4 DEF TurnsInv, SnapKept

\* TurnsInv holds at the start.
LEMMA TurnsInit == Init => TurnsInv
<1> SUFFICES ASSUME Init PROVE TurnsInv
  OBVIOUS
<1>1. NothingLost
  <2>1. <<>> \o <<>> \o <<>> = <<>>
    BY EmptySeq, ConcatEmptySeq
  <2> QED BY <2>1 DEF Init, NothingLost
<1>2. \A r \in Replies : comp[r] = "none"
  BY DEF Init
<1>3. document = [turns |-> turns, summary |-> summary, compactions |-> compactions]
  BY DEF Init
<1> QED BY <1>1, <1>2, <1>3 DEF TurnsInv, SnapKept, Busy

\* add_turn: the new turn is the last one everywhere, and snapshots stay prefixes.
LEMMA StoreKeeps ==
  ASSUME TypeOK, TurnsInv, NEW r \in Replies, Store(r) PROVE TurnsInv'
<1> USE DEF TypeOK, TurnTypeOK
<1>1. UNCHANGED <<compacting, comp, snap>>
  BY DEF Store, compactVars
<1>2. CASE answered[r]
  <2>1. turns' = Append(turns, r) /\ accepted' = Append(accepted, r)
    BY <1>2 DEF Store
  <2>2. summary' = summary /\ compactions' = compactions /\ forgotten' = forgotten
    BY <1>2 DEF Store
  <2>3. Save
    BY <1>2 DEF Store
  <2>4. NothingLost'
    <3>1. accepted = forgotten \o summary \o turns
      BY DEF TurnsInv, NothingLost
    <3>2. Append(forgotten \o summary \o turns, r) = forgotten \o summary \o Append(turns, r)
      <4> DEFINE q == forgotten \o summary
      <4>1. forgotten \in Seq(Replies) /\ summary \in Seq(Replies) /\ turns \in Seq(Replies)
        OBVIOUS
      <4>2. q \in Seq(Replies)
        BY <4>1, ConcatProperties
      <4> HIDE DEF q
      <4>3. Append(q \o turns, r) = q \o Append(turns, r)
        BY ONLY <4>1, <4>2, r \in Replies, AppendLast
      <4> QED BY <4>3 DEF q
    <3> QED BY <2>1, <2>2, <3>1, <3>2 DEF NothingLost
  <2>5. ASSUME NEW s \in Replies PROVE SnapKept(s)'
    <3> SUFFICES ASSUME comp[s] \in {"llm", "apply"} PROVE SnapKept(s)'
      BY <1>1 DEF SnapKept
    <3>1. /\ snap[s].summary = summary /\ Len(Snapped(s)) <= Len(turns)
          /\ SubSeq(turns, 1, Len(Snapped(s))) = Snapped(s)
      BY DEF TurnsInv, SnapKept
    <3>2. Snapped(s) \in Seq(Replies) /\ Len(Snapped(s)) \in Nat
      <4>1. snap[s] \in Snapshots
        OBVIOUS
      <4>2. snap[s].old \in Seq(Replies) /\ snap[s].recent \in Seq(Replies)
        BY <4>1 DEF Snapshots
      <4> QED BY <4>2, ConcatProperties, LenProperties DEF Snapped
    <3>3. Len(turns') = Len(turns) + 1 /\ Len(turns) \in Nat
      BY <2>1, AppendProperties
    <3>4. SubSeq(turns', 1, Len(Snapped(s))) = SubSeq(turns, 1, Len(Snapped(s)))
      BY <2>1, <3>1, <3>2, <3>3, AppendPrefix
    <3>5. Snapped(s)' = Snapped(s) /\ snap'[s] = snap[s]
      BY <1>1 DEF Snapped
    <3>6. snap'[s].summary = summary'
      BY <2>2, <3>1, <3>5
    <3>7. Len(Snapped(s)) <= Len(turns')
      BY <3>1, <3>2, <3>3
    <3>8. SubSeq(turns', 1, Len(Snapped(s))) = Snapped(s)
      BY <3>1, <3>4
    <3> QED BY <3>5, <3>6, <3>7, <3>8 DEF SnapKept
  <2>6. \A s \in Replies : Busy(s)' = Busy(s)
    BY <1>1 DEF Busy
  <2> QED BY <1>1, <2>3, <2>4, <2>5, <2>6 DEF TurnsInv, Save, SnapKept
<1>3. CASE ~answered[r]
  <2>1. UNCHANGED <<turns, summary, compactions, document, accepted, forgotten>>
    BY <1>3 DEF Store, memory, turnHistory
  <2> QED BY <1>1, <2>1, QuietStep
<1> QED BY <1>2, <1>3

\* The first lock region: the snapshot is the turns themselves.
LEMMA CompactBeginKeeps ==
  ASSUME TypeOK, TurnsInv, NEW r \in Replies, CompactBegin(r) PROVE TurnsInv'
<1> USE DEF TypeOK, TurnTypeOK
<1>1. UNCHANGED <<turns, summary, compactions, document, accepted, forgotten>>
  BY DEF CompactBegin, CompactFrame, memory
<1>2. CASE BecomeCompact(r, "over") /\ UNCHANGED <<compacting, snap>>
  BY <1>1, <1>2, QuietStep DEF BecomeCompact
<1>3. CASE ~(BecomeCompact(r, "over") /\ UNCHANGED <<compacting, snap>>)
  <2> DEFINE n == Len(turns) - Kept
  <2>1. /\ ~compacting /\ compacting' = TRUE
        /\ comp' = [comp EXCEPT ![r] = "llm"] /\ Len(turns) > KeepRecent
    BY <1>3 DEF CompactBegin, BecomeCompact, Idle
  <2>2. /\ snap'[r].old = SubSeq(turns, 1, n) /\ snap'[r].summary = summary
        /\ snap'[r].recent = SubSeq(turns, n + 1, Len(turns))
    BY <1>3 DEF CompactBegin
  <2>3. n \in 0 .. Len(turns)
    BY <2>1, LenProperties, ConversationAssumption DEF Kept
  <2>4. Snapped(r)' = turns
    BY <2>2, <2>3, SnapshotWhole DEF Snapped
  <2>5. \A s \in Replies : ~Busy(s)
    BY <2>1 DEF TurnsInv, SnapKept
  <2>6. \A s \in Replies : Busy(s)' => s = r
    BY <2>1, <2>5 DEF Busy
  <2>7. SnapKept(r)'
    BY <1>1, <2>2, <2>4, SubSeqFull, LenProperties DEF SnapKept
  <2>8. \A s \in Replies : SnapKept(s)'
    BY <2>6, <2>7 DEF SnapKept, Busy
  <2>9. NothingLost' /\ (document = [turns |-> turns, summary |-> summary,
                                     compactions |-> compactions])'
    BY <1>1 DEF TurnsInv, NothingLost
  <2> QED BY <2>1, <2>6, <2>8, <2>9 DEF TurnsInv, SnapKept
<1> QED BY <1>2, <1>3

\* The second lock region: if no turn was appended, the turns are the snapshot,
\* and its older part moves behind the summary.
LEMMA ApplyKeeps ==
  ASSUME TypeOK, TurnsInv, NEW r \in Replies, Apply(r) PROVE TurnsInv'
<1> USE DEF TypeOK, TurnTypeOK
<1>1. /\ comp[r] = "apply" /\ comp' = [comp EXCEPT ![r] = "finish"]
      /\ UNCHANGED <<compacting, snap, accepted>>
  BY DEF Apply, BecomeCompact, CompactFrame
<1>2. CASE Unchanged(r)
  <2> DEFINE old == snap[r].old  recent == snap[r].recent  sum == snap[r].summary
  <2>1. old \in Seq(Replies) /\ recent \in Seq(Replies) /\ sum \in Seq(Replies)
    <3>1. snap[r] \in Snapshots
      OBVIOUS
    <3> QED BY <3>1 DEF Snapshots
  <2>2. sum = summary /\ SubSeq(turns, 1, Len(Snapped(r))) = Snapped(r)
    BY <1>1 DEF TurnsInv, SnapKept
  <2>3. turns = old \o recent
    <3>1. Len(Snapped(r)) = Len(turns)
      BY <1>2, <2>1, ConcatProperties DEF Unchanged, Snapped
    <3> QED BY <2>2, <3>1, SubSeqFull DEF Snapped
  <2>4. Save /\ turns' = recent
    BY <1>2 DEF Apply
  <2>5. NothingLost'
    <3>1. forgotten \o sum \in Seq(Replies)
      BY <2>1, ConcatProperties
    <3>2. accepted = (forgotten \o sum) \o (old \o recent)
      BY <2>2, <2>3 DEF TurnsInv, NothingLost
    <3>3. (forgotten \o sum) \o (old \o recent) = ((forgotten \o sum) \o old) \o recent
      <4>1. forgotten \o sum \in Seq(Replies) /\ old \in Seq(Replies) /\ recent \in Seq(Replies)
        BY <2>1, <3>1
      <4> HIDE DEF old, recent, sum
      <4> QED BY ONLY <4>1, Associative
    <3>4. CASE snap[r].reset
      <4>1. summary' = old /\ forgotten' = forgotten \o sum
        BY <1>2, <3>4 DEF Apply
      <4> QED BY <1>1, <2>4, <3>2, <3>3, <4>1 DEF NothingLost
    <3>5. CASE ~snap[r].reset
      <4>1. summary' = sum \o old /\ forgotten' = forgotten
        BY <1>2, <3>5 DEF Apply
      <4>2. (forgotten \o sum) \o old = forgotten \o (sum \o old)
        <5>1. forgotten \in Seq(Replies) /\ sum \in Seq(Replies) /\ old \in Seq(Replies)
          BY <2>1
        <5> HIDE DEF old, sum
        <5> QED BY ONLY <5>1, Associative
      <4> QED BY <1>1, <2>4, <3>2, <3>3, <4>1, <4>2 DEF NothingLost
    <3> QED BY <3>4, <3>5
  <2>6. \A s \in Replies : Busy(s) => s = r
    BY <1>1 DEF TurnsInv, SnapKept, Busy
  <2>7. \A s \in Replies : (comp'[s] \notin {"llm", "apply"}) /\ (Busy(s)' => Busy(s))
    BY <1>1, <2>6 DEF Busy
  <2> QED BY <1>1, <2>4, <2>5, <2>7 DEF TurnsInv, SnapKept, Save
<1>3. CASE ~Unchanged(r)
  <2>1. UNCHANGED <<turns, summary, compactions, document, forgotten>>
    BY <1>3 DEF Apply, memory
  <2>2. \A s \in Replies : comp'[s] = comp[s] \/ (s = r /\ comp'[s] = "finish")
    BY <1>1
  <2>3. \A s \in Replies : (Busy(s)' => Busy(s)) /\ (SnapKept(s) => SnapKept(s)')
    BY <1>1, <2>1, <2>2 DEF Busy, SnapKept, Snapped
  <2>4. NothingLost' /\ (document = [turns |-> turns, summary |-> summary,
                                     compactions |-> compactions])'
    BY <1>1, <2>1 DEF TurnsInv, NothingLost
  <2> QED BY <1>1, <2>3, <2>4 DEF TurnsInv, SnapKept
<1> QED BY <1>2, <1>3

\* The finally block: no thread is left compacting.
LEMMA CompactFinishKeeps ==
  ASSUME TypeOK, TurnsInv, NEW r \in Replies, CompactFinish(r) PROVE TurnsInv'
<1> USE DEF TypeOK, TurnTypeOK
<1>1. comp[r] = "finish" /\ comp' = [comp EXCEPT ![r] = "over"]
  BY DEF CompactFinish, BecomeCompact
<1>2. \A s \in Replies : Busy(s) => s = r
  BY <1>1 DEF TurnsInv, SnapKept, Busy
<1>3. \A s \in Replies : ~Busy(s)' /\ comp'[s] \notin {"llm", "apply"}
  BY <1>1, <1>2 DEF Busy
<1>4. UNCHANGED <<turns, summary, compactions, document, accepted, forgotten>>
  BY DEF CompactFinish, CompactFrame, memory
<1>5. NothingLost' /\ (document = [turns |-> turns, summary |-> summary,
                                   compactions |-> compactions])'
  BY <1>4 DEF TurnsInv, NothingLost
<1> QED BY <1>3, <1>5 DEF TurnsInv, SnapKept

\* A crash: the document holds what was in memory.
LEMMA CrashKeeps == ASSUME TurnsInv, Crash PROVE TurnsInv'
<1>1. document = [turns |-> turns, summary |-> summary, compactions |-> compactions]
  BY DEF TurnsInv, SnapKept
<1>2. /\ turns' = document.turns /\ summary' = document.summary
      /\ compactions' = document.compactions
      /\ UNCHANGED <<document, accepted, forgotten>>
  BY DEF Crash, turnHistory
<1>3. turns' = turns /\ summary' = summary /\ compactions' = compactions
  BY <1>1, <1>2
<1>4. \A s \in Replies : ~Busy(s)' /\ comp'[s] \notin {"llm", "apply"}
  BY DEF Crash, Busy
<1>5. NothingLost' /\ (document = [turns |-> turns, summary |-> summary,
                                   compactions |-> compactions])'
  BY <1>2, <1>3 DEF TurnsInv, NothingLost
<1> QED BY <1>4, <1>5 DEF TurnsInv, SnapKept

\* Every step keeps TurnsInv.
LEMMA TurnsStep == ASSUME TypeOK, TurnsInv, [Next]_vars PROVE TurnsInv'
<1>1. CASE UNCHANGED vars
  BY <1>1, QuietStep DEF vars, memory, compactVars, turnHistory
<1>2. CASE Crash
  BY <1>2, CrashKeeps
<1>3. ASSUME NEW r \in Replies, Store(r) PROVE TurnsInv'
  BY <1>3, StoreKeeps
<1>4. ASSUME NEW r \in Replies, SpawnCompaction(r) PROVE TurnsInv'
  <2>1. comp' = [comp EXCEPT ![r] = "begin"]
    BY <1>4 DEF SpawnCompaction
  <2>2. /\ UNCHANGED <<turns, summary, compactions, document, accepted, forgotten, snap>>
        /\ compacting' = compacting
    BY <1>4 DEF SpawnCompaction, memory, turnHistory
  <2> QED BY <2>1, <2>2, QuietStep DEF TypeOK, TurnTypeOK
<1>5. ASSUME NEW r \in Replies,
             Begin(r) \/ Resolve(r) \/ Resume(r) \/ Run(r) \/ Conclude(r) \/ SetToolState(r)
      PROVE  TurnsInv'
  <2>1. /\ UNCHANGED <<turns, summary, compactions, document, accepted, forgotten, snap>>
        /\ compacting' = compacting /\ comp' = comp
    BY <1>5 DEF Begin, Resolve, Resume, Run, Conclude, SetToolState, memory, compactVars,
                turnHistory
  <2> QED BY <2>1, QuietStep
<1>6. ASSUME NEW r \in Replies, CompactBegin(r) PROVE TurnsInv'
  BY <1>6, CompactBeginKeeps
<1>7. ASSUME NEW r \in Replies, Summarize(r) PROVE TurnsInv'
  <2>1. /\ comp[r] = "llm"
        /\ comp' = [comp EXCEPT ![r] = "apply"] \/ comp' = [comp EXCEPT ![r] = "finish"]
    BY <1>7 DEF Summarize, BecomeCompact
  <2>2. /\ UNCHANGED <<turns, summary, compactions, document, accepted, forgotten, snap>>
        /\ compacting' = compacting
    BY <1>7 DEF Summarize, CompactFrame, memory
  <2> QED BY <2>1, <2>2, QuietStep DEF TypeOK, TurnTypeOK
<1>8. ASSUME NEW r \in Replies, Apply(r) PROVE TurnsInv'
  BY <1>8, ApplyKeeps
<1>9. ASSUME NEW r \in Replies, CompactFinish(r) PROVE TurnsInv'
  BY <1>9, CompactFinishKeeps
<1> QED BY <1>1, <1>2, <1>3, <1>4, <1>5, <1>6, <1>7, <1>8, <1>9 DEF Next, Reply, Compactor

\* No turn is lost or told twice: for any number of overlapping replies,
\* compaction threads and crashes, what was stored is what was discarded with a
\* checkpoint, then the summary, then the turns kept verbatim (add_turn, compact).
THEOREM NoTurnLost == Spec => []NothingLost
<1>1. Init => TypeOK /\ TurnsInv
  BY InitType, TurnsInit
<1>2. TypeOK /\ TurnsInv /\ [Next]_vars => (TypeOK /\ TurnsInv)'
  BY TurnsStep, TurnTypeStep, ReplyTypeStep, TaskTypeStep DEF TypeOK
<1>3. TurnsInv => NothingLost
  BY DEF TurnsInv, SnapKept
<1> QED BY <1>1, <1>2, <1>3, PTL DEF Spec
-----------------------------------------------------------------------------
\* A step that leaves the turns and the snapshots alone keeps RecentInv.
LEMMA QuietRecent ==
  ASSUME RecentInv, UNCHANGED <<turns, accepted, snap>>,
         \A r \in Replies : comp'[r] \in {"llm", "apply"} => comp[r] \in {"llm", "apply"}
  PROVE  RecentInv'
  BY DEF RecentInv, RecentKept

\* Every step keeps RecentInv.
LEMMA RecentStep == ASSUME TypeOK, TurnsInv, RecentInv, [Next]_vars PROVE RecentInv'
<1> USE DEF TypeOK, TurnTypeOK
<1>1. CASE UNCHANGED vars
  BY <1>1, QuietRecent DEF vars, memory, compactVars, turnHistory
<1>2. CASE Crash
  <2>1. turns' = turns /\ accepted' = accepted
    BY <1>2 DEF Crash, TurnsInv, turnHistory
  <2>2. \A r \in Replies : comp'[r] \notin {"llm", "apply"}
    BY <1>2 DEF Crash
  <2> QED BY <2>1, <2>2 DEF RecentInv, RecentKept
<1>3. ASSUME NEW r \in Replies, Store(r) PROVE RecentInv'
  <2>1. UNCHANGED <<comp, snap>>
    BY <1>3 DEF Store, compactVars
  <2>2. CASE answered[r]
    <3>1. turns' = Append(turns, r) /\ accepted' = Append(accepted, r)
      BY <1>3, <2>2 DEF Store
    <3>2. Len(turns') = Len(turns) + 1 /\ Len(turns) \in Nat
      BY <3>1, AppendProperties
    <3>3. RecentKept'
      BY <3>1, <3>2, ConversationAssumption DEF RecentInv, RecentKept
    <3> QED BY <2>1, <3>3 DEF RecentInv
  <2>3. CASE ~answered[r]
    <3>1. turns' = turns /\ accepted' = accepted
      BY <1>3, <2>3 DEF Store, memory, turnHistory
    <3> QED BY <2>1, <3>1, QuietRecent
  <2> QED BY <2>2, <2>3
<1>4. ASSUME NEW r \in Replies,
             Begin(r) \/ Resolve(r) \/ Resume(r) \/ Run(r) \/ Conclude(r) \/ SetToolState(r)
               \/ SpawnCompaction(r)
      PROVE  RecentInv'
  <2>1. turns' = turns /\ accepted' = accepted /\ snap' = snap
    BY <1>4 DEF Begin, Resolve, Resume, Run, Conclude, SetToolState, SpawnCompaction, memory,
                compactVars, turnHistory
  <2>2. comp' = comp \/ comp' = [comp EXCEPT ![r] = "begin"]
    BY <1>4 DEF Begin, Resolve, Resume, Run, Conclude, SetToolState, SpawnCompaction, compactVars
  <2> QED BY <2>1, <2>2, QuietRecent
<1>5. ASSUME NEW r \in Replies, CompactBegin(r) PROVE RecentInv'
  <2>1. turns' = turns /\ accepted' = accepted
    BY <1>5 DEF CompactBegin, CompactFrame, memory
  <2>2. CASE BecomeCompact(r, "over") /\ UNCHANGED <<compacting, snap>>
    BY <2>1, <2>2, QuietRecent DEF BecomeCompact
  <2>3. CASE ~(BecomeCompact(r, "over") /\ UNCHANGED <<compacting, snap>>)
    <3>1. /\ comp' = [comp EXCEPT ![r] = "llm"] /\ Len(turns) > KeepRecent
          /\ \A s \in Replies \ {r} : snap'[s] = snap[s]
      BY <1>5, <2>3 DEF CompactBegin, BecomeCompact
    <3>2. snap'[r].recent = SubSeq(turns, Len(turns) - KeepRecent + 1, Len(turns))
      BY <1>5, <2>3 DEF CompactBegin, Kept
    <3>3. Len(turns) \in Nat /\ Len(turns) - KeepRecent + 1 \in 1 .. Len(turns)
      BY <3>1, LenProperties, ConversationAssumption
    <3>4. Len(snap'[r].recent) = KeepRecent
      <4> DEFINE n == Len(turns)
                 m == n - KeepRecent + 1
      <4>0. /\ n \in Nat /\ m \in 1 .. n /\ snap'[r].recent = SubSeq(turns, m, n)
        BY <3>2, <3>3
      <4> HIDE DEF n
      <4>1. m \in 1 .. n /\ n \in Nat /\ m \in Int /\ n \in Int /\ n - m + 1 = KeepRecent
        <5>1. KeepRecent \in Nat
          BY ConversationAssumption
        <5> QED BY ONLY <4>0, <5>1
      <4> HIDE DEF m
      <4>2. Len(SubSeq(turns, m, n)) = IF m <= n THEN n - m + 1 ELSE 0
        <5>1. \A i \in m .. n : turns[i] \in {turns[j] : j \in m .. n}
          OBVIOUS
        <5> QED BY <4>1, <5>1, SubSeqProperties
      <4> QED BY <4>0, <4>1, <4>2
    <3> QED BY <2>1, <3>1, <3>4 DEF RecentInv, RecentKept
  <2> QED BY <2>2, <2>3
<1>6. ASSUME NEW r \in Replies, Summarize(r) PROVE RecentInv'
  <2>1. turns' = turns /\ accepted' = accepted /\ snap' = snap
    BY <1>6 DEF Summarize, CompactFrame, memory
  <2>2. \A s \in Replies : comp'[s] \in {"llm", "apply"} => comp[s] \in {"llm", "apply"}
    BY <1>6 DEF Summarize, BecomeCompact
  <2> QED BY <2>1, <2>2, QuietRecent
<1>7. ASSUME NEW r \in Replies, Apply(r) PROVE RecentInv'
  <2>1. /\ comp[r] = "apply" /\ comp' = [comp EXCEPT ![r] = "finish"]
        /\ snap' = snap /\ accepted' = accepted
    BY <1>7 DEF Apply, BecomeCompact, CompactFrame
  <2>2. turns' = turns \/ turns' = snap[r].recent
    BY <1>7 DEF Apply, memory
  <2>3. Len(snap[r].recent) = KeepRecent
    BY <2>1 DEF RecentInv
  <2> QED BY <2>1, <2>2, <2>3, ConversationAssumption DEF RecentInv, RecentKept
<1>8. ASSUME NEW r \in Replies, CompactFinish(r) PROVE RecentInv'
  <2>1. turns' = turns /\ accepted' = accepted
    BY <1>8 DEF CompactFinish, CompactFrame, memory
  <2>2. /\ comp' = [comp EXCEPT ![r] = "over"]
        /\ \A s \in Replies \ {r} : snap'[s] = snap[s]
    BY <1>8 DEF CompactFinish, BecomeCompact
  <2> QED BY <2>1, <2>2 DEF RecentInv, RecentKept
<1> QED BY <1>1, <1>2, <1>3, <1>4, <1>5, <1>6, <1>7, <1>8 DEF Next, Reply, Compactor

\* However replies, compactions and crashes interleave, the turns kept verbatim
\* are keep_recent_turns or more, unless fewer were ever stored (compact).
THEOREM RecentTurnsKept == Spec => []RecentKept
<1>1. Init => TypeOK /\ TurnsInv /\ RecentInv
  <2>1. Init => RecentInv
    BY DEF Init, RecentInv, RecentKept
  <2> QED BY <2>1, InitType, TurnsInit
<1>2. TypeOK /\ TurnsInv /\ RecentInv /\ [Next]_vars => (TypeOK /\ TurnsInv /\ RecentInv)'
  BY RecentStep, TurnsStep, TurnTypeStep, ReplyTypeStep, TaskTypeStep DEF TypeOK
<1>3. RecentInv => RecentKept
  BY DEF RecentInv
<1> QED BY <1>1, <1>2, <1>3, PTL DEF Spec
-----------------------------------------------------------------------------
\* Proofs about the pending tool task of Conversation: when utterances follow
\* one another, a task is resumed at most MaxContinuations times and a
\* 'continue' resumes the task that was finalised last.

\* An utterance is in progress.
Active(r) == Utterance(r) /\ pc[r] \notin {"new", "over"}

OneAtATime == \A r, s \in Replies : Active(r) /\ Active(s) => r = s

\* Where a reply of each kind can be.
Path(r) ==
  /\ kind[r] = "task" => pc[r] \in {"new", "run", "storeOnly", "spawn", "over"}
  /\ kind[r] = "fixed" => pc[r] \in {"new", "storeOnly", "spawn", "over"}
  /\ pc[r] = "resume" => kind[r] = "continue"

\* It has not resumed a task, nor has one of its own been resumed.
Early == {"new", "resolve", "resume"}
Fresh(r) == pc[r] \in Early => task[r] = r /\ resumed[r] = 0

\* The pending task has been resumed as often as its count says.
PendingCounted == toolState # None =>
  resumed[toolState.task] = toolState.count /\ pc[toolState.task] \notin Early

\* So has the task that an utterance works on.
Works(r) == Utterance(r) /\ pc[r] \in {"run", "store", "state", "setState"}
WorkCounted(r) == Works(r) =>
  /\ pc[task[r]] \notin Early
  /\ resumed[task[r]] = IF pc[r] = "setState" THEN count[r] ELSE StoredCount

Current(r) == pc[r] = "resume" => seen[r] = toolState

\* The task finalised last is pending until an utterance that may end it begins.
LastPending == lastFinal # None => toolState # None /\ toolState.task = lastFinal
LastTaken(r) == Works(r) \/ pc[r] \in {"resolve", "resume"} => lastFinal = None
OwedPending(r) == pc[r] \in {"resolve", "resume"} /\ owed[r] # None =>
  toolState # None /\ toolState.task = owed[r]

TaskInv ==
  /\ OneAtATime /\ PendingCounted /\ LastPending /\ ContinuationsBounded
  /\ \A r \in Replies : /\ Path(r) /\ Fresh(r) /\ WorkCounted(r) /\ Current(r)
                        /\ LastTaken(r) /\ OwedPending(r)

TaskVars == <<pc, kind, task, seen, count, toolState, resumed, lastFinal, owed>>

LEMMA QuietTask ==
  ASSUME TaskInv, UNCHANGED TaskVars
  PROVE  TaskInv'
BY DEF TaskInv, TaskVars, OneAtATime, Active, Utterance, PendingCounted, LastPending,
       ContinuationsBounded, Path, Fresh, Works, WorkCounted, StoredCount, Current,
       LastTaken, OwedPending

LEMMA TaskInit == Init => TaskInv
<1> SUFFICES ASSUME Init PROVE TaskInv
  OBVIOUS
<1>1. \A r \in Replies : pc[r] = "new" /\ task[r] = r /\ resumed[r] = 0
  BY DEF Init
<1>2. toolState = None /\ lastFinal = None /\ \A r \in Replies : owed[r] = None
  BY DEF Init
<1>3. ContinuationsBounded
  BY <1>1, ConversationAssumption DEF ContinuationsBounded
<1>4. QED BY <1>1, <1>2, <1>3 DEF TaskInv, OneAtATime, Active, PendingCounted, LastPending,
       Path, Fresh, Early, Works, WorkCounted, Current, LastTaken, OwedPending

-----------------------------------------------------------------------------
\* The only utterance in progress: nobody else works on a task or reads the pending one.
LEMMA Alone ==
  ASSUME TaskInv, NEW r \in Replies, Active(r), NEW s \in Replies, s # r
  PROVE  ~Active(s) /\ ~Works(s) /\ pc[s] \notin {"resolve", "resume", "state", "setState"}
<1>1. ~Active(s)
  BY DEF TaskInv, OneAtATime
<1>2. ~Works(s)
  BY <1>1 DEF Works, Active
<1>3. Path(s)
  BY DEF TaskInv
<1>4. QED BY <1>1, <1>2, <1>3 DEF Active, Path, Utterance

\* A step of r that leaves the tasks alone.
LEMMA MoveStep ==
  ASSUME TypeOK, TaskInv, NEW r \in Replies, NEW s \in States, Goto(r, s),
         UNCHANGED <<kind, task, seen, count, toolState, resumed, lastFinal, owed>>,
         pc[r] \notin {"new", "over"}, s \notin Early \cup {"setState"},
         kind[r] = "task" => s \in {"run", "storeOnly", "spawn", "over"},
         kind[r] = "fixed" => s \in {"storeOnly", "spawn", "over"},
         Utterance(r) /\ s \in {"run", "store", "state"} =>
           pc[r] \in {"run", "store", "state"}
  PROVE  TaskInv'
<1>1. \A x \in Replies : pc'[x] = IF x = r THEN s ELSE pc[x]
  BY DEF TypeOK, ReplyTypeOK, Goto
<1>2. OneAtATime' /\ ContinuationsBounded'
  BY <1>1 DEF TaskInv, OneAtATime, Active, Utterance, ContinuationsBounded
<1>3. PendingCounted' /\ LastPending'
  <2>1. toolState # None => toolState.task \in Replies
    BY DEF TypeOK, TaskTypeOK, ToolStates
  <2>2. QED BY <1>1, <2>1 DEF TaskInv, PendingCounted, LastPending
<1>4. ASSUME NEW x \in Replies PROVE Path(x)' /\ Fresh(x)' /\ Current(x)' /\ OwedPending(x)'
  BY <1>1 DEF TaskInv, Path, Fresh, Current, OwedPending, Early
<1>5. ASSUME NEW x \in Replies PROVE WorkCounted(x)' /\ LastTaken(x)'
  <2>1. task[x] \in Replies
    BY DEF TypeOK, TaskTypeOK
  <2>2. WorkCounted(x) /\ LastTaken(x)
    BY DEF TaskInv
  <2>3. QED BY <1>1, <2>1, <2>2 DEF WorkCounted, LastTaken, Works, Utterance, StoredCount, Early
<1>6. QED BY <1>2, <1>3, <1>4, <1>5 DEF TaskInv

LEMMA BeginStep ==
  ASSUME TypeOK, TaskInv, Serial, NEW r \in Replies, Begin(r)
  PROVE  TaskInv'
<1>1. PICK s \in {"storeOnly", "resolve", "run"} :
        /\ pc' = [pc EXCEPT ![r] = s]
        /\ kind[r] = "fixed" => s = "storeOnly"
        /\ kind[r] # "fixed" => s = IF Utterance(r) THEN "resolve" ELSE "run"
  BY DEF Begin, Goto
<1>2. /\ pc[r] = "new" /\ UNCHANGED <<kind, task, seen, count, toolState, resumed>>
      /\ owed' = [owed EXCEPT ![r] = lastFinal]
      /\ lastFinal' = IF kind[r] \in {"ask", "continue"} THEN None ELSE lastFinal
      /\ Utterance(r) => \A x \in Replies : Utterance(x) => pc[x] \in {"new", "over"}
  BY DEF Begin
<1>3. /\ \A x \in Replies : pc'[x] = IF x = r THEN s ELSE pc[x]
      /\ \A x \in Replies : owed'[x] = IF x = r THEN lastFinal ELSE owed[x]
  BY <1>1, <1>2 DEF TypeOK, ReplyTypeOK, TaskTypeOK
<1>4. OneAtATime' /\ ContinuationsBounded'
  BY <1>1, <1>2, <1>3 DEF TaskInv, OneAtATime, Active, Utterance, ContinuationsBounded
<1>5. PendingCounted' /\ LastPending'
  <2>1. toolState # None => toolState.task \in Replies
    BY DEF TypeOK, TaskTypeOK, ToolStates
  <2>2. toolState # None => toolState.task # r
    BY <1>2 DEF TaskInv, PendingCounted, Early
  <2>3. QED BY <1>2, <1>3, <2>1, <2>2 DEF TaskInv, PendingCounted, LastPending
<1>6. ASSUME NEW x \in Replies PROVE Path(x)' /\ Fresh(x)' /\ Current(x)'
  <2>1. Path(x) /\ Fresh(x) /\ Current(x)
    BY DEF TaskInv
  <2>2. kind[x] \in AllKinds
    BY DEF TypeOK, ReplyTypeOK
  <2>3. QED BY <1>1, <1>2, <1>3, <2>1, <2>2 DEF Path, Fresh, Current, Early, AllKinds, Utterance
<1>7. ASSUME NEW x \in Replies PROVE WorkCounted(x)'
  <2>1. task[x] \in Replies /\ WorkCounted(x)
    BY DEF TaskInv, TypeOK, TaskTypeOK
  <2>2. Works(x)' => Works(x) /\ x # r
    BY <1>1, <1>2, <1>3 DEF Works, Utterance
  <2>3. Works(x) => task[x] # r
    BY <1>2, <2>1 DEF WorkCounted, Early
  <2>4. QED BY <1>2, <1>3, <2>1, <2>2, <2>3 DEF WorkCounted, StoredCount
<1>8. ASSUME NEW x \in Replies PROVE LastTaken(x)' /\ OwedPending(x)'
  <2>1. LastTaken(x) /\ OwedPending(x) /\ LastPending /\ Path(x)
    BY DEF TaskInv
  <2>2. kind[r] \in AllKinds
    BY DEF TypeOK, ReplyTypeOK
  <2>3. CASE x = r
    BY <1>1, <1>2, <1>3, <2>1, <2>2, <2>3
       DEF LastTaken, OwedPending, LastPending, Works, Utterance, AllKinds
  <2>4. CASE x # r
    BY <1>1, <1>2, <1>3, <2>1, <2>4 DEF LastTaken, OwedPending, Works, Utterance
  <2>5. QED BY <2>3, <2>4
<1>9. QED BY <1>4, <1>5, <1>6, <1>7, <1>8 DEF TaskInv

\* The steps of a reply that leave the tasks alone.
LEMMA ProgressStep ==
  ASSUME TypeOK, TaskInv, NEW r \in Replies, Run(r) \/ Store(r) \/ SpawnCompaction(r)
  PROVE  TaskInv'
<1> DEFINE same == UNCHANGED <<kind, task, seen, count, toolState, resumed, lastFinal, owed>>
<1>1. CASE Run(r)
  <2>1. PICK s \in {"store", "storeOnly", "over"} :
          Goto(r, s) /\ (s = "store" => Utterance(r)) /\ (s = "over" => ~Utterance(r))
    BY <1>1 DEF Run
  <2>2. same /\ pc[r] = "run"
    BY <1>1 DEF Run, taskHistory
  <2>3. kind[r] # "fixed"
    BY <2>2 DEF TaskInv, Path
  <2>4. QED BY <2>1, <2>2, <2>3, MoveStep DEF States, Early, Utterance
<1>2. CASE Store(r)
  <2>1. PICK s \in {"state", "spawn"} : Goto(r, s) /\ (s = "state" => pc[r] = "store")
    BY <1>2 DEF Store, ConcludesTask
  <2>2. same /\ pc[r] \in {"store", "storeOnly"}
    BY <1>2 DEF Store, taskHistory
  <2>3. s = "state" => kind[r] \notin {"task", "fixed"}
    BY <2>1 DEF TaskInv, Path
  <2>4. QED BY <2>1, <2>2, <2>3, MoveStep DEF States, Early
<1>3. CASE SpawnCompaction(r)
  <2>1. Goto(r, "over") /\ same /\ pc[r] = "spawn"
    BY <1>3 DEF SpawnCompaction, taskHistory
  <2>2. QED BY <2>1, MoveStep DEF States, Early
<1>4. QED BY <1>1, <1>2, <1>3

LEMMA ResolveStep ==
  ASSUME TypeOK, TaskInv, NEW r \in Replies, Resolve(r)
  PROVE  TaskInv'
<1>1. /\ pc[r] = "resolve" /\ UNCHANGED <<kind, task, count, resumed, lastFinal, owed>>
      /\ IF kind[r] = "continue"
         THEN /\ seen' = [seen EXCEPT ![r] = toolState] /\ pc' = [pc EXCEPT ![r] = "resume"]
              /\ UNCHANGED toolState
         ELSE /\ toolState' = None /\ pc' = [pc EXCEPT ![r] = "run"] /\ UNCHANGED seen
  BY DEF Resolve, Goto, taskHistory
<1>2. Path(r) /\ Fresh(r) /\ LastTaken(r) /\ OwedPending(r)
  BY DEF TaskInv
<1>3. kind[r] \notin {"task", "fixed"} /\ Active(r) /\ task[r] = r /\ resumed[r] = 0
      /\ lastFinal = None
  BY <1>1, <1>2 DEF Path, Fresh, Early, LastTaken, Active, Utterance
<1>4. \A x \in Replies : x # r => /\ ~Active(x) /\ ~Works(x)
                                   /\ pc[x] \notin {"resolve", "resume", "state", "setState"}
  BY <1>3, Alone
<1>5. CASE kind[r] = "continue"
  <2>1. /\ \A x \in Replies : pc'[x] = IF x = r THEN "resume" ELSE pc[x]
        /\ \A x \in Replies : seen'[x] = IF x = r THEN toolState ELSE seen[x]
        /\ UNCHANGED toolState
    BY <1>1, <1>5 DEF TypeOK, ReplyTypeOK, TaskTypeOK
  <2>2. OneAtATime' /\ ContinuationsBounded'
    BY <1>1, <1>4, <2>1 DEF TaskInv, OneAtATime, Active, Utterance, ContinuationsBounded
  <2>3. PendingCounted' /\ LastPending'
    <3>1. toolState # None => toolState.task \in Replies /\ toolState.task # r
      BY <1>1 DEF TaskInv, PendingCounted, Early, TypeOK, TaskTypeOK, ToolStates
    <3>2. QED BY <1>1, <2>1, <3>1 DEF TaskInv, PendingCounted, LastPending
  <2>4. ASSUME NEW x \in Replies
        PROVE  Path(x)' /\ Fresh(x)' /\ Current(x)' /\ LastTaken(x)' /\ OwedPending(x)'
    BY <1>1, <1>3, <1>4, <1>5, <2>1
       DEF TaskInv, Path, Fresh, Current, LastTaken, OwedPending, Works, Utterance, Early
  <2>5. ASSUME NEW x \in Replies PROVE WorkCounted(x)'
    <3>1. ~Works(x)'
      BY <1>1, <1>4, <2>1 DEF Works, Utterance
    <3>2. QED BY <3>1 DEF WorkCounted
  <2>6. QED BY <2>2, <2>3, <2>4, <2>5 DEF TaskInv
<1>6. CASE kind[r] # "continue"
  <2>1. /\ \A x \in Replies : pc'[x] = IF x = r THEN "run" ELSE pc[x]
        /\ UNCHANGED seen /\ toolState' = None
    BY <1>1, <1>6 DEF TypeOK, ReplyTypeOK, TaskTypeOK
  <2>2. OneAtATime' /\ ContinuationsBounded'
    BY <1>1, <1>4, <2>1 DEF TaskInv, OneAtATime, Active, Utterance, ContinuationsBounded
  <2>3. PendingCounted' /\ LastPending'
    BY <1>1, <1>3, <2>1 DEF PendingCounted, LastPending
  <2>4. ASSUME NEW x \in Replies
        PROVE  Path(x)' /\ Fresh(x)' /\ Current(x)' /\ LastTaken(x)' /\ OwedPending(x)'
    BY <1>1, <1>3, <1>4, <2>1
       DEF TaskInv, Path, Fresh, Current, LastTaken, OwedPending, Works, Utterance, Early
  <2>5. ASSUME NEW x \in Replies PROVE WorkCounted(x)'
    <3>1. CASE x = r
      BY <1>1, <1>3, <2>1, <3>1 DEF WorkCounted, StoredCount, Early
    <3>2. CASE x # r
      <4>1. ~Works(x)'
        BY <1>1, <1>4, <2>1, <3>2 DEF Works, Utterance
      <4>2. QED BY <4>1 DEF WorkCounted
    <3>3. QED BY <3>1, <3>2
  <2>6. QED BY <2>2, <2>3, <2>4, <2>5 DEF TaskInv
<1>7. QED BY <1>5, <1>6

LEMMA ResumeStep ==
  ASSUME TypeOK, TaskInv, NEW r \in Replies, Resume(r)
  PROVE  TaskInv'
<1>1. pc[r] = "resume" /\ UNCHANGED <<kind, seen, count, lastFinal, owed>>
  BY DEF Resume
<1>2. Path(r) /\ Fresh(r) /\ LastTaken(r) /\ Current(r)
  BY DEF TaskInv
<1>3. /\ kind[r] = "continue" /\ Active(r) /\ task[r] = r /\ resumed[r] = 0
      /\ lastFinal = None /\ seen[r] = toolState
  BY <1>1, <1>2 DEF Path, Fresh, Early, LastTaken, Active, Utterance, Current
<1>4. \A x \in Replies : x # r => /\ ~Active(x) /\ ~Works(x)
                                   /\ pc[x] \notin {"resolve", "resume", "state", "setState"}
  BY <1>3, Alone
<1>5. CASE toolState = None \/ Exhausted(toolState)
  <2>1. PICK s \in {"run", "storeOnly"} :
          /\ pc' = [pc EXCEPT ![r] = s] /\ toolState' = None /\ UNCHANGED <<task, resumed>>
    BY <1>3, <1>5 DEF Resume, Goto
  <2>2. \A x \in Replies : pc'[x] = IF x = r THEN s ELSE pc[x]
    BY <2>1 DEF TypeOK, ReplyTypeOK
  <2>3. OneAtATime' /\ ContinuationsBounded'
    BY <1>1, <1>4, <2>1, <2>2 DEF TaskInv, OneAtATime, Active, Utterance, ContinuationsBounded
  <2>4. PendingCounted' /\ LastPending'
    BY <1>1, <1>3, <2>1 DEF PendingCounted, LastPending
  <2>5. ASSUME NEW x \in Replies
        PROVE  Path(x)' /\ Fresh(x)' /\ Current(x)' /\ LastTaken(x)' /\ OwedPending(x)'
    BY <1>1, <1>3, <1>4, <2>1, <2>2
       DEF TaskInv, Path, Fresh, Current, LastTaken, OwedPending, Works, Utterance, Early
  <2>6. ASSUME NEW x \in Replies PROVE WorkCounted(x)'
    <3>1. CASE x = r
      BY <1>1, <1>3, <2>1, <2>2, <3>1 DEF WorkCounted, StoredCount, Early
    <3>2. CASE x # r
      <4>1. ~Works(x)'
        BY <1>1, <1>4, <2>2, <3>2 DEF Works, Utterance
      <4>2. QED BY <4>1 DEF WorkCounted
    <3>3. QED BY <3>1, <3>2
  <2>7. QED BY <2>3, <2>4, <2>5, <2>6 DEF TaskInv
<1>6. CASE toolState # None /\ ~Exhausted(toolState)
  <2>1. /\ pc' = [pc EXCEPT ![r] = "run"]
        /\ toolState' = [toolState EXCEPT !.count = @ + 1]
        /\ task' = [task EXCEPT ![r] = toolState.task]
        /\ resumed' = [resumed EXCEPT ![toolState.task] = @ + 1]
    BY <1>3, <1>6 DEF Resume, Goto
  <2> DEFINE t == toolState.task
  <2>2. toolState \in [task : Replies, count : Nat] /\ t \in Replies /\ toolState.count \in Nat
    BY <1>6 DEF TypeOK, TaskTypeOK, ToolStates
  <2>3. pc[t] \notin Early /\ resumed[t] = toolState.count /\ t # r
    BY <1>1, <1>6 DEF TaskInv, PendingCounted, Early
  <2>4. toolState.count + 1 <= MaxContinuations
    BY <1>6, <2>2, ConversationAssumption DEF Exhausted
  <2>5. toolState'.task = t /\ toolState'.count = toolState.count + 1
    BY <2>1, <2>2
  <2>6. toolState' # None
    <3>1. toolState' \in [task : Replies, count : Nat]
      BY <2>1, <2>2
    <3>2. QED BY <3>1, ConversationAssumption
  <2> HIDE DEF t
  <2>7. /\ \A x \in Replies : pc'[x] = IF x = r THEN "run" ELSE pc[x]
        /\ \A x \in Replies : task'[x] = IF x = r THEN t ELSE task[x]
        /\ \A x \in Replies : resumed'[x] = IF x = t THEN toolState.count + 1 ELSE resumed[x]
    BY <2>1, <2>3 DEF TypeOK, ReplyTypeOK, TaskTypeOK, t
  <2>8. OneAtATime' /\ ContinuationsBounded'
    BY <1>1, <1>4, <2>4, <2>7 DEF TaskInv, OneAtATime, Active, Utterance, ContinuationsBounded
  <2>9. PendingCounted' /\ LastPending'
    BY <1>1, <1>3, <2>2, <2>3, <2>5, <2>7 DEF PendingCounted, LastPending, Early
  <2>10. ASSUME NEW x \in Replies
         PROVE  Path(x)' /\ Fresh(x)' /\ Current(x)' /\ LastTaken(x)' /\ OwedPending(x)'
    <3>1. Path(x) /\ Fresh(x) /\ LastTaken(x)
      BY DEF TaskInv
    <3>2. Path(x)' /\ Fresh(x)'
      BY <1>1, <1>3, <2>3, <2>7, <3>1 DEF Path, Fresh, Early
    <3>3. Current(x)' /\ LastTaken(x)' /\ OwedPending(x)'
      BY <1>1, <1>3, <1>4, <2>7 DEF Current, LastTaken, OwedPending
    <3>4. QED BY <3>2, <3>3
  <2>11. ASSUME NEW x \in Replies PROVE WorkCounted(x)'
    <3>1. CASE x = r
      <4>1. StoredCount' = IF toolState' = None THEN 0 ELSE toolState.count + 1
        BY <2>5 DEF StoredCount
      <4>2. toolState' # None
        BY <2>1, <2>2, <2>6
      <4>3. QED BY <1>1, <2>2, <2>3, <2>7, <3>1, <4>1, <4>2 DEF WorkCounted, Early
    <3>2. CASE x # r
      <4>1. ~Works(x)'
        BY <1>1, <1>4, <2>7, <3>2 DEF Works, Utterance
      <4>2. QED BY <4>1 DEF WorkCounted
    <3>3. QED BY <3>1, <3>2
  <2>12. QED BY <2>8, <2>9, <2>10, <2>11 DEF TaskInv
<1>7. QED BY <1>5, <1>6

LEMMA ConcludeStep ==
  ASSUME TypeOK, TaskInv, NEW r \in Replies, Conclude(r)
  PROVE  TaskInv'
<1>1. /\ pc[r] = "state" /\ UNCHANGED <<kind, task, seen, resumed, lastFinal, owed>>
      /\ IF finalised[r]
         THEN /\ count' = [count EXCEPT ![r] = StoredCount]
              /\ pc' = [pc EXCEPT ![r] = "setState"] /\ UNCHANGED toolState
         ELSE toolState' = None /\ pc' = [pc EXCEPT ![r] = "spawn"] /\ UNCHANGED count
  BY DEF Conclude, Goto, taskHistory
<1>2. Path(r) /\ LastTaken(r) /\ WorkCounted(r)
  BY DEF TaskInv
<1>3. kind[r] \notin {"task", "fixed"} /\ Active(r) /\ Works(r) /\ lastFinal = None
  BY <1>1, <1>2 DEF Path, LastTaken, Active, Utterance, Works
<1>4. \A x \in Replies : x # r => /\ ~Active(x) /\ ~Works(x)
                                   /\ pc[x] \notin {"resolve", "resume", "state", "setState"}
  BY <1>3, Alone
<1>5. PICK s \in {"setState", "spawn"} :
        /\ pc' = [pc EXCEPT ![r] = s]
        /\ s = "setState" => count' = [count EXCEPT ![r] = StoredCount] /\ UNCHANGED toolState
        /\ s = "spawn" => toolState' = None
  BY <1>1
<1>6. \A x \in Replies : pc'[x] = IF x = r THEN s ELSE pc[x]
  BY <1>5 DEF TypeOK, ReplyTypeOK
<1>7. OneAtATime' /\ ContinuationsBounded'
  BY <1>1, <1>4, <1>6 DEF TaskInv, OneAtATime, Active, Utterance, ContinuationsBounded
<1>8. PendingCounted' /\ LastPending'
  <2>1. toolState # None => toolState.task \in Replies
    BY DEF TypeOK, TaskTypeOK, ToolStates
  <2>2. QED BY <1>1, <1>3, <1>5, <1>6, <2>1 DEF TaskInv, PendingCounted, LastPending, Early
<1>9. ASSUME NEW x \in Replies
      PROVE  Path(x)' /\ Fresh(x)' /\ Current(x)' /\ LastTaken(x)' /\ OwedPending(x)'
  BY <1>1, <1>3, <1>4, <1>6
     DEF TaskInv, Path, Fresh, Current, LastTaken, OwedPending, Works, Utterance, Early
<1>10. ASSUME NEW x \in Replies PROVE WorkCounted(x)'
  <2>1. CASE x # r \/ s = "spawn"
    <3>1. ~Works(x)'
      BY <1>1, <1>4, <1>6, <2>1 DEF Works, Utterance
    <3>2. QED BY <3>1 DEF WorkCounted
  <2>2. CASE x = r /\ s = "setState"
    <3>1. pc[task[r]] \notin Early /\ resumed[task[r]] = StoredCount /\ task[r] \in Replies
      BY <1>1, <1>2, <1>3 DEF WorkCounted, TypeOK, TaskTypeOK
    <3>2. count'[r] = StoredCount
      BY <1>5, <2>2 DEF TypeOK, TaskTypeOK
    <3>3. QED BY <1>1, <1>6, <2>2, <3>1, <3>2 DEF WorkCounted, Early
  <2>3. QED BY <2>1, <2>2
<1>11. QED BY <1>7, <1>8, <1>9, <1>10 DEF TaskInv

LEMMA SetToolStateStep ==
  ASSUME TypeOK, TaskInv, NEW r \in Replies, SetToolState(r)
  PROVE  TaskInv'
<1>1. /\ pc[r] = "setState" /\ UNCHANGED <<kind, task, seen, count, resumed, owed>>
      /\ toolState' = [task |-> task[r], count |-> count[r]] /\ lastFinal' = task[r]
      /\ pc' = [pc EXCEPT ![r] = "spawn"]
  BY DEF SetToolState, Goto, Continuations
<1>2. Path(r) /\ WorkCounted(r)
  BY DEF TaskInv
<1>3. kind[r] \notin {"task", "fixed"} /\ Active(r) /\ Works(r)
  BY <1>1, <1>2 DEF Path, Active, Utterance, Works
<1>4. \A x \in Replies : x # r => /\ ~Active(x) /\ ~Works(x)
                                   /\ pc[x] \notin {"resolve", "resume", "state", "setState"}
  BY <1>3, Alone
<1>5. \A x \in Replies : pc'[x] = IF x = r THEN "spawn" ELSE pc[x]
  BY <1>1 DEF TypeOK, ReplyTypeOK
<1>6. task[r] \in Replies /\ pc[task[r]] \notin Early /\ resumed[task[r]] = count[r]
  BY <1>1, <1>2, <1>3 DEF WorkCounted, TypeOK, TaskTypeOK
<1>7. toolState' # None /\ toolState'.task = task[r] /\ toolState'.count = count[r]
  <2>1. toolState' \in [task : Replies, count : Nat]
    BY <1>1, <1>6 DEF TypeOK, TaskTypeOK
  <2>2. QED BY <1>1, <2>1, ConversationAssumption
<1>8. OneAtATime' /\ ContinuationsBounded'
  BY <1>1, <1>4, <1>5 DEF TaskInv, OneAtATime, Active, Utterance, ContinuationsBounded
<1>9. PendingCounted' /\ LastPending'
  BY <1>1, <1>5, <1>6, <1>7 DEF PendingCounted, LastPending, Early
<1>10. ASSUME NEW x \in Replies
       PROVE  /\ Path(x)' /\ Fresh(x)' /\ Current(x)' /\ LastTaken(x)' /\ OwedPending(x)'
              /\ WorkCounted(x)'
  <2>1. Path(x) /\ Fresh(x)
    BY DEF TaskInv
  <2>2. Path(x)' /\ Fresh(x)'
    BY <1>1, <1>3, <1>5, <2>1 DEF Path, Fresh, Early
  <2>3. ~Works(x)' /\ pc'[x] \notin {"resolve", "resume"}
    BY <1>1, <1>4, <1>5 DEF Works, Utterance
  <2>4. QED BY <2>2, <2>3 DEF Current, LastTaken, OwedPending, WorkCounted
<1>11. QED BY <1>8, <1>9, <1>10 DEF TaskInv

LEMMA CrashStep ==
  ASSUME TypeOK, TaskInv, Crash
  PROVE  TaskInv'
<1>1. /\ toolState' = None /\ lastFinal' = None
      /\ \A x \in Replies : pc'[x] = IF pc[x] = "new" THEN "new" ELSE "over"
      /\ UNCHANGED <<kind, task, seen, count, resumed, owed>>
  BY DEF Crash
<1>2. OneAtATime' /\ ContinuationsBounded' /\ PendingCounted' /\ LastPending'
  BY <1>1 DEF TaskInv, OneAtATime, Active, Utterance, ContinuationsBounded, PendingCounted,
             LastPending
<1>3. ASSUME NEW x \in Replies
      PROVE  /\ Path(x)' /\ Fresh(x)' /\ Current(x)' /\ LastTaken(x)' /\ OwedPending(x)'
             /\ WorkCounted(x)'
  BY <1>1 DEF TaskInv, Path, Fresh, Current, LastTaken, OwedPending, WorkCounted, Works,
             Utterance, Early
<1>4. QED BY <1>2, <1>3 DEF TaskInv

-----------------------------------------------------------------------------
LEMMA TaskStep ==
  ASSUME Serial, TypeOK, TaskInv, [Next]_vars
  PROVE  TaskInv'
<1>1. CASE UNCHANGED vars
  BY <1>1, QuietTask DEF vars, replyVars, taskHistory, TaskVars
<1>2. CASE Crash
  BY <1>2, CrashStep
<1>3. ASSUME NEW r \in Replies, Reply(r) PROVE TaskInv'
  BY <1>3, BeginStep, ProgressStep, ResolveStep, ResumeStep, ConcludeStep, SetToolStateStep
     DEF Reply
<1>4. ASSUME NEW r \in Replies, Compactor(r) PROVE TaskInv'
  <2>1. UNCHANGED TaskVars
    BY <1>4 DEF Compactor, CompactBegin, Summarize, Apply, CompactFinish, CompactFrame,
               replyVars, taskHistory, TaskVars
  <2>2. QED BY <2>1, QuietTask
<1>5. QED BY <1>1, <1>2, <1>3, <1>4 DEF Next

LEMMA TaskInvariant == Serial => (Spec => []TaskInv)
<1> SUFFICES ASSUME Serial PROVE Spec => []TaskInv
  OBVIOUS
<1>1. TypeOK /\ TaskInv /\ [Next]_vars => TaskInv'
  BY TaskStep
<1>2. QED BY TaskInit, <1>1, ConversationTypes, PTL DEF Spec

\* Utterances that follow one another resume a task at most MAX_CONTINUATIONS times,
\* whatever scheduled tasks, compactions and crashes come in between.
THEOREM ResumedWithinLimit == Serial => (Spec => []ContinuationsBounded)
<1>1. TaskInv => ContinuationsBounded
  BY DEF TaskInv
<1>2. QED BY TaskInvariant, <1>1, PTL

\* A 'continue' after a finalised task reads that task, and no other and none.
THEOREM FollowUpReads == Serial => (Spec => []FollowUpResumes)
<1>1. TaskInv => FollowUpResumes
  BY DEF TaskInv, FollowUpResumes, Current, OwedPending
<1>2. QED BY TaskInvariant, <1>1, PTL
=============================================================================
