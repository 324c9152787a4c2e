-------------------------- MODULE VoiceReplyProofs --------------------------
(***************************************************************************)
(* Theorems about VoiceReply: every variable keeps its type, the reply     *)
(* slot is owned by exactly the reply it was given to, VoiceReply          *)
(* implements ReplySlot, a barge-in leaves one stale frame at most, and a  *)
(* reply that is answered for was said in full and is played.              *)
(***************************************************************************)
EXTENDS VoiceReply, TLAPS

(* Typing of the helper operators *)

\* Sending a frame of the protocol leaves the console a console.
LEMMA SendType ==
  ASSUME ConsoleTypeOK, NEW f \in Frames, Send(f)
  PROVE  client' \in ClientStates
  BY DEF Send, ConsoleTypeOK, OnFrame, Frames, ClientStates, UiStates

\* What the queues hold.
LEMMA ItemTypes == /\ Sentinel \in Items /\ Filler \in Items
                   /\ \A n \in Nat : Sentence(n) \in Items
  BY DEF Items, Sentinel, Filler, Sentence

\* Queue.put keeps the queues sequences of items.
LEMMA PutType ==
  ASSUME WorkerTypeOK, NEW r \in Replies, NEW i \in Items, Put(r, i)
  PROVE  queue' \in [Replies -> Seq(Items)]
  BY DEF WorkerTypeOK, Put

\* So does enqueue, which also counts the sentence.
LEMMA PutSentenceType ==
  ASSUME WorkerTypeOK, ProducerTypeOK, NEW r \in Replies, PutSentence(r)
  PROVE  queue' \in [Replies -> Seq(Items)] /\ made' \in [Replies -> Nat]
  <1>1. made[r] + 1 \in Nat
    BY DEF ProducerTypeOK
  <1>2. Sentence(made[r] + 1) \in Items
    BY <1>1, ItemTypes
  <1>3. queue' \in [Replies -> Seq(Items)]
    BY <1>2, PutType DEF PutSentence
  <1>4. made' \in [Replies -> Nat]
    BY <1>1 DEF PutSentence, ProducerTypeOK
  <1> QED BY <1>3, <1>4

\* The lock region that takes the slot.
LEMMA TakeSlotType ==
  ASSUME SessionTypeOK, ProducerTypeOK, NEW r \in Replies, TakeSlot(r)
  PROVE  /\ replyActive' \in BOOLEAN /\ generation' \in Nat
         /\ ttsQueue' \in Replies \cup {NoReply} /\ gen' \in [Replies -> Nat]
  BY DEF SessionTypeOK, ProducerTypeOK, TakeSlot

\* The lock region that frees it.
LEMMA FreeSlotType ==
  ASSUME SessionTypeOK, ProducerTypeOK, NEW r \in Replies, FreeSlot(r)
  PROVE  /\ replyActive' \in BOOLEAN /\ generation' \in Nat
         /\ ttsQueue' \in Replies \cup {NoReply} /\ isCurrent' \in [Replies -> BOOLEAN]
  <1>1. IsCurrent(r) \in BOOLEAN
    BY DEF IsCurrent
  <1>2. isCurrent' \in [Replies -> BOOLEAN]
    BY <1>1, Zenon DEF ProducerTypeOK, FreeSlot
  <1>3. /\ replyActive' \in BOOLEAN /\ generation' \in Nat
        /\ ttsQueue' \in Replies \cup {NoReply}
    <2>1. CASE generation = gen[r]
      <3>1. replyActive' = FALSE /\ generation' = generation + 1 /\ ttsQueue' = NoReply
        BY <2>1, Zenon DEF FreeSlot, IsCurrent
      <3>2. replyActive' \in BOOLEAN /\ ttsQueue' \in Replies \cup {NoReply}
        BY <3>1, Zenon
      <3>3. generation' \in Nat
        BY <3>1 DEF SessionTypeOK
      <3> QED BY <3>2, <3>3
    <2>2. CASE generation # gen[r]
      BY <2>2 DEF SessionTypeOK, FreeSlot, IsCurrent, sessionVars
    <2> QED BY <2>1, <2>2
  <1> QED BY <1>2, <1>3

\* An audio frame: the counters stay counters.
LEMMA SendAudioType ==
  ASSUME HistoryTypeOK, NEW r \in Replies, SendAudio(r)
  PROVE  stale' \in [Replies -> Nat] /\ muted' \in [Replies -> Nat]
  BY DEF HistoryTypeOK, SendAudio

\* A sentence that was dealt with.
LEMMA SettleType ==
  ASSUME HistoryTypeOK, WorkerTypeOK, NEW r \in Replies, Settle(r)
  PROVE  said' \in [Replies -> Seq(Nat)]
  <1>1. item[r][2] \in Nat
    BY DEF WorkerTypeOK, Items
  <1> QED BY <1>1 DEF HistoryTypeOK, Settle

\* A worker starts or changes state.
LEMMA BecomeType ==
  ASSUME WorkerTypeOK, NEW r \in Replies, NEW w \in WorkerStates, Become(r, w)
  PROVE  work' \in [Replies -> WorkerStates]
  BY DEF WorkerTypeOK, Become

\* A worker goes back to its queue.
LEMMA BackToGetType ==
  ASSUME WorkerTypeOK, NEW r \in Replies, BackToGet(r)
  PROVE  work' \in [Replies -> WorkerStates] /\ item' \in [Replies -> Items]
  BY ItemTypes, BecomeType DEF WorkerTypeOK, BackToGet, WorkerStates

-----------------------------------------------------------------------------
(* Type correctness *)

\* The initial state is well typed.
LEMMA InitType == Init => TypeOK
  <1> SUFFICES ASSUME Init PROVE TypeOK
    OBVIOUS
  <1>1. SessionTypeOK
    BY DEF Init, SessionTypeOK
  <1>2. LoopTypeOK
    BY DEF Init, LoopTypeOK
  <1>3. ProducerTypeOK
    BY DEF Init, ProducerTypeOK, ProducerStates
  <1>4. WorkerTypeOK
    BY ItemTypes DEF Init, WorkerTypeOK, WorkerStates, FillerStates
  <1>5. ConsoleTypeOK
    BY DEF Init, ConsoleTypeOK, InitialClient, ClientStates, UiStates
  <1>6. HistoryTypeOK
    BY DEF Init, HistoryTypeOK
  <1> QED BY <1>1, <1>2, <1>3, <1>4, <1>5, <1>6 DEF TypeOK

\* Every step keeps every variable's type.
LEMMA NextType == TypeOK /\ [Next]_vars => TypeOK'
  <1> SUFFICES ASSUME TypeOK, [Next]_vars PROVE TypeOK'
    OBVIOUS
  <1>a. /\ SessionTypeOK /\ LoopTypeOK /\ ProducerTypeOK
        /\ WorkerTypeOK /\ ConsoleTypeOK /\ HistoryTypeOK
    BY DEF TypeOK
  <1> USE <1>a DEF sessionVars, loopVars, producerVars, workerVars, fillerVars, announceVars,
                   buttonVars, audioHistory, BodyFrame, WorkerFrame, FillerFrame, AnnounceFrame
  <1>1. ASSUME NEW r \in Replies, Transcribe(r) PROVE TypeOK'
    <2>1. ProducerTypeOK'
      BY <1>1 DEF Transcribe, ProducerTypeOK, Goto, ProducerStates
    <2>2. SessionTypeOK' /\ LoopTypeOK' /\ WorkerTypeOK' /\ ConsoleTypeOK' /\ HistoryTypeOK'
      BY <1>1 DEF Transcribe, SessionTypeOK, LoopTypeOK, WorkerTypeOK, ConsoleTypeOK,
         HistoryTypeOK
    <2> QED BY <2>1, <2>2 DEF TypeOK
  <1>2. ASSUME NEW r \in Replies, Gate(r) PROVE TypeOK'
    <2>1. ProducerTypeOK'
      BY <1>2 DEF Gate, ProducerTypeOK, Goto, ProducerStates
    <2>2. WorkerTypeOK'
      BY <1>2 DEF Gate, WorkerTypeOK, WorkerStates
    <2>3. ConsoleTypeOK'
      BY <1>2, SendType DEF Gate, ConsoleTypeOK, Frames
    <2>4. SessionTypeOK' /\ LoopTypeOK' /\ HistoryTypeOK'
      BY <1>2 DEF Gate, SessionTypeOK, LoopTypeOK, HistoryTypeOK
    <2> QED BY <2>1, <2>2, <2>3, <2>4 DEF TypeOK
  <1>3. ASSUME NEW r \in Replies, BeginTyped(r) PROVE TypeOK'
    <2>1. ProducerTypeOK'
      BY <1>3 DEF BeginTyped, ProducerTypeOK, Goto, ProducerStates
    <2>2. WorkerTypeOK'
      BY <1>3 DEF BeginTyped, WorkerTypeOK, WorkerStates, FillerStates
    <2>3. ConsoleTypeOK'
      BY <1>3, SendType DEF BeginTyped, ConsoleTypeOK, Frames
    <2>4. SessionTypeOK' /\ LoopTypeOK' /\ HistoryTypeOK'
      BY <1>3 DEF BeginTyped, SessionTypeOK, LoopTypeOK, HistoryTypeOK
    <2> QED BY <2>1, <2>2, <2>3, <2>4 DEF TypeOK
  <1>4. ASSUME NEW r \in Replies, BeginReply(r) PROVE TypeOK'
    <2>1. ProducerTypeOK'
      BY <1>4 DEF BeginReply, ProducerTypeOK, Goto, ProducerStates
    <2>2. WorkerTypeOK'
      BY <1>4 DEF BeginReply, WorkerTypeOK, FillerStates
    <2>3. SessionTypeOK' /\ LoopTypeOK' /\ ConsoleTypeOK' /\ HistoryTypeOK'
      BY <1>4 DEF BeginReply, SessionTypeOK, LoopTypeOK, ConsoleTypeOK, HistoryTypeOK
    <2> QED BY <2>1, <2>2, <2>3 DEF TypeOK
  <1>5. ASSUME NEW r \in Replies, PutFixed(r) PROVE TypeOK'
    <2>1. ProducerTypeOK'
      BY <1>5, PutSentenceType DEF PutFixed, ProducerTypeOK, Goto, ProducerStates, FinallyOf
    <2>2. WorkerTypeOK'
      BY <1>5, PutSentenceType DEF PutFixed, WorkerTypeOK
    <2>3. SessionTypeOK' /\ LoopTypeOK' /\ ConsoleTypeOK' /\ HistoryTypeOK'
      BY <1>5 DEF PutFixed, SessionTypeOK, LoopTypeOK, ConsoleTypeOK, HistoryTypeOK
    <2> QED BY <2>1, <2>2, <2>3 DEF TypeOK
  <1>6. ASSUME NEW r \in Replies, ReadStream(r) PROVE TypeOK'
    <2>1. ProducerTypeOK'
      BY <1>6 DEF ReadStream, ProducerTypeOK, Goto, ProducerStates, FinallyOf
    <2>2. SessionTypeOK' /\ LoopTypeOK' /\ WorkerTypeOK' /\ ConsoleTypeOK' /\ HistoryTypeOK'
      BY <1>6 DEF ReadStream, SessionTypeOK, LoopTypeOK, WorkerTypeOK, ConsoleTypeOK,
         HistoryTypeOK
    <2> QED BY <2>1, <2>2 DEF TypeOK
  <1>7. ASSUME NEW r \in Replies, PutStreamed(r) PROVE TypeOK'
    <2>1. ProducerTypeOK'
      BY <1>7, PutSentenceType DEF PutStreamed, ProducerTypeOK, Goto, ProducerStates
    <2>2. WorkerTypeOK'
      BY <1>7, PutSentenceType DEF PutStreamed, WorkerTypeOK
    <2>3. SessionTypeOK' /\ LoopTypeOK' /\ ConsoleTypeOK' /\ HistoryTypeOK'
      BY <1>7 DEF PutStreamed, SessionTypeOK, LoopTypeOK, ConsoleTypeOK, HistoryTypeOK
    <2> QED BY <2>1, <2>2, <2>3 DEF TypeOK
  <1>8. ASSUME NEW r \in Replies, PutFlushed(r) PROVE TypeOK'
    <2>1. ProducerTypeOK'
      BY <1>8, PutSentenceType DEF PutFlushed, ProducerTypeOK, Goto, ProducerStates, FinallyOf
    <2>2. WorkerTypeOK'
      BY <1>8, PutSentenceType DEF PutFlushed, WorkerTypeOK
    <2>3. SessionTypeOK' /\ LoopTypeOK' /\ ConsoleTypeOK' /\ HistoryTypeOK'
      BY <1>8 DEF PutFlushed, SessionTypeOK, LoopTypeOK, ConsoleTypeOK, HistoryTypeOK
    <2> QED BY <2>1, <2>2, <2>3 DEF TypeOK
  <1>9. ASSUME NEW r \in Replies, CheckError(r) PROVE TypeOK'
    <2>1. ProducerTypeOK'
      BY <1>9 DEF CheckError, ProducerTypeOK, Goto, ProducerStates, FinallyOf
    <2>2. SessionTypeOK'
      BY <1>9 DEF CheckError, SessionTypeOK
    <2>3. LoopTypeOK'
      BY <1>9 DEF CheckError, LoopTypeOK
    <2>4. WorkerTypeOK'
      BY <1>9 DEF CheckError, WorkerTypeOK
    <2>5. ConsoleTypeOK'
      BY <1>9 DEF CheckError, ConsoleTypeOK
    <2>6. HistoryTypeOK'
      BY <1>9 DEF CheckError, HistoryTypeOK
    <2> QED BY <2>1, <2>2, <2>3, <2>4, <2>5, <2>6 DEF TypeOK
  <1>10. ASSUME NEW r \in Replies, SendError(r) PROVE TypeOK'
    <2>1. ProducerTypeOK'
      BY <1>10 DEF SendError, ProducerTypeOK, Goto, ProducerStates, FinallyOf
    <2>2. ConsoleTypeOK'
      BY <1>10, SendType DEF SendError, ConsoleTypeOK, Frames
    <2>3. SessionTypeOK' /\ LoopTypeOK' /\ WorkerTypeOK' /\ HistoryTypeOK'
      BY <1>10 DEF SendError, SessionTypeOK, LoopTypeOK, WorkerTypeOK, HistoryTypeOK
    <2> QED BY <2>1, <2>2, <2>3 DEF TypeOK
  <1>11. ASSUME NEW r \in Replies, BeginScheduled(r) PROVE TypeOK'
    <2>1. SessionTypeOK'
      BY <1>11, TakeSlotType DEF BeginScheduled, SessionTypeOK
    <2>2. ProducerTypeOK'
      BY <1>11, TakeSlotType DEF BeginScheduled, ProducerTypeOK, Goto, ProducerStates
    <2>3. WorkerTypeOK'
      BY <1>11 DEF BeginScheduled, WorkerTypeOK, WorkerStates
    <2>4. LoopTypeOK' /\ ConsoleTypeOK' /\ HistoryTypeOK'
      BY <1>11 DEF BeginScheduled, LoopTypeOK, ConsoleTypeOK, HistoryTypeOK
    <2> QED BY <2>1, <2>2, <2>3, <2>4 DEF TypeOK
  <1>12. ASSUME NEW r \in Replies, NextTaskSentence(r) PROVE TypeOK'
    <2>1. ProducerTypeOK'
      BY <1>12 DEF NextTaskSentence, ProducerTypeOK, Goto, ProducerStates
    <2>2. SessionTypeOK' /\ LoopTypeOK' /\ WorkerTypeOK' /\ ConsoleTypeOK' /\ HistoryTypeOK'
      BY <1>12 DEF NextTaskSentence, SessionTypeOK, LoopTypeOK, WorkerTypeOK, ConsoleTypeOK,
         HistoryTypeOK
    <2> QED BY <2>1, <2>2 DEF TypeOK
  <1>13. ASSUME NEW r \in Replies, PutTaskSentence(r) PROVE TypeOK'
    <2>1. ProducerTypeOK'
      BY <1>13, PutSentenceType DEF PutTaskSentence, ProducerTypeOK, Goto, ProducerStates
    <2>2. WorkerTypeOK'
      BY <1>13, PutSentenceType DEF PutTaskSentence, WorkerTypeOK
    <2>3. SessionTypeOK' /\ LoopTypeOK' /\ ConsoleTypeOK' /\ HistoryTypeOK'
      BY <1>13 DEF PutTaskSentence, SessionTypeOK, LoopTypeOK, ConsoleTypeOK, HistoryTypeOK
    <2> QED BY <2>1, <2>2, <2>3 DEF TypeOK
  <1>14. ASSUME NEW r \in Replies, SendClip(r) PROVE TypeOK'
    <2>1. ProducerTypeOK'
      BY <1>14 DEF SendClip, ProducerTypeOK, Goto, ProducerStates
    <2>2. ConsoleTypeOK'
      BY <1>14, SendType DEF SendClip, ConsoleTypeOK, SendAudio, Frames
    <2>3. HistoryTypeOK'
      BY <1>14, SendAudioType DEF SendClip, HistoryTypeOK
    <2>4. SessionTypeOK' /\ LoopTypeOK' /\ WorkerTypeOK'
      BY <1>14 DEF SendClip, SessionTypeOK, LoopTypeOK, WorkerTypeOK
    <2> QED BY <2>1, <2>2, <2>3, <2>4 DEF TypeOK
  <1>15. ASSUME NEW r \in Replies, EndScheduled(r) PROVE TypeOK'
    <2>1. SessionTypeOK'
      BY <1>15, FreeSlotType DEF EndScheduled, SessionTypeOK
    <2>2. ProducerTypeOK'
      BY <1>15, FreeSlotType DEF EndScheduled, ProducerTypeOK, Goto, ProducerStates
    <2>3. LoopTypeOK' /\ WorkerTypeOK' /\ ConsoleTypeOK' /\ HistoryTypeOK'
      BY <1>15 DEF EndScheduled, LoopTypeOK, WorkerTypeOK, ConsoleTypeOK, HistoryTypeOK
    <2> QED BY <2>1, <2>2, <2>3 DEF TypeOK
  <1>16. ASSUME NEW r \in Replies, StopFiller(r) PROVE TypeOK'
    <2>1. ProducerTypeOK'
      BY <1>16 DEF StopFiller, ProducerTypeOK, Goto, ProducerStates
    <2>2. SessionTypeOK' /\ LoopTypeOK' /\ WorkerTypeOK' /\ ConsoleTypeOK' /\ HistoryTypeOK'
      BY <1>16 DEF StopFiller, SessionTypeOK, LoopTypeOK, WorkerTypeOK, ConsoleTypeOK,
         HistoryTypeOK
    <2> QED BY <2>1, <2>2 DEF TypeOK
  <1>17. ASSUME NEW r \in Replies, JoinFiller(r) PROVE TypeOK'
    <2>1. ProducerTypeOK'
      BY <1>17 DEF JoinFiller, ProducerTypeOK, Goto, ProducerStates
    <2>2. SessionTypeOK' /\ LoopTypeOK' /\ WorkerTypeOK' /\ ConsoleTypeOK' /\ HistoryTypeOK'
      BY <1>17 DEF JoinFiller, SessionTypeOK, LoopTypeOK, WorkerTypeOK, ConsoleTypeOK,
         HistoryTypeOK
    <2> QED BY <2>1, <2>2 DEF TypeOK
  <1>18. ASSUME NEW r \in Replies, PutDone(r) PROVE TypeOK'
    <2>1. ProducerTypeOK'
      BY <1>18 DEF PutDone, ProducerTypeOK, Goto, ProducerStates
    <2>2. WorkerTypeOK'
      BY <1>18, PutType, ItemTypes DEF PutDone, WorkerTypeOK
    <2>3. SessionTypeOK' /\ LoopTypeOK' /\ ConsoleTypeOK' /\ HistoryTypeOK'
      BY <1>18 DEF PutDone, SessionTypeOK, LoopTypeOK, ConsoleTypeOK, HistoryTypeOK
    <2> QED BY <2>1, <2>2, <2>3 DEF TypeOK
  <1>19. ASSUME NEW r \in Replies, JoinWorker(r) PROVE TypeOK'
    <2>1. ProducerTypeOK'
      BY <1>19 DEF JoinWorker, ProducerTypeOK, Goto, ProducerStates
    <2>2. SessionTypeOK'
      BY <1>19 DEF JoinWorker, SessionTypeOK
    <2>3. LoopTypeOK'
      BY <1>19 DEF JoinWorker, LoopTypeOK
    <2>4. WorkerTypeOK'
      BY <1>19 DEF JoinWorker, WorkerTypeOK
    <2>5. ConsoleTypeOK'
      BY <1>19 DEF JoinWorker, ConsoleTypeOK
    <2>6. HistoryTypeOK'
      BY <1>19 DEF JoinWorker, HistoryTypeOK
    <2> QED BY <2>1, <2>2, <2>3, <2>4, <2>5, <2>6 DEF TypeOK
  <1>20. ASSUME NEW r \in Replies, PopBarge(r) PROVE TypeOK'
    <2>1. SessionTypeOK'
      BY <1>20 DEF PopBarge, SessionTypeOK
    <2>2. ProducerTypeOK'
      BY <1>20 DEF PopBarge, ProducerTypeOK, Goto, ProducerStates
    <2>3. LoopTypeOK' /\ WorkerTypeOK' /\ ConsoleTypeOK' /\ HistoryTypeOK'
      BY <1>20 DEF PopBarge, LoopTypeOK, WorkerTypeOK, ConsoleTypeOK, HistoryTypeOK
    <2> QED BY <2>1, <2>2, <2>3 DEF TypeOK
  <1>21. ASSUME NEW r \in Replies, EndUtterance(r) PROVE TypeOK'
    <2>1. SessionTypeOK'
      BY <1>21, FreeSlotType DEF EndUtterance, SessionTypeOK
    <2>2. ProducerTypeOK'
      BY <1>21, FreeSlotType DEF EndUtterance, ProducerTypeOK, Goto, ProducerStates
    <2>3. LoopTypeOK' /\ WorkerTypeOK' /\ ConsoleTypeOK' /\ HistoryTypeOK'
      BY <1>21 DEF EndUtterance, LoopTypeOK, WorkerTypeOK, ConsoleTypeOK, HistoryTypeOK
    <2> QED BY <2>1, <2>2, <2>3 DEF TypeOK
  <1>22. ASSUME NEW r \in Replies, SendDone(r) PROVE TypeOK'
    <2>1. ProducerTypeOK'
      BY <1>22 DEF SendDone, ProducerTypeOK, Goto, ProducerStates
    <2>2. WorkerTypeOK'
      BY <1>22 DEF SendDone, WorkerTypeOK
    <2>3. ConsoleTypeOK'
      BY <1>22, SendType DEF SendDone, ConsoleTypeOK, SendReplyDone, Frames
    <2>4. HistoryTypeOK'
      BY <1>22 DEF SendDone, HistoryTypeOK, SendReplyDone, ProducerTypeOK
    <2>5. SessionTypeOK' /\ LoopTypeOK'
      BY <1>22 DEF SendDone, SessionTypeOK, LoopTypeOK
    <2> QED BY <2>1, <2>2, <2>3, <2>4, <2>5 DEF TypeOK
  <1>23. ASSUME NEW r \in Replies, Get(r) PROVE TypeOK'
    <2>1. WorkerTypeOK'
      BY <1>23, BecomeType DEF Get, WorkerTypeOK, WorkerStates
    <2>2. SessionTypeOK' /\ LoopTypeOK' /\ ProducerTypeOK' /\ ConsoleTypeOK' /\ HistoryTypeOK'
      BY <1>23 DEF Get, SessionTypeOK, LoopTypeOK, ProducerTypeOK, ConsoleTypeOK, HistoryTypeOK
    <2> QED BY <2>1, <2>2 DEF TypeOK
  <1>24. ASSUME NEW r \in Replies, CheckBefore(r) PROVE TypeOK'
    <2>1. WorkerTypeOK'
      BY <1>24, BackToGetType, BecomeType DEF CheckBefore, WorkerTypeOK, WorkerStates
    <2>2. SessionTypeOK' /\ LoopTypeOK' /\ ProducerTypeOK' /\ ConsoleTypeOK' /\ HistoryTypeOK'
      BY <1>24 DEF CheckBefore, SessionTypeOK, LoopTypeOK, ProducerTypeOK, ConsoleTypeOK,
         HistoryTypeOK
    <2> QED BY <2>1, <2>2 DEF TypeOK
  <1>25. ASSUME NEW r \in Replies, Synthesize(r) PROVE TypeOK'
    <2>1. WorkerTypeOK'
      BY <1>25, BackToGetType, BecomeType DEF Synthesize, WorkerTypeOK, WorkerStates
    <2>2. HistoryTypeOK'
      BY <1>25, SettleType DEF Synthesize, HistoryTypeOK
    <2>3. SessionTypeOK' /\ LoopTypeOK' /\ ProducerTypeOK' /\ ConsoleTypeOK'
      BY <1>25 DEF Synthesize, SessionTypeOK, LoopTypeOK, ProducerTypeOK, ConsoleTypeOK
    <2> QED BY <2>1, <2>2, <2>3 DEF TypeOK
  <1>26. ASSUME NEW r \in Replies, SendChunk(r) PROVE TypeOK'
    <2>1. WorkerTypeOK'
      BY <1>26, BackToGetType DEF SendChunk, WorkerTypeOK
    <2>2. ConsoleTypeOK'
      BY <1>26, SendType DEF SendChunk, ConsoleTypeOK, SendAudio, Frames
    <2>3. HistoryTypeOK'
      BY <1>26, SendAudioType, SettleType DEF SendChunk, HistoryTypeOK
    <2>4. SessionTypeOK' /\ LoopTypeOK' /\ ProducerTypeOK'
      BY <1>26 DEF SendChunk, SessionTypeOK, LoopTypeOK, ProducerTypeOK
    <2> QED BY <2>1, <2>2, <2>3, <2>4 DEF TypeOK
  <1>27. ASSUME NEW r \in Replies, Tick(r) PROVE TypeOK'
    <2>1. WorkerTypeOK'
      BY <1>27 DEF Tick, WorkerTypeOK, FillerStates
    <2>2. SessionTypeOK'
      BY <1>27 DEF Tick, SessionTypeOK
    <2>3. LoopTypeOK'
      BY <1>27 DEF Tick, LoopTypeOK
    <2>4. ProducerTypeOK'
      BY <1>27 DEF Tick, ProducerTypeOK
    <2>5. ConsoleTypeOK'
      BY <1>27 DEF Tick, ConsoleTypeOK
    <2>6. HistoryTypeOK'
      BY <1>27 DEF Tick, HistoryTypeOK
    <2> QED BY <2>1, <2>2, <2>3, <2>4, <2>5, <2>6 DEF TypeOK
  <1>28. ASSUME NEW r \in Replies, PutPhrase(r) PROVE TypeOK'
    <2>1. WorkerTypeOK'
      <3>1. CASE Put(r, Filler) /\ fillers' = [fillers EXCEPT ![r] = @ + 1]
        <4>1. queue' \in [Replies -> Seq(Items)]
          BY <3>1, PutType, ItemTypes
        <4>2. fillers' \in [Replies -> Nat]
          BY <3>1 DEF WorkerTypeOK
        <4>3. fill' \in [Replies -> FillerStates]
          BY <1>28 DEF PutPhrase, WorkerTypeOK, FillerStates
        <4> QED BY <1>28, <4>1, <4>2, <4>3 DEF PutPhrase, WorkerTypeOK
      <3>2. CASE UNCHANGED <<queue, fillers>>
        BY <1>28, <3>2 DEF PutPhrase, WorkerTypeOK, FillerStates
      <3> QED BY <1>28, <3>1, <3>2 DEF PutPhrase
    <2>2. SessionTypeOK'
      BY <1>28 DEF PutPhrase, SessionTypeOK
    <2>3. LoopTypeOK'
      BY <1>28 DEF PutPhrase, LoopTypeOK
    <2>4. ProducerTypeOK'
      BY <1>28 DEF PutPhrase, ProducerTypeOK
    <2>5. ConsoleTypeOK'
      BY <1>28 DEF PutPhrase, ConsoleTypeOK
    <2>6. HistoryTypeOK'
      BY <1>28 DEF PutPhrase, HistoryTypeOK
    <2> QED BY <2>1, <2>2, <2>3, <2>4, <2>5, <2>6 DEF TypeOK
  <1>29. ASSUME NEW r \in Replies, StartVoice(r) PROVE TypeOK'
    <2>1. SessionTypeOK'
      BY <1>29, TakeSlotType DEF StartVoice, SessionTypeOK
    <2>2. ProducerTypeOK'
      BY <1>29, TakeSlotType DEF StartVoice, ProducerTypeOK, Goto, ProducerStates, AllKinds
    <2>3. ConsoleTypeOK'
      BY <1>29, SendType DEF StartVoice, ConsoleTypeOK, Frames
    <2>4. LoopTypeOK' /\ WorkerTypeOK' /\ HistoryTypeOK'
      BY <1>29 DEF StartVoice, LoopTypeOK, WorkerTypeOK, HistoryTypeOK
    <2> QED BY <2>1, <2>2, <2>3, <2>4 DEF TypeOK
  <1>30. ASSUME NEW r \in Replies, StartTyped(r) PROVE TypeOK'
    <2>1. SessionTypeOK'
      BY <1>30, TakeSlotType DEF StartTyped, SessionTypeOK
    <2>2. ProducerTypeOK'
      BY <1>30, TakeSlotType DEF StartTyped, ProducerTypeOK, Goto, ProducerStates, AllKinds
    <2>3. ConsoleTypeOK'
      BY <1>30, SendType DEF StartTyped, ConsoleTypeOK, Frames
    <2>4. LoopTypeOK' /\ WorkerTypeOK' /\ HistoryTypeOK'
      BY <1>30 DEF StartTyped, LoopTypeOK, WorkerTypeOK, HistoryTypeOK
    <2> QED BY <2>1, <2>2, <2>3, <2>4 DEF TypeOK
  <1>31. ASSUME NEW r \in Replies, Schedule(r) PROVE TypeOK'
    <2>1. ProducerTypeOK'
      BY <1>31 DEF Schedule, Scheduled, ProducerTypeOK, Goto, ProducerStates, AllKinds
    <2>2. SessionTypeOK' /\ LoopTypeOK' /\ WorkerTypeOK' /\ ConsoleTypeOK' /\ HistoryTypeOK'
      BY <1>31 DEF Schedule, SessionTypeOK, LoopTypeOK, WorkerTypeOK, ConsoleTypeOK, HistoryTypeOK
    <2> QED BY <2>1, <2>2 DEF TypeOK
  <1>32. ASSUME RefuseTyped PROVE TypeOK'
    <2>1. ConsoleTypeOK'
      BY <1>32, SendType DEF RefuseTyped, ConsoleTypeOK, Frames
    <2>2. SessionTypeOK' /\ LoopTypeOK' /\ ProducerTypeOK' /\ WorkerTypeOK' /\ HistoryTypeOK'
      BY <1>32 DEF RefuseTyped, SessionTypeOK, LoopTypeOK, ProducerTypeOK, WorkerTypeOK,
         HistoryTypeOK
    <2> QED BY <2>1, <2>2 DEF TypeOK
  <1>33. ASSUME BargeIn PROVE TypeOK'
    <2>1. ConsoleTypeOK'
      <3>1. client' \in ClientStates
        BY <1>33 DEF BargeIn, ConsoleTypeOK, OnBargeIn, ClientStates
      <3> QED BY <1>33, <3>1 DEF BargeIn, ConsoleTypeOK
    <2>2. SessionTypeOK' /\ LoopTypeOK' /\ ProducerTypeOK' /\ WorkerTypeOK' /\ HistoryTypeOK'
      BY <1>33 DEF BargeIn, SessionTypeOK, LoopTypeOK, ProducerTypeOK, WorkerTypeOK, HistoryTypeOK
    <2> QED BY <2>1, <2>2 DEF TypeOK
  <1>34. ASSUME Disconnect PROVE TypeOK'
    <2>1. SessionTypeOK'
      BY <1>34 DEF Disconnect, SessionTypeOK
    <2>2. LoopTypeOK'
      BY <1>34 DEF Disconnect, LoopTypeOK
    <2>3. ProducerTypeOK' /\ WorkerTypeOK' /\ ConsoleTypeOK' /\ HistoryTypeOK'
      BY <1>34 DEF Disconnect, ProducerTypeOK, WorkerTypeOK, ConsoleTypeOK, HistoryTypeOK
    <2> QED BY <2>1, <2>2, <2>3 DEF TypeOK
  <1>35. ASSUME SendFailed PROVE TypeOK'
    <2>1. SessionTypeOK'
      BY <1>35 DEF SendFailed, SessionTypeOK
    <2>2. LoopTypeOK' /\ ProducerTypeOK' /\ WorkerTypeOK' /\ ConsoleTypeOK' /\ HistoryTypeOK'
      BY <1>35 DEF SendFailed, LoopTypeOK, ProducerTypeOK, WorkerTypeOK, ConsoleTypeOK,
         HistoryTypeOK
    <2> QED BY <2>1, <2>2 DEF TypeOK
  <1>36. ASSUME StartGoodnight PROVE TypeOK'
    <2>1. ConsoleTypeOK'
      BY <1>36 DEF StartGoodnight, ConsoleTypeOK
    <2>2. SessionTypeOK' /\ LoopTypeOK' /\ ProducerTypeOK' /\ WorkerTypeOK' /\ HistoryTypeOK'
      BY <1>36 DEF StartGoodnight, SessionTypeOK, LoopTypeOK, ProducerTypeOK, WorkerTypeOK,
         HistoryTypeOK
    <2> QED BY <2>1, <2>2 DEF TypeOK
  <1>37. ASSUME StartTextResult PROVE TypeOK'
    <2>1. ConsoleTypeOK'
      BY <1>37 DEF StartTextResult, ConsoleTypeOK
    <2>2. SessionTypeOK' /\ LoopTypeOK' /\ ProducerTypeOK' /\ WorkerTypeOK' /\ HistoryTypeOK'
      BY <1>37 DEF StartTextResult, SessionTypeOK, LoopTypeOK, ProducerTypeOK, WorkerTypeOK,
         HistoryTypeOK
    <2> QED BY <2>1, <2>2 DEF TypeOK
  <1>38. ASSUME Release PROVE TypeOK'
    <2>1. SessionTypeOK'
      <3>1. bargeMono' \subseteq Nat /\ generation' \in Nat
        BY <1>38 DEF Release, SessionTypeOK, BargedGeneration
      <3>2. replyActive' \in BOOLEAN /\ ttsQueue' = NoReply /\ closed' = closed
        BY <1>38 DEF Release
      <3> QED BY <3>1, <3>2 DEF SessionTypeOK
    <2>2. LoopTypeOK'
      BY <1>38 DEF Release, LoopTypeOK, SessionTypeOK
    <2>3. ConsoleTypeOK'
      BY <1>38 DEF Release, ConsoleTypeOK
    <2>4. HistoryTypeOK'
      BY <1>38 DEF Release, HistoryTypeOK
    <2>5. ProducerTypeOK' /\ WorkerTypeOK'
      BY <1>38 DEF Release, ProducerTypeOK, WorkerTypeOK
    <2> QED BY <2>1, <2>2, <2>3, <2>4, <2>5 DEF TypeOK
  <1>39. ASSUME Drain PROVE TypeOK'
    <2>1. LoopTypeOK'
      BY <1>39 DEF Drain, LoopTypeOK, AfterDrained
    <2>2. WorkerTypeOK'
      <3>1. CASE queue[draining] # <<>> /\ draining \in Replies
        <4>1. Tail(queue[draining]) \in Seq(Items)
          BY <3>1 DEF WorkerTypeOK
        <4>2. queue' = [queue EXCEPT ![draining] = Tail(queue[draining])]
          BY <1>39, <3>1 DEF Drain
        <4>3. queue' \in [Replies -> Seq(Items)]
          BY <4>1, <4>2 DEF WorkerTypeOK
        <4> QED BY <1>39, <4>3 DEF Drain, WorkerTypeOK
      <3>2. CASE queue[draining] = <<>> \/ draining \notin Replies
        <4>1. queue' = queue
          BY <1>39, <3>2 DEF Drain, WorkerTypeOK
        <4> QED BY <1>39, <4>1 DEF Drain, WorkerTypeOK
      <3> QED BY <3>1, <3>2
    <2>3. SessionTypeOK' /\ ProducerTypeOK' /\ ConsoleTypeOK' /\ HistoryTypeOK'
      BY <1>39 DEF Drain, SessionTypeOK, ProducerTypeOK, ConsoleTypeOK, HistoryTypeOK
    <2> QED BY <2>1, <2>2, <2>3 DEF TypeOK
  <1>40. ASSUME PutBack PROVE TypeOK'
    <2>1. LoopTypeOK'
      BY <1>40 DEF PutBack, LoopTypeOK
    <2>2. WorkerTypeOK'
      <3>1. queue' \in [Replies -> Seq(Items)]
        <4>1. queue' = [queue EXCEPT ![draining] = Append(queue[draining], Sentinel)]
          BY <1>40 DEF PutBack
        <4>2. CASE draining \in Replies
          <5>1. Append(queue[draining], Sentinel) \in Seq(Items)
            BY <4>2, ItemTypes DEF WorkerTypeOK
          <5> QED BY <4>1, <5>1 DEF WorkerTypeOK
        <4>3. CASE draining \notin Replies
          <5>1. queue' = queue
            BY <4>1, <4>3 DEF WorkerTypeOK
          <5> QED BY <5>1 DEF WorkerTypeOK
        <4> QED BY <4>2, <4>3
      <3> QED BY <1>40, <3>1 DEF PutBack, WorkerTypeOK
    <2>3. SessionTypeOK' /\ ProducerTypeOK' /\ ConsoleTypeOK' /\ HistoryTypeOK'
      BY <1>40 DEF PutBack, SessionTypeOK, ProducerTypeOK, ConsoleTypeOK, HistoryTypeOK
    <2> QED BY <2>1, <2>2, <2>3 DEF TypeOK
  <1>41. ASSUME Ack PROVE TypeOK'
    <2>1. LoopTypeOK'
      BY <1>41 DEF Ack, LoopTypeOK
    <2>2. ConsoleTypeOK'
      BY <1>41, SendType DEF Ack, ConsoleTypeOK, Frames
    <2>3. SessionTypeOK' /\ ProducerTypeOK' /\ WorkerTypeOK' /\ HistoryTypeOK'
      BY <1>41 DEF Ack, SessionTypeOK, ProducerTypeOK, WorkerTypeOK, HistoryTypeOK
    <2> QED BY <2>1, <2>2, <2>3 DEF TypeOK
  <1>42. ASSUME AnnounceClip PROVE TypeOK'
    <2>1. ConsoleTypeOK'
      BY <1>42, SendType DEF AnnounceClip, ConsoleTypeOK, Frames
    <2>2. SessionTypeOK' /\ LoopTypeOK' /\ ProducerTypeOK' /\ WorkerTypeOK' /\ HistoryTypeOK'
      BY <1>42 DEF AnnounceClip, SessionTypeOK, LoopTypeOK, ProducerTypeOK, WorkerTypeOK,
         HistoryTypeOK
    <2> QED BY <2>1, <2>2 DEF TypeOK
  <1>43. ASSUME AnnounceDone PROVE TypeOK'
    <2>1. ConsoleTypeOK'
      BY <1>43, SendType DEF AnnounceDone, ConsoleTypeOK, SendReplyDone, Frames
    <2>2. HistoryTypeOK'
      BY <1>43 DEF AnnounceDone, HistoryTypeOK, SendReplyDone
    <2>3. SessionTypeOK' /\ LoopTypeOK' /\ ProducerTypeOK' /\ WorkerTypeOK'
      BY <1>43 DEF AnnounceDone, SessionTypeOK, LoopTypeOK, ProducerTypeOK, WorkerTypeOK
    <2> QED BY <2>1, <2>2, <2>3 DEF TypeOK
  <1>44. ASSUME UNCHANGED vars PROVE TypeOK'
    <2>1. SessionTypeOK'
      BY <1>44 DEF vars, TypeOK, SessionTypeOK
    <2>2. LoopTypeOK'
      BY <1>44 DEF vars, TypeOK, LoopTypeOK
    <2>3. ProducerTypeOK'
      BY <1>44 DEF vars, TypeOK, ProducerTypeOK
    <2>4. WorkerTypeOK'
      BY <1>44 DEF vars, TypeOK, WorkerTypeOK
    <2>5. ConsoleTypeOK'
      BY <1>44 DEF vars, TypeOK, ConsoleTypeOK
    <2>6. HistoryTypeOK'
      BY <1>44 DEF vars, TypeOK, HistoryTypeOK
    <2> QED BY <2>1, <2>2, <2>3, <2>4, <2>5, <2>6 DEF TypeOK
  <1> QED
    BY <1>1, <1>2, <1>3, <1>4, <1>5, <1>6, <1>7, <1>8, <1>9, <1>10, <1>11, <1>12, <1>13,
       <1>14, <1>15, <1>16, <1>17, <1>18, <1>19, <1>20, <1>21, <1>22, <1>23, <1>24, <1>25,
       <1>26, <1>27, <1>28, <1>29, <1>30, <1>31, <1>32, <1>33, <1>34, <1>35, <1>36, <1>37,
       <1>38, <1>39, <1>40, <1>41, <1>42, <1>43, <1>44
       DEF Next, Environment, LoopWork, Producer, Worker, FillerThread, Announcer

\* TypeOK, for every value of the constants.
THEOREM TypeCorrect == Spec => []TypeOK
  <1>1. Init => TypeOK
    BY InitType
  <1>2. TypeOK /\ [Next]_vars => TypeOK'
    BY NextType
  <1> QED BY <1>1, <1>2, PTL DEF Spec
-----------------------------------------------------------------------------
(* The reply slot *)

\* The initial state satisfies the inductive invariant.
LEMMA InitSlot == Init => SlotInv
  BY DEF Init, SlotInv, SlotOwner, InSlot, OutOfSlot, Fresh, Owns

\* A step that moves no reply into or out of the slot keeps it.
LEMMA SlotUntouched ==
  ASSUME SlotInv, UNCHANGED <<sessionVars, gen, barged>>,
         \A s \in Replies : (Fresh(s)' => Fresh(s)) /\ (InSlot(s)' <=> InSlot(s))
  PROVE  SlotInv'
  <1>1. \A s \in Replies : Owns(s)' <=> Owns(s)
    BY DEF Owns, sessionVars
  <1>2. SlotOwner'
    BY <1>1 DEF SlotInv, SlotOwner, sessionVars
  <1> QED BY <1>2 DEF SlotInv, sessionVars

\* One producer moves between two states inside the slot.
LEMMA InsideSlot ==
  ASSUME TypeOK, SlotInv, UNCHANGED <<sessionVars, gen, barged>>,
         NEW r \in Replies, InSlot(r), NEW pc \in ProducerStates \ OutOfSlot, Goto(r, pc)
  PROVE  SlotInv'
  <1>1. prod' = [prod EXCEPT ![r] = pc] /\ prod \in [Replies -> ProducerStates]
    BY DEF Goto, TypeOK, ProducerTypeOK
  <1>2. \A s \in Replies : InSlot(s)' <=> InSlot(s)
    BY <1>1 DEF InSlot
  <1>3. \A s \in Replies : Fresh(s)' => Fresh(s)
    BY <1>1 DEF Fresh, OutOfSlot
  <1> QED BY <1>2, <1>3, SlotUntouched

\* Taking the slot: the generation is new, so nobody else owns it.
LEMMA TakeSlotStep ==
  ASSUME TypeOK, SlotInv, NEW r \in Replies, Fresh(r), TakeSlot(r), UNCHANGED barged,
         NEW pc \in ProducerStates \ OutOfSlot, Goto(r, pc)
  PROVE  SlotInv'
  <1>1. /\ prod' = [prod EXCEPT ![r] = pc] /\ prod \in [Replies -> ProducerStates]
        /\ gen' = [gen EXCEPT ![r] = generation + 1] /\ gen \in [Replies -> Nat]
        /\ generation' = generation + 1 /\ generation \in Nat
        /\ ~replyActive /\ replyActive' = TRUE /\ ttsQueue' = r /\ barged \subseteq Replies
    BY DEF Goto, TakeSlot, SlotFree, TypeOK, ProducerTypeOK, SessionTypeOK, HistoryTypeOK
  <1>2. InSlot(r)' /\ Owns(r)'
    BY <1>1 DEF InSlot, Owns
  <1>3. \A s \in Replies \ {r} : /\ prod'[s] = prod[s] /\ gen'[s] = gen[s]
                                 /\ gen[s] <= generation
    BY <1>1 DEF SlotInv
  <1>4. \A s \in Replies \ {r} : InSlot(s)' => s \in barged
    BY <1>1, <1>3 DEF SlotInv, SlotOwner, InSlot, Owns
  <1>5. SlotOwner'
    BY <1>1, <1>2, <1>4 DEF SlotOwner
  <1>6. \A s \in Replies : gen'[s] <= generation'
    BY <1>1, <1>3
  <1>7. \A s \in Replies : Fresh(s)' => gen'[s] = 0 /\ s \notin barged'
    BY <1>1, <1>3 DEF SlotInv, Fresh, OutOfSlot
  <1>8. \A s \in Replies : InSlot(s)' => gen'[s] > 0
    BY <1>1, <1>3 DEF SlotInv, InSlot
  <1>9. \A s, t \in Replies : gen'[s] = gen'[t] /\ gen'[s] > 0 => s = t
    BY <1>1, <1>3 DEF SlotInv
  <1>10. \A s \in barged' : gen'[s] < generation'
    BY <1>1, <1>3 DEF SlotInv
  <1> QED BY <1>5, <1>6, <1>7, <1>8, <1>9, <1>10 DEF SlotInv

\* Giving it back: a reply whose generation is no longer current leaves the
\* slot of its successor alone.
LEMMA FreeSlotStep ==
  ASSUME TypeOK, SlotInv, NEW r \in Replies, InSlot(r), FreeSlot(r),
         UNCHANGED <<gen, barged>>, Goto(r, "replyDone")
  PROVE  SlotInv'
  <1>1. /\ prod' = [prod EXCEPT ![r] = "replyDone"] /\ prod \in [Replies -> ProducerStates]
        /\ gen \in [Replies -> Nat] /\ generation \in Nat
    BY DEF Goto, TypeOK, ProducerTypeOK, SessionTypeOK
  <1>2. /\ ~InSlot(r)' /\ ~Fresh(r)'
        /\ \A s \in Replies \ {r} : (InSlot(s)' <=> InSlot(s)) /\ (Fresh(s)' <=> Fresh(s))
    BY <1>1 DEF InSlot, Fresh, OutOfSlot
  <1>3. CASE generation = gen[r]
    <2>1. generation' = generation + 1
      BY <1>3, Zenon DEF FreeSlot, IsCurrent
    <2>2. ~replyActive'
      BY <1>3, Zenon DEF FreeSlot, IsCurrent
    <2>3. \A s \in Replies \ {r} : InSlot(s) => s \in barged
      BY <1>1, <1>3 DEF SlotInv, SlotOwner, Owns
    <2>4. SlotOwner'
      BY <1>2, <2>2, <2>3 DEF SlotOwner
    <2> QED BY <1>1, <1>2, <2>1, <2>4 DEF SlotInv, TypeOK, HistoryTypeOK
  <1>4. CASE generation # gen[r]
    <2>1. UNCHANGED sessionVars
      BY <1>4, Zenon DEF FreeSlot, IsCurrent
    <2>2. \A s \in Replies : Owns(s)' <=> Owns(s)
      BY <2>1 DEF Owns, sessionVars
    <2>3. ~Owns(r)
      BY <1>4 DEF Owns
    <2>4. SlotOwner'
      BY <1>2, <2>1, <2>2, <2>3 DEF SlotInv, SlotOwner, sessionVars
    <2> QED BY <1>2, <2>1, <2>4 DEF SlotInv, sessionVars
  <1> QED BY <1>3, <1>4

\* A barge-in: whoever owned the slot is remembered, and its generation passes.
LEMMA ReleaseStep ==
  ASSUME TypeOK, SlotInv, Release
  PROVE  SlotInv'
  <1>1. /\ ~replyActive' /\ generation' = generation + 1 /\ generation \in Nat
        /\ barged' = barged \cup {s \in Replies : Owns(s)}
        /\ UNCHANGED <<prod, gen>> /\ gen \in [Replies -> Nat] /\ barged \subseteq Replies
    BY DEF Release, producerVars, TypeOK, SessionTypeOK, ProducerTypeOK, HistoryTypeOK
  <1>2. \A s \in Replies : (InSlot(s)' <=> InSlot(s)) /\ (Fresh(s)' <=> Fresh(s))
    BY <1>1 DEF InSlot, Fresh
  <1>3. SlotOwner'
    BY <1>1, <1>2 DEF SlotInv, SlotOwner
  <1>4. \A s \in Replies : Owns(s) => ~Fresh(s)
    <2> SUFFICES ASSUME NEW s \in Replies, Owns(s), Fresh(s) PROVE FALSE
      OBVIOUS
    <2>1. PICK t \in Replies : InSlot(t) /\ Owns(t)
      BY DEF SlotInv, SlotOwner, Owns
    <2>2. gen[t] > 0 /\ gen[t] = gen[s] /\ gen[s] = 0
      BY <2>1 DEF SlotInv, Owns
    <2> QED BY <2>2
  <1>5. \A s \in Replies : Fresh(s)' => gen'[s] = 0 /\ s \notin barged'
    BY <1>1, <1>2, <1>4 DEF SlotInv
  <1>6. \A s \in barged' : gen'[s] < generation'
    BY <1>1 DEF SlotInv, Owns
  <1>7. /\ \A s \in Replies : gen'[s] <= generation'
        /\ \A s \in Replies : InSlot(s)' => gen'[s] > 0
        /\ \A s, t \in Replies : gen'[s] = gen'[t] /\ gen'[s] > 0 => s = t
    BY <1>1, <1>2 DEF SlotInv
  <1> QED BY <1>3, <1>5, <1>6, <1>7 DEF SlotInv

\* Every step keeps the inductive invariant.
LEMMA NextSlot == TypeOK /\ SlotInv /\ [Next]_vars => SlotInv'
  <1> SUFFICES ASSUME TypeOK, SlotInv, [Next]_vars PROVE SlotInv'
    OBVIOUS
  <1> USE DEF producerVars, BodyFrame, WorkerFrame, FillerFrame, AnnounceFrame
  <1>0. ASSUME UNCHANGED <<sessionVars, gen, barged, prod>> PROVE SlotInv'
    BY <1>0, SlotUntouched DEF InSlot, Fresh
  <1>1. ASSUME NEW r \in Replies, Transcribe(r) PROVE SlotInv'
    BY <1>1, InsideSlot DEF Transcribe, InSlot, OutOfSlot, ProducerStates
  <1>2. ASSUME NEW r \in Replies, Gate(r) PROVE SlotInv'
    BY <1>2, InsideSlot DEF Gate, InSlot, OutOfSlot, ProducerStates
  <1>3. ASSUME NEW r \in Replies, BeginTyped(r) PROVE SlotInv'
    BY <1>3, InsideSlot DEF BeginTyped, InSlot, OutOfSlot, ProducerStates
  <1>4. ASSUME NEW r \in Replies, BeginReply(r) PROVE SlotInv'
    BY <1>4, InsideSlot DEF BeginReply, InSlot, OutOfSlot, ProducerStates
  <1>5. ASSUME NEW r \in Replies, PutFixed(r) PROVE SlotInv'
    BY <1>5, InsideSlot DEF PutFixed, InSlot, OutOfSlot, ProducerStates, FinallyOf
  <1>6. ASSUME NEW r \in Replies, ReadStream(r) PROVE SlotInv'
    BY <1>6, InsideSlot DEF ReadStream, InSlot, OutOfSlot, ProducerStates, FinallyOf
  <1>7. ASSUME NEW r \in Replies, PutStreamed(r) PROVE SlotInv'
    BY <1>7, InsideSlot DEF PutStreamed, InSlot, OutOfSlot, ProducerStates
  <1>8. ASSUME NEW r \in Replies, PutFlushed(r) PROVE SlotInv'
    BY <1>8, InsideSlot DEF PutFlushed, InSlot, OutOfSlot, ProducerStates, FinallyOf
  <1>9. ASSUME NEW r \in Replies, CheckError(r) PROVE SlotInv'
    BY <1>9, InsideSlot DEF CheckError, InSlot, OutOfSlot, ProducerStates, FinallyOf
  <1>10. ASSUME NEW r \in Replies, SendError(r) PROVE SlotInv'
    BY <1>10, InsideSlot DEF SendError, InSlot, OutOfSlot, ProducerStates, FinallyOf
  <1>11. ASSUME NEW r \in Replies, NextTaskSentence(r) PROVE SlotInv'
    BY <1>11, InsideSlot DEF NextTaskSentence, InSlot, OutOfSlot, ProducerStates
  <1>12. ASSUME NEW r \in Replies, PutTaskSentence(r) PROVE SlotInv'
    BY <1>12, InsideSlot DEF PutTaskSentence, InSlot, OutOfSlot, ProducerStates
  <1>13. ASSUME NEW r \in Replies, SendClip(r) PROVE SlotInv'
    BY <1>13, InsideSlot DEF SendClip, InSlot, OutOfSlot, ProducerStates
  <1>14. ASSUME NEW r \in Replies, StopFiller(r) PROVE SlotInv'
    BY <1>14, InsideSlot DEF StopFiller, InSlot, OutOfSlot, ProducerStates
  <1>15. ASSUME NEW r \in Replies, JoinFiller(r) PROVE SlotInv'
    BY <1>15, InsideSlot DEF JoinFiller, InSlot, OutOfSlot, ProducerStates
  <1>16. ASSUME NEW r \in Replies, PutDone(r) PROVE SlotInv'
    BY <1>16, InsideSlot DEF PutDone, InSlot, OutOfSlot, ProducerStates
  <1>17. ASSUME NEW r \in Replies, JoinWorker(r) PROVE SlotInv'
    BY <1>17, InsideSlot DEF JoinWorker, InSlot, OutOfSlot, ProducerStates
  <1>18. ASSUME NEW r \in Replies, PopBarge(r) PROVE SlotInv'
    BY <1>18, InsideSlot DEF PopBarge, InSlot, OutOfSlot, ProducerStates
  <1>19. ASSUME NEW r \in Replies, StartVoice(r) PROVE SlotInv'
    BY <1>19, TakeSlotStep DEF StartVoice, IsNext, Fresh, OutOfSlot, ProducerStates
  <1>20. ASSUME NEW r \in Replies, StartTyped(r) PROVE SlotInv'
    BY <1>20, TakeSlotStep DEF StartTyped, IsNext, Fresh, OutOfSlot, ProducerStates
  <1>21. ASSUME NEW r \in Replies, EndScheduled(r) PROVE SlotInv'
    BY <1>21, FreeSlotStep DEF EndScheduled, InSlot, OutOfSlot
  <1>22. ASSUME NEW r \in Replies, EndUtterance(r) PROVE SlotInv'
    BY <1>22, FreeSlotStep DEF EndUtterance, InSlot, OutOfSlot
  <1>23. ASSUME NEW r \in Replies, BeginScheduled(r) PROVE SlotInv'
    <2>1. CASE closed
      <3>1. Fresh(r) /\ Goto(r, "ended") /\ UNCHANGED <<sessionVars, gen, barged>>
        BY <1>23, <2>1 DEF BeginScheduled, Fresh
      <3>2. \A s \in Replies : InSlot(s)' <=> InSlot(s)
        BY <3>1 DEF Goto, InSlot, OutOfSlot, Fresh, TypeOK, ProducerTypeOK
      <3>3. \A s \in Replies : Fresh(s)' => Fresh(s)
        BY <3>1 DEF Goto, Fresh, TypeOK, ProducerTypeOK
      <3> QED BY <3>1, <3>2, <3>3, SlotUntouched
    <2>2. CASE ~closed
      BY <1>23, <2>2, TakeSlotStep DEF BeginScheduled, Fresh, OutOfSlot, ProducerStates
    <2> QED BY <2>1, <2>2
  <1>24. ASSUME NEW r \in Replies, Schedule(r) PROVE SlotInv'
    <2>1. Fresh(r) /\ ~InSlot(r) /\ Goto(r, "waiting") /\ UNCHANGED <<sessionVars, gen, barged>>
      BY <1>24 DEF Schedule, IsNext, Fresh, InSlot, OutOfSlot
    <2>2. \A s \in Replies : InSlot(s)' <=> InSlot(s)
      BY <2>1 DEF Goto, InSlot, OutOfSlot, TypeOK, ProducerTypeOK
    <2>3. \A s \in Replies : Fresh(s)' => Fresh(s)
      BY <2>1 DEF Goto, Fresh, TypeOK, ProducerTypeOK
    <2> QED BY <2>1, <2>2, <2>3, SlotUntouched
  <1>25. ASSUME NEW r \in Replies, SendDone(r) PROVE SlotInv'
    <2>1. ~Fresh(r) /\ ~InSlot(r) /\ Goto(r, "ended") /\ UNCHANGED <<sessionVars, gen, barged>>
      BY <1>25 DEF SendDone, IsNext, Fresh, InSlot, OutOfSlot
    <2>2. \A s \in Replies : InSlot(s)' <=> InSlot(s)
      BY <2>1 DEF Goto, InSlot, OutOfSlot, TypeOK, ProducerTypeOK
    <2>3. \A s \in Replies : Fresh(s)' => Fresh(s)
      BY <2>1 DEF Goto, Fresh, TypeOK, ProducerTypeOK
    <2> QED BY <2>1, <2>2, <2>3, SlotUntouched
  <1>26. ASSUME NEW r \in Replies, Worker(r) \/ FillerThread(r) PROVE SlotInv'
    BY <1>0, <1>26 DEF Worker, Get, CheckBefore, Synthesize, SendChunk, FillerThread, Tick,
       PutPhrase
  <1>27. CASE Announcer \/ StartGoodnight \/ StartTextResult
    BY <1>0, <1>27 DEF Announcer, AnnounceClip, AnnounceDone, StartGoodnight, StartTextResult
  <1>28. CASE Drain \/ PutBack \/ Ack \/ RefuseTyped \/ BargeIn \/ Disconnect \/ SendFailed
    BY <1>0, <1>28 DEF Drain, PutBack, Ack, RefuseTyped, BargeIn, Disconnect, SendFailed
  <1>29. CASE UNCHANGED vars
    BY <1>0, <1>29 DEF vars
  <1> QED
    BY ReleaseStep, <1>1, <1>2, <1>3, <1>4, <1>5, <1>6, <1>7, <1>8, <1>9, <1>10, <1>11,
       <1>12, <1>13, <1>14, <1>15, <1>16, <1>17, <1>18, <1>19, <1>20, <1>21, <1>22, <1>23,
       <1>24, <1>25, <1>26, <1>27, <1>28, <1>29
       DEF Next, Environment, LoopWork, Producer

\* The reply slot is owned by the reply it was given to, for every number of
\* replies, barge-ins, sentences and fillers.
THEOREM SlotSafety == Spec => []SlotOwner
  <1>1. Init => SlotInv
    BY InitSlot
  <1>2. TypeOK /\ SlotInv /\ [Next]_vars => SlotInv'
    BY NextSlot
  <1>3. SlotInv => SlotOwner
    BY DEF SlotInv
  <1> QED BY <1>1, <1>2, <1>3, TypeCorrect, PTL DEF Spec
-----------------------------------------------------------------------------
\* VoiceReply implements ReplySlot, for any number of replies, barge-ins,
\* sentences and fillers: every step of a thread takes the slot, loses it,
\* gives up waiting for it, or leaves it alone.

\* A step that leaves the slot alone.
Kept == UNCHANGED sessionVars /\ \A s \in Replies : Fresh(s)' <=> Fresh(s)

LEMMA KeptStutters ==
  ASSUME Kept
  PROVE  UNCHANGED Slot!slotVars
<1>1. Holder' = Holder
  BY DEF Kept, sessionVars, Holder
<1>2. \A s \in Replies : Phase(s)' = Phase(s)
  BY <1>1 DEF Kept, Phase
<1>3. [s \in Replies |-> Phase(s)]' = [s \in Replies |-> Phase(s)]
  BY <1>2
<1>4. QED BY <1>1, <1>3 DEF Slot!slotVars

\* The reply whose generation is current and whose slot is taken is the one that the
\* session's queue belongs to.
LEMMA HolderIsInside ==
  ASSUME TypeOK, SlotInv
  PROVE  /\ replyActive => /\ ttsQueue \in Replies /\ Holder = ttsQueue
                           /\ InSlot(ttsQueue) /\ Owns(ttsQueue)
         /\ ~replyActive => Holder = NoReply
         /\ \A r \in Replies : InSlot(r) /\ generation = gen[r] => replyActive /\ ttsQueue = r
         /\ \A r \in Replies : r # NoReply /\ (Fresh(r) => Holder # r)
<1>1. replyActive => \E r \in Replies : InSlot(r) /\ Owns(r) /\ ttsQueue = r
  BY DEF SlotInv, SlotOwner
<1>2. ASSUME NEW r \in Replies, InSlot(r), generation = gen[r]
      PROVE  replyActive /\ ttsQueue = r
  <2>1. r \notin barged
    BY <1>2 DEF SlotInv, TypeOK, SessionTypeOK
  <2>2. Owns(r)
    BY <1>2, <2>1 DEF SlotInv, SlotOwner
  <2>3. PICK t \in Replies : InSlot(t) /\ Owns(t) /\ ttsQueue = t
    BY <1>1, <2>2 DEF Owns
  <2>4. t = r
    BY <1>2, <2>3 DEF SlotInv, Owns
  <2>5. QED BY <2>2, <2>3, <2>4 DEF Owns
<1>3. ASSUME NEW r \in Replies PROVE r # NoReply /\ (Fresh(r) => Holder # r)
  <2>1. r # NoReply
    BY BoundsAssumption DEF Replies, NoReply
  <2>2. Fresh(r) => ~InSlot(r)
    BY DEF Fresh, InSlot, OutOfSlot
  <2>3. QED BY <1>1, <2>1, <2>2 DEF Holder
<1>4. QED BY <1>1, <1>2, <1>3 DEF Holder

\* A producer that moves inside the slot.
LEMMA InsideKeeps ==
  ASSUME TypeOK, NEW r \in Replies, InSlot(r), NEW pc \in ProducerStates \ OutOfSlot,
         Goto(r, pc), UNCHANGED sessionVars
  PROVE  Kept
<1>1. prod' = [prod EXCEPT ![r] = pc] /\ prod \in [Replies -> ProducerStates]
  BY DEF Goto, TypeOK, ProducerTypeOK
<1>2. \A s \in Replies : Fresh(s)' <=> Fresh(s)
  BY <1>1 DEF Fresh, InSlot, OutOfSlot
<1>3. QED BY <1>2 DEF Kept

LEMMA TakeAcquires ==
  ASSUME TypeOK, SlotInv, NEW r \in Replies, Fresh(r), TakeSlot(r),
         NEW pc \in ProducerStates \ OutOfSlot, Goto(r, pc)
  PROVE  Slot!Acquire(r)
<1>1. /\ prod' = [prod EXCEPT ![r] = pc] /\ prod \in [Replies -> ProducerStates]
      /\ ~replyActive /\ replyActive' = TRUE /\ ttsQueue' = r
  BY DEF Goto, TakeSlot, SlotFree, TypeOK, ProducerTypeOK
<1>2. Holder = NoReply /\ Holder' = r
  BY <1>1 DEF Holder
<1>3. \A s \in Replies : s # r => (Fresh(s)' <=> Fresh(s))
  BY <1>1 DEF Fresh
<1>4. \A s \in Replies : Phase(s)' = IF s = r THEN "holding" ELSE Phase(s)
  BY <1>2, <1>3, HolderIsInside DEF Phase
<1>5. Phase(r) = "fresh"
  BY HolderIsInside DEF Phase
<1>6. [s \in Replies |-> Phase(s)]' = [[s \in Replies |-> Phase(s)] EXCEPT ![r] = "holding"]
  BY <1>4
<1>7. QED BY <1>2, <1>5, <1>6 DEF Slot!Acquire, Slot!NoReply, NoReply

\* The holder goes, by its own hand or by a barge-in.
LEMMA HolderLoses ==
  ASSUME TypeOK, SlotInv, replyActive, ~replyActive',
         \A s \in Replies : Fresh(s)' <=> Fresh(s)
  PROVE  Slot!Lose(ttsQueue)
<1>1. /\ ttsQueue \in Replies /\ Holder = ttsQueue /\ InSlot(ttsQueue)
      /\ Holder' = NoReply /\ \A s \in Replies : s # NoReply
  BY HolderIsInside DEF Holder
<1>2. ~Fresh(ttsQueue)
  BY <1>1 DEF InSlot, Fresh, OutOfSlot
<1>3. \A s \in Replies : Phase(s)' = IF s = ttsQueue THEN "over" ELSE Phase(s)
  BY <1>1, <1>2 DEF Phase
<1>4. [s \in Replies |-> Phase(s)]' = [[s \in Replies |-> Phase(s)] EXCEPT ![ttsQueue] = "over"]
  BY <1>3
<1>5. QED BY <1>1, <1>4 DEF Slot!Lose, Slot!NoReply, NoReply

\* The end of a reply: it loses the slot, or it had lost it before.
LEMMA FreeLoses ==
  ASSUME TypeOK, SlotInv, NEW r \in Replies, InSlot(r), FreeSlot(r), Goto(r, "replyDone")
  PROVE  [Slot!Next]_Slot!slotVars
<1>1. prod' = [prod EXCEPT ![r] = "replyDone"] /\ prod \in [Replies -> ProducerStates]
  BY DEF Goto, TypeOK, ProducerTypeOK
<1>2. \A s \in Replies : Fresh(s)' <=> Fresh(s)
  BY <1>1 DEF Fresh, InSlot, OutOfSlot
<1>3. CASE generation = gen[r]
  <2>1. replyActive /\ ttsQueue \in Replies
    BY <1>3, HolderIsInside
  <2>2. ~replyActive'
    BY <1>3, Zenon DEF FreeSlot, IsCurrent
  <2>3. Slot!Lose(ttsQueue)
    BY <1>2, <2>1, <2>2, HolderLoses
  <2>4. QED BY <2>1, <2>3 DEF Slot!Next
<1>4. CASE generation # gen[r]
  <2>1. Kept
    BY <1>2, <1>4, Zenon DEF FreeSlot, IsCurrent, Kept
  <2>2. QED BY <2>1, KeptStutters
<1>5. QED BY <1>3, <1>4

LEMMA ReleaseLoses ==
  ASSUME TypeOK, SlotInv, Release
  PROVE  [Slot!Next]_Slot!slotVars
<1>1. ~replyActive' /\ \A s \in Replies : Fresh(s)' <=> Fresh(s)
  BY DEF Release, Fresh
<1>2. CASE replyActive
  BY <1>1, <1>2, HolderLoses, HolderIsInside DEF Slot!Next
<1>3. CASE ~replyActive
  <2>1. Holder = NoReply /\ Holder' = NoReply
    BY <1>1, <1>3 DEF Holder
  <2>2. \A s \in Replies : Phase(s)' = Phase(s)
    BY <1>1, <2>1 DEF Phase
  <2>3. [s \in Replies |-> Phase(s)]' = [s \in Replies |-> Phase(s)]
    BY <2>2
  <2>4. QED BY <2>1, <2>3 DEF Slot!slotVars
<1>4. QED BY <1>2, <1>3

\* Scheduled speech that finds the connection closed gives up.
LEMMA WaitingGivesUp ==
  ASSUME TypeOK, SlotInv, NEW r \in Replies, Fresh(r), Goto(r, "ended"), UNCHANGED sessionVars
  PROVE  Slot!GiveUp(r)
<1>1. prod' = [prod EXCEPT ![r] = "ended"] /\ prod \in [Replies -> ProducerStates]
  BY DEF Goto, TypeOK, ProducerTypeOK
<1>2. Holder' = Holder /\ Holder # r
  BY HolderIsInside DEF Holder, sessionVars
<1>3. Phase(r) = "fresh" /\ \A s \in Replies : Phase(s)' = IF s = r THEN "over" ELSE Phase(s)
  BY <1>1, <1>2 DEF Phase, Fresh
<1>4. [s \in Replies |-> Phase(s)]' = [[s \in Replies |-> Phase(s)] EXCEPT ![r] = "over"]
  BY <1>3
<1>5. QED BY <1>2, <1>3, <1>4 DEF Slot!GiveUp

\* Each step of VoiceReply is a step of ReplySlot or leaves it alone.
LEMMA StepRefines ==
  ASSUME TypeOK, SlotInv, [Next]_vars
  PROVE  [Slot!Next]_Slot!slotVars
<1> USE DEF producerVars, BodyFrame, WorkerFrame, FillerFrame, AnnounceFrame
<1>0. ASSUME UNCHANGED <<sessionVars, prod>> PROVE Kept
  BY <1>0 DEF Kept, Fresh
<1>1. ASSUME NEW r \in Replies, Transcribe(r) PROVE Kept
  BY <1>1, InsideKeeps DEF Transcribe, InSlot, OutOfSlot, ProducerStates
<1>2. ASSUME NEW r \in Replies, Gate(r) PROVE Kept
  BY <1>2, InsideKeeps DEF Gate, InSlot, OutOfSlot, ProducerStates
<1>3. ASSUME NEW r \in Replies, BeginTyped(r) PROVE Kept
  BY <1>3, InsideKeeps DEF BeginTyped, InSlot, OutOfSlot, ProducerStates
<1>4. ASSUME NEW r \in Replies, BeginReply(r) PROVE Kept
  BY <1>4, InsideKeeps DEF BeginReply, InSlot, OutOfSlot, ProducerStates
<1>5. ASSUME NEW r \in Replies, PutFixed(r) PROVE Kept
  BY <1>5, InsideKeeps DEF PutFixed, InSlot, OutOfSlot, ProducerStates, FinallyOf
<1>6. ASSUME NEW r \in Replies, ReadStream(r) PROVE Kept
  BY <1>6, InsideKeeps DEF ReadStream, InSlot, OutOfSlot, ProducerStates, FinallyOf
<1>7. ASSUME NEW r \in Replies, PutStreamed(r) PROVE Kept
  BY <1>7, InsideKeeps DEF PutStreamed, InSlot, OutOfSlot, ProducerStates
<1>8. ASSUME NEW r \in Replies, PutFlushed(r) PROVE Kept
  BY <1>8, InsideKeeps DEF PutFlushed, InSlot, OutOfSlot, ProducerStates, FinallyOf
<1>9. ASSUME NEW r \in Replies, CheckError(r) PROVE Kept
  BY <1>9, InsideKeeps DEF CheckError, InSlot, OutOfSlot, ProducerStates, FinallyOf
<1>10. ASSUME NEW r \in Replies, SendError(r) PROVE Kept
  BY <1>10, InsideKeeps DEF SendError, InSlot, OutOfSlot, ProducerStates, FinallyOf
<1>11. ASSUME NEW r \in Replies, NextTaskSentence(r) PROVE Kept
  BY <1>11, InsideKeeps DEF NextTaskSentence, InSlot, OutOfSlot, ProducerStates
<1>12. ASSUME NEW r \in Replies, PutTaskSentence(r) PROVE Kept
  BY <1>12, InsideKeeps DEF PutTaskSentence, InSlot, OutOfSlot, ProducerStates
<1>13. ASSUME NEW r \in Replies, SendClip(r) PROVE Kept
  BY <1>13, InsideKeeps DEF SendClip, InSlot, OutOfSlot, ProducerStates
<1>14. ASSUME NEW r \in Replies, StopFiller(r) PROVE Kept
  BY <1>14, InsideKeeps DEF StopFiller, InSlot, OutOfSlot, ProducerStates
<1>15. ASSUME NEW r \in Replies, JoinFiller(r) PROVE Kept
  BY <1>15, InsideKeeps DEF JoinFiller, InSlot, OutOfSlot, ProducerStates
<1>16. ASSUME NEW r \in Replies, PutDone(r) PROVE Kept
  BY <1>16, InsideKeeps DEF PutDone, InSlot, OutOfSlot, ProducerStates
<1>17. ASSUME NEW r \in Replies, JoinWorker(r) PROVE Kept
  BY <1>17, InsideKeeps DEF JoinWorker, InSlot, OutOfSlot, ProducerStates
<1>18. ASSUME NEW r \in Replies, PopBarge(r) PROVE Kept
  BY <1>18, InsideKeeps DEF PopBarge, InSlot, OutOfSlot, ProducerStates
<1>19. ASSUME NEW r \in Replies, StartVoice(r) PROVE Slot!Acquire(r)
  BY <1>19, TakeAcquires DEF StartVoice, IsNext, Fresh, OutOfSlot, ProducerStates
<1>20. ASSUME NEW r \in Replies, StartTyped(r) PROVE Slot!Acquire(r)
  BY <1>20, TakeAcquires DEF StartTyped, IsNext, Fresh, OutOfSlot, ProducerStates
<1>21. ASSUME NEW r \in Replies, EndScheduled(r) \/ EndUtterance(r)
       PROVE  [Slot!Next]_Slot!slotVars
  BY <1>21, FreeLoses DEF EndScheduled, EndUtterance, InSlot, OutOfSlot
<1>22. ASSUME NEW r \in Replies, BeginScheduled(r) PROVE Slot!GiveUp(r) \/ Slot!Acquire(r)
  <2>1. CASE closed
    BY <1>22, <2>1, WaitingGivesUp DEF BeginScheduled, Fresh
  <2>2. CASE ~closed
    BY <1>22, <2>2, TakeAcquires DEF BeginScheduled, Fresh, OutOfSlot, ProducerStates
  <2>3. QED BY <2>1, <2>2
<1>23. ASSUME NEW r \in Replies, Schedule(r) \/ SendDone(r) PROVE Kept
  <2>1. PICK pc \in {"waiting", "ended"} :
          /\ Goto(r, pc) /\ UNCHANGED sessionVars
          /\ prod[r] = IF pc = "waiting" THEN "unused" ELSE "replyDone"
    BY <1>23 DEF Schedule, SendDone, IsNext
  <2>2. \A s \in Replies : prod'[s] = IF s = r THEN pc ELSE prod[s]
    BY <2>1 DEF Goto, TypeOK, ProducerTypeOK
  <2>3. \A s \in Replies : Fresh(s)' <=> Fresh(s)
    BY <2>1, <2>2 DEF Fresh
  <2>4. QED BY <2>1, <2>3 DEF Kept
<1>24. ASSUME NEW r \in Replies, Worker(r) \/ FillerThread(r) PROVE Kept
  BY <1>0, <1>24 DEF Worker, Get, CheckBefore, Synthesize, SendChunk, FillerThread, Tick,
     PutPhrase
<1>25. ASSUME Announcer \/ StartGoodnight \/ StartTextResult PROVE Kept
  BY <1>0, <1>25 DEF Announcer, AnnounceClip, AnnounceDone, StartGoodnight, StartTextResult
<1>26. ASSUME Drain \/ PutBack \/ Ack \/ RefuseTyped \/ BargeIn \/ Disconnect \/ SendFailed
       PROVE  Kept
  BY <1>0, <1>26 DEF Drain, PutBack, Ack, RefuseTyped, BargeIn, Disconnect, SendFailed
<1>27. ASSUME UNCHANGED vars PROVE Kept
  BY <1>0, <1>27 DEF vars
<1>28. ASSUME Kept PROVE [Slot!Next]_Slot!slotVars
  BY <1>28, KeptStutters
<1>29. ASSUME NEW r \in Replies, Slot!Acquire(r) \/ Slot!GiveUp(r) PROVE Slot!Next
  BY <1>29 DEF Slot!Next
<1>30. ASSUME NEW r \in Replies, Producer(r) PROVE [Slot!Next]_Slot!slotVars
  BY <1>1, <1>2, <1>3, <1>4, <1>5, <1>6, <1>7, <1>8, <1>9, <1>10, <1>11, <1>12, <1>13,
     <1>14, <1>15, <1>16, <1>17, <1>18, <1>21, <1>22, <1>23, <1>28, <1>29, <1>30
     DEF Producer
<1>31. CASE Environment \/ LoopWork
  BY ReleaseLoses, <1>19, <1>20, <1>23, <1>25, <1>26, <1>28, <1>29, <1>31
     DEF Environment, LoopWork
<1>32. QED BY <1>24, <1>25, <1>27, <1>28, <1>30, <1>31 DEF Next

LEMMA InitRefines == Init => Slot!Init
<1> SUFFICES ASSUME Init PROVE Slot!Init
  OBVIOUS
<1>1. Holder = NoReply /\ \A s \in Replies : Fresh(s) /\ s # NoReply
  BY BoundsAssumption DEF Init, Holder, Fresh, Replies, NoReply
<1>2. \A s \in Replies : Phase(s) = "fresh"
  BY <1>1 DEF Phase
<1>3. [s \in Replies |-> Phase(s)] = [s \in Replies |-> "fresh"]
  BY <1>2
<1>4. QED BY <1>1, <1>3 DEF Slot!Init, Slot!NoReply, NoReply

\* The threads of a connection keep what ReplySlot promises: one reply in the slot at a
\* time, which loses it only by finishing or by a barge-in, and never gets it twice.
THEOREM SlotImplemented == Spec => SlotSpec
<1>1. Init => Slot!Init /\ SlotInv
  BY InitRefines, InitSlot
<1>2. TypeOK /\ SlotInv /\ [Next]_vars => SlotInv'
  BY NextSlot
<1>3. TypeOK /\ SlotInv /\ [Next]_vars => [Slot!Next]_Slot!slotVars
  BY StepRefines
<1>4. QED BY <1>1, <1>2, <1>3, TypeCorrect, PTL DEF Spec, SlotSpec, Slot!Spec
-----------------------------------------------------------------------------
\* What a barge-in leaves behind, for any number of replies, barge-ins,
\* sentences and fillers and any size of the queue: one audio frame of the
\* reply it ended at most, a timestamp that only this reply takes, and room
\* for the sentinel it drained.

(* The frame on its way *)

\* An audio frame sent too late is the last of its reply: the worker, or the
\* scheduler with its clip, was at the send when the slot was lost, and what
\* comes back to a check finds the generation passed.
StaleInv ==
  /\ AtMostOneStale
  /\ \A r \in Replies : stale[r] > 0 => /\ gen[r] < generation
                                        /\ work[r] # "send" /\ prod[r] # "clip"
  /\ \A r \in Replies : prod[r] = "clip" => work[r] = "none"
  /\ \A r \in Replies : Fresh(r) => stale[r] = 0 /\ work[r] = "none"

\* A step that sends no audio, of a thread that is not about to.
LEMMA StaleKept ==
  ASSUME TypeOK, StaleInv, UNCHANGED <<stale, gen>>,
         generation' = generation \/ generation' = generation + 1,
         \A s \in Replies : prod'[s] = "clip" => prod[s] = "clip" /\ work'[s] = work[s],
         \A s \in Replies : Fresh(s)' => Fresh(s) /\ work'[s] = work[s],
         \A s \in Replies : work'[s] = "send" => work[s] = "send"
  PROVE  StaleInv'
<1>1. generation \in Nat /\ gen \in [Replies -> Nat]
  BY DEF TypeOK, SessionTypeOK, ProducerTypeOK
<1>2. QED BY <1>1 DEF StaleInv, AtMostOneStale

\* A producer that moves on.
LEMMA StaleGoto ==
  ASSUME TypeOK, StaleInv, NEW r \in Replies, NEW pc \in ProducerStates \ {"clip", "unused"},
         Goto(r, pc), pc = "waiting" => Fresh(r), UNCHANGED <<stale, gen, work>>,
         generation' = generation \/ generation' = generation + 1
  PROVE  StaleInv'
<1>1. prod' = [prod EXCEPT ![r] = pc] /\ prod \in [Replies -> ProducerStates]
  BY DEF Goto, TypeOK, ProducerTypeOK
<1>2. \A s \in Replies : /\ prod'[s] = "clip" => prod[s] = "clip"
                         /\ Fresh(s)' => Fresh(s)
  BY <1>1 DEF Fresh
<1>3. QED BY <1>2, StaleKept

\* A worker that moves on without sending; only a living reply gets to the send.
LEMMA StaleWorker ==
  ASSUME TypeOK, SlotInv, StaleInv, NEW r \in Replies, work[r] # "none",
         NEW w \in WorkerStates \ {"none"}, Become(r, w), w = "send" => Alive(r),
         UNCHANGED <<stale, gen, prod, generation>>
  PROVE  StaleInv'
<1>1. /\ work' = [work EXCEPT ![r] = w] /\ work \in [Replies -> WorkerStates]
      /\ generation \in Nat /\ gen \in [Replies -> Nat] /\ stale \in [Replies -> Nat]
  BY DEF Become, TypeOK, WorkerTypeOK, SessionTypeOK, ProducerTypeOK, HistoryTypeOK
<1>2. \A s \in Replies : Fresh(s)' <=> Fresh(s)
  BY DEF Fresh
<1>3. ~Fresh(r) /\ prod[r] # "clip"
  BY DEF StaleInv
<1>4. w = "send" => ~(stale[r] > 0)
  BY <1>1 DEF StaleInv, Alive
<1>5. QED BY <1>1, <1>2, <1>3, <1>4 DEF StaleInv, AtMostOneStale

\* The slot taken for a reply that has sent nothing.
LEMMA StaleTake ==
  ASSUME TypeOK, SlotInv, StaleInv, NEW r \in Replies, Fresh(r), TakeSlot(r), UNCHANGED stale,
         NEW pc \in ProducerStates \ {"unused", "waiting"}, Goto(r, pc),
         \/ work' = work
         \/ pc # "clip" /\ work' = [work EXCEPT ![r] = "get"]
  PROVE  StaleInv'
<1>1. /\ prod' = [prod EXCEPT ![r] = pc] /\ prod \in [Replies -> ProducerStates]
      /\ gen' = [gen EXCEPT ![r] = generation + 1] /\ gen \in [Replies -> Nat]
      /\ generation' = generation + 1 /\ generation \in Nat
      /\ work \in [Replies -> WorkerStates] /\ stale \in [Replies -> Nat]
  BY DEF Goto, TakeSlot, TypeOK, ProducerTypeOK, SessionTypeOK, WorkerTypeOK, HistoryTypeOK
<1>2. stale[r] = 0 /\ work[r] = "none"
  BY DEF StaleInv
<1>3. ~Fresh(r)' /\ \A s \in Replies \ {r} : Fresh(s)' => Fresh(s)
  BY <1>1 DEF Fresh
<1>4. QED BY <1>1, <1>2, <1>3 DEF StaleInv, AtMostOneStale

\* The frame itself, from the worker or as a reminder's clip.
LEMMA StaleSend ==
  ASSUME TypeOK, SlotInv, StaleInv, NEW r \in Replies, SendAudio(r),
         UNCHANGED <<gen, generation>>,
         \/ /\ work[r] = "send" /\ work' = [work EXCEPT ![r] = "get"] /\ UNCHANGED prod
         \/ /\ prod[r] = "clip" /\ Goto(r, "endScheduled") /\ UNCHANGED work
  PROVE  StaleInv'
<1>1. /\ work \in [Replies -> WorkerStates] /\ prod \in [Replies -> ProducerStates]
      /\ generation \in Nat /\ gen \in [Replies -> Nat] /\ stale \in [Replies -> Nat]
  BY DEF TypeOK, WorkerTypeOK, SessionTypeOK, ProducerTypeOK, HistoryTypeOK
<1>2. stale[r] = 0 /\ ~Fresh(r)
  BY <1>1 DEF StaleInv, Fresh
<1>3. \A s \in Replies \ {r} : /\ work'[s] = work[s] /\ prod'[s] = prod[s]
                               /\ stale'[s] = stale[s]
  BY <1>1 DEF Goto, SendAudio
<1>4. /\ work'[r] # "send" /\ prod'[r] # "clip" /\ ~Fresh(r)'
  BY <1>1, <1>2 DEF Goto, StaleInv, Fresh
<1>5. \/ stale'[r] = 0
      \/ stale'[r] = 1 /\ gen[r] < generation
  BY <1>1, <1>2 DEF SendAudio, SlotInv
<1>6. \A s \in Replies \ {r} : Fresh(s)' <=> Fresh(s)
  BY <1>3 DEF Fresh
<1>7. QED BY <1>1, <1>3, <1>4, <1>5, <1>6 DEF StaleInv, AtMostOneStale

LEMMA InitStale == Init => StaleInv
BY DEF Init, StaleInv, AtMostOneStale, Fresh

LEMMA NextStale == TypeOK /\ SlotInv /\ StaleInv /\ [Next]_vars => StaleInv'
<1> SUFFICES ASSUME TypeOK, SlotInv, StaleInv, [Next]_vars PROVE StaleInv'
  OBVIOUS
<1> USE DEF sessionVars, producerVars, workerVars, audioHistory, BodyFrame, WorkerFrame,
            FillerFrame, AnnounceFrame
<1>0. ASSUME UNCHANGED <<prod, work, stale, gen>>,
             generation' = generation \/ generation' = generation + 1
      PROVE  StaleInv'
  BY <1>0, StaleKept DEF Fresh
<1>1. ASSUME NEW r \in Replies, Transcribe(r) PROVE StaleInv'
  BY <1>1, StaleGoto DEF Transcribe, ProducerStates
<1>2. ASSUME NEW r \in Replies, Gate(r) \/ BeginTyped(r) PROVE StaleInv'
  <2>1. /\ \E pc \in {"popBarge", "begin"} : prod' = [prod EXCEPT ![r] = pc]
        /\ work' = work \/ work' = [work EXCEPT ![r] = "get"]
        /\ prod[r] \in {"gate", "typed"} /\ UNCHANGED <<stale, gen, generation>>
        /\ prod \in [Replies -> ProducerStates] /\ work \in [Replies -> WorkerStates]
    BY <1>2 DEF Gate, BeginTyped, Goto, TypeOK, ProducerTypeOK, WorkerTypeOK
  <2>2. \A s \in Replies : /\ prod'[s] = "clip" => prod[s] = "clip" /\ work'[s] = work[s]
                           /\ Fresh(s)' => Fresh(s) /\ work'[s] = work[s]
                           /\ work'[s] = "send" => work[s] = "send"
    BY <2>1 DEF Fresh
  <2>3. QED BY <2>1, <2>2, StaleKept
<1>3. ASSUME NEW r \in Replies, BeginReply(r) PROVE StaleInv'
  BY <1>3, StaleGoto DEF BeginReply, ProducerStates
<1>4. ASSUME NEW r \in Replies, \/ PutFixed(r) \/ ReadStream(r) \/ PutStreamed(r)
                                \/ PutFlushed(r) \/ CheckError(r) \/ SendError(r)
      PROVE  StaleInv'
  <2>1. \E pc \in {"fixed", "llm", "llmPut", "flushPut", "error", "sendError", "stopFiller",
                   "putDone", "popBarge"} : Goto(r, pc)
    BY <1>4 DEF PutFixed, ReadStream, PutStreamed, PutFlushed, CheckError, SendError, FinallyOf
  <2>2. UNCHANGED <<stale, gen, work, generation>>
    BY <1>4 DEF PutFixed, ReadStream, PutStreamed, PutFlushed, CheckError, SendError
  <2>3. QED BY <2>1, <2>2, StaleGoto DEF ProducerStates
<1>5. ASSUME NEW r \in Replies, NextTaskSentence(r) \/ PutTaskSentence(r) PROVE StaleInv'
  BY <1>5, StaleGoto DEF NextTaskSentence, PutTaskSentence, ProducerStates
<1>6. ASSUME NEW r \in Replies, StopFiller(r) \/ JoinFiller(r) \/ PutDone(r) \/ JoinWorker(r)
      PROVE  StaleInv'
  BY <1>6, StaleGoto DEF StopFiller, JoinFiller, PutDone, JoinWorker, ProducerStates
<1>7. ASSUME NEW r \in Replies, PopBarge(r) \/ SendDone(r) PROVE StaleInv'
  BY <1>7, StaleGoto DEF PopBarge, SendDone, ProducerStates
<1>8. ASSUME NEW r \in Replies, EndScheduled(r) \/ EndUtterance(r) PROVE StaleInv'
  <2>1. generation' = generation \/ generation' = generation + 1
    BY <1>8, Zenon DEF EndScheduled, EndUtterance, FreeSlot
  <2>2. QED BY <1>8, <2>1, StaleGoto DEF EndScheduled, EndUtterance, ProducerStates
<1>9. ASSUME NEW r \in Replies, StartVoice(r) PROVE StaleInv'
  BY <1>9, StaleTake DEF StartVoice, IsNext, Fresh, ProducerStates
<1>10. ASSUME NEW r \in Replies, StartTyped(r) PROVE StaleInv'
  BY <1>10, StaleTake DEF StartTyped, IsNext, Fresh, ProducerStates
<1>11. ASSUME NEW r \in Replies, BeginScheduled(r) PROVE StaleInv'
  <2>1. CASE closed
    BY <1>11, <2>1, StaleGoto DEF BeginScheduled, ProducerStates
  <2>2. CASE ~closed
    BY <1>11, <2>2, StaleTake DEF BeginScheduled, Fresh, ProducerStates
  <2>3. QED BY <2>1, <2>2
<1>12. ASSUME NEW r \in Replies, Schedule(r) PROVE StaleInv'
  BY <1>12, StaleGoto DEF Schedule, IsNext, Fresh, ProducerStates
<1>13. ASSUME NEW r \in Replies, SendClip(r) PROVE StaleInv'
  <2>1. CASE SendAudio(r)
    BY <1>13, <2>1, StaleSend DEF SendClip
  <2>2. CASE UNCHANGED <<client, audioHistory>>
    BY <1>13, <2>2, StaleGoto DEF SendClip, ProducerStates
  <2>3. QED BY <1>13, <2>1, <2>2 DEF SendClip
<1>14. ASSUME NEW r \in Replies, Get(r) PROVE StaleInv'
  BY <1>14, StaleWorker DEF Get, WorkerStates
<1>15. ASSUME NEW r \in Replies, CheckBefore(r) PROVE StaleInv'
  BY <1>15, StaleWorker DEF CheckBefore, BackToGet, WorkerStates
<1>16. ASSUME NEW r \in Replies, Synthesize(r) PROVE StaleInv'
  BY <1>16, StaleWorker DEF Synthesize, BackToGet, WorkerStates
<1>17. ASSUME NEW r \in Replies, SendChunk(r) PROVE StaleInv'
  BY <1>17, StaleSend DEF SendChunk, BackToGet, Become
<1>18. ASSUME NEW r \in Replies, FillerThread(r) PROVE StaleInv'
  BY <1>0, <1>18 DEF FillerThread, Tick, PutPhrase
<1>19. CASE Announcer \/ StartGoodnight \/ StartTextResult
  BY <1>0, <1>19 DEF Announcer, AnnounceClip, AnnounceDone, StartGoodnight, StartTextResult
<1>20. CASE \/ Release \/ Drain \/ PutBack \/ Ack \/ RefuseTyped \/ BargeIn \/ Disconnect
            \/ SendFailed
  BY <1>0, <1>20 DEF Release, Drain, PutBack, Ack, RefuseTyped, BargeIn, Disconnect, SendFailed
<1>21. CASE UNCHANGED vars
  BY <1>0, <1>21 DEF vars
<1> QED
  BY <1>1, <1>2, <1>3, <1>4, <1>5, <1>6, <1>7, <1>8, <1>9, <1>10, <1>11, <1>12, <1>13, <1>14,
     <1>15, <1>16, <1>17, <1>18, <1>19, <1>20, <1>21
     DEF Next, Environment, LoopWork, Producer, Worker
-----------------------------------------------------------------------------
(* The timestamp of a barge-in *)

\* A timestamp is kept for a generation that has passed; if that was a reply's, a
\* barge-in took the slot from it, because a reply whose generation is current
\* holds the slot.
TimestampInv ==
  /\ \A g \in bargeMono : g < generation
  /\ \A r \in Replies : gen[r] > 0 /\ gen[r] \in bargeMono => r \in barged
  /\ \A r \in Replies : gen[r] > 0 /\ gen[r] = generation => replyActive
  /\ CancelledIsBarged

LEMMA TimestampKept ==
  ASSUME TimestampInv, UNCHANGED <<sessionVars, gen, bargeMono, cancelled, barged>>
  PROVE  TimestampInv'
BY DEF TimestampInv, CancelledIsBarged, sessionVars

LEMMA TimestampTake ==
  ASSUME TypeOK, SlotInv, TimestampInv, NEW r \in Replies, TakeSlot(r),
         UNCHANGED <<bargeMono, cancelled, barged>>
  PROVE  TimestampInv'
<1>1. /\ gen' = [gen EXCEPT ![r] = generation + 1] /\ gen \in [Replies -> Nat]
      /\ generation' = generation + 1 /\ generation \in Nat /\ replyActive' = TRUE
      /\ bargeMono \subseteq Nat
  BY DEF TakeSlot, TypeOK, ProducerTypeOK, SessionTypeOK
<1>2. \A g \in bargeMono : g < generation'
  BY <1>1 DEF TimestampInv
<1>3. \A s \in Replies : gen'[s] > 0 /\ gen'[s] \in bargeMono => s \in barged
  BY <1>1 DEF TimestampInv
<1>4. QED BY <1>1, <1>2, <1>3 DEF TimestampInv, CancelledIsBarged

LEMMA TimestampFree ==
  ASSUME TypeOK, SlotInv, TimestampInv, NEW r \in Replies, FreeSlot(r),
         UNCHANGED <<gen, bargeMono, cancelled, barged>>
  PROVE  TimestampInv'
<1>1. CASE generation = gen[r]
  <2>1. generation' = generation + 1
    BY <1>1, Zenon DEF FreeSlot, IsCurrent
  <2>2. /\ gen \in [Replies -> Nat] /\ generation \in Nat /\ bargeMono \subseteq Nat
    BY DEF TypeOK, ProducerTypeOK, SessionTypeOK
  <2>3. \A s \in Replies : gen[s] <= generation
    BY DEF SlotInv
  <2>4. QED BY <2>1, <2>2, <2>3 DEF TimestampInv, CancelledIsBarged
<1>2. CASE generation # gen[r]
  <2>1. UNCHANGED sessionVars
    BY <1>2, Zenon DEF FreeSlot, IsCurrent
  <2>2. QED BY <2>1, TimestampKept
<1>3. QED BY <1>1, <1>2

LEMMA TimestampRelease ==
  ASSUME TypeOK, SlotInv, TimestampInv, Release
  PROVE  TimestampInv'
<1>1. /\ generation' = generation + 1 /\ bargeMono' = bargeMono \cup {generation}
      /\ barged' = barged \cup {s \in Replies : Owns(s)}
      /\ gen \in [Replies -> Nat] /\ generation \in Nat /\ bargeMono \subseteq Nat
      /\ UNCHANGED <<gen, cancelled>>
  BY DEF Release, BargedGeneration, producerVars, TypeOK, ProducerTypeOK, SessionTypeOK
<1>2. \A s \in Replies : gen[s] > 0 /\ gen[s] = generation => s \in barged'
  BY <1>1 DEF TimestampInv, Owns
<1>3. \A s \in Replies : gen[s] <= generation
  BY DEF SlotInv
<1>4. QED BY <1>1, <1>2, <1>3 DEF TimestampInv, CancelledIsBarged

LEMMA TimestampPop ==
  ASSUME TypeOK, SlotInv, TimestampInv, NEW r \in Replies, PopBarge(r)
  PROVE  TimestampInv'
<1>1. /\ cancelled' = [cancelled EXCEPT ![r] = OwnTimestamp(r) # {}]
      /\ cancelled \in [Replies -> BOOLEAN] /\ bargeMono' \subseteq bargeMono
      /\ UNCHANGED <<sessionVars, gen, barged>>
  BY DEF PopBarge, TypeOK, ProducerTypeOK
<1>2. gen[r] > 0
  BY DEF PopBarge, SlotInv, InSlot, OutOfSlot
<1>3. OwnTimestamp(r) # {} => r \in barged
  BY <1>2 DEF OwnTimestamp, TimestampInv
<1>4. \A s \in Replies : cancelled'[s] => s \in barged
  BY <1>1, <1>3 DEF TimestampInv, CancelledIsBarged
<1>5. QED BY <1>1, <1>4 DEF TimestampInv, CancelledIsBarged, sessionVars

LEMMA InitTimestamp == Init => TimestampInv
BY DEF Init, TimestampInv, CancelledIsBarged

LEMMA NextTimestamp == TypeOK /\ SlotInv /\ TimestampInv /\ [Next]_vars => TimestampInv'
<1> SUFFICES ASSUME TypeOK, SlotInv, TimestampInv, [Next]_vars PROVE TimestampInv'
  OBVIOUS
<1> USE TimestampKept DEF producerVars, BodyFrame, WorkerFrame, FillerFrame, AnnounceFrame
<1>1. ASSUME NEW r \in Replies, Transcribe(r) \/ Gate(r) \/ BeginTyped(r) \/ BeginReply(r)
      PROVE  TimestampInv'
  BY <1>1 DEF Transcribe, Gate, BeginTyped, BeginReply
<1>2. ASSUME NEW r \in Replies, \/ PutFixed(r) \/ ReadStream(r) \/ PutStreamed(r)
                                \/ PutFlushed(r) \/ CheckError(r) \/ SendError(r)
      PROVE  TimestampInv'
  BY <1>2 DEF PutFixed, ReadStream, PutStreamed, PutFlushed, CheckError, SendError
<1>3. ASSUME NEW r \in Replies, \/ NextTaskSentence(r) \/ PutTaskSentence(r) \/ SendClip(r)
                                \/ Schedule(r)
      PROVE  TimestampInv'
  BY <1>3 DEF NextTaskSentence, PutTaskSentence, SendClip, Schedule
<1>4. ASSUME NEW r \in Replies, StopFiller(r) \/ JoinFiller(r) \/ PutDone(r) \/ JoinWorker(r)
      PROVE  TimestampInv'
  BY <1>4 DEF StopFiller, JoinFiller, PutDone, JoinWorker
<1>5. ASSUME NEW r \in Replies, StartVoice(r) \/ StartTyped(r) PROVE TimestampInv'
  BY <1>5, TimestampTake DEF StartVoice, StartTyped
<1>6. ASSUME NEW r \in Replies, BeginScheduled(r) PROVE TimestampInv'
  <2>1. CASE closed
    BY <1>6, <2>1 DEF BeginScheduled
  <2>2. CASE ~closed
    BY <1>6, <2>2, TimestampTake DEF BeginScheduled
  <2>3. QED BY <2>1, <2>2
<1>7. ASSUME NEW r \in Replies, EndScheduled(r) \/ EndUtterance(r) PROVE TimestampInv'
  BY <1>7, TimestampFree DEF EndScheduled, EndUtterance
<1>8. ASSUME NEW r \in Replies, PopBarge(r) PROVE TimestampInv'
  BY <1>8, TimestampPop
<1>9. ASSUME NEW r \in Replies, SendDone(r) PROVE TimestampInv'
  <2>1. /\ UNCHANGED <<sessionVars, gen, bargeMono, barged>>
        /\ \A s \in Replies : cancelled'[s] => cancelled[s]
    BY <1>9 DEF SendDone, TypeOK, ProducerTypeOK
  <2>2. QED BY <2>1 DEF TimestampInv, CancelledIsBarged, sessionVars
<1>10. ASSUME NEW r \in Replies, Worker(r) \/ FillerThread(r) PROVE TimestampInv'
  BY <1>10 DEF Worker, Get, CheckBefore, Synthesize, SendChunk, FillerThread, Tick, PutPhrase
<1>11. CASE Announcer \/ StartGoodnight \/ StartTextResult
  BY <1>11 DEF Announcer, AnnounceClip, AnnounceDone, StartGoodnight, StartTextResult
<1>12. CASE Drain \/ PutBack \/ Ack \/ RefuseTyped \/ BargeIn \/ Disconnect \/ SendFailed
  BY <1>12 DEF Drain, PutBack, Ack, RefuseTyped, BargeIn, Disconnect, SendFailed
<1>13. CASE UNCHANGED vars
  BY <1>13 DEF vars
<1> QED
  BY <1>1, <1>2, <1>3, <1>4, <1>5, <1>6, <1>7, <1>8, <1>9, <1>10, <1>11, <1>12, <1>13,
     TimestampRelease DEF Next, Environment, LoopWork, Producer

\* A reply that was barged in on falls silent after one more frame at most, and
\* no other reply takes itself for cancelled (_tts_worker, barge_mono).
THEOREM BargedFallsSilent == Spec => []BargeInSound
<1>1. Init => SlotInv /\ StaleInv /\ TimestampInv
  BY InitSlot, InitStale, InitTimestamp
<1>2. /\ TypeOK /\ (SlotInv /\ StaleInv /\ TimestampInv) /\ [Next]_vars
      => (SlotInv /\ StaleInv /\ TimestampInv)'
  BY NextSlot, NextStale, NextTimestamp
<1>3. StaleInv /\ TimestampInv => BargeInSound
  BY DEF StaleInv, TimestampInv, BargeInSound
<1>4. QED BY <1>1, <1>2, <1>3, TypeCorrect, PTL DEF Spec
-----------------------------------------------------------------------------
(* The drained sentinel *)

\* Who puts something in a queue: the producer before its sentinel, and the filler
\* until it is joined.
Sealed(r) == /\ prod[r] \in {"joinWorker", "popBarge", "freeSlot", "endScheduled",
                             "replyDone", "ended"}
             /\ fill[r] \in {"none", "over"}

\* The sentinel is the last item of a queue nobody adds to any more, so that when the
\* drain loop meets it, it was the only item left.
SentinelInv ==
  /\ \A r \in Replies : \A i \in 1 .. Len(queue[r]) :
       queue[r][i] = Sentinel => i = Len(queue[r]) /\ Sealed(r)
  /\ loop \in {"drain", "putBack"} => draining \in Replies
  /\ loop = "putBack" => queue[draining] = <<>> /\ Sealed(draining)
  /\ \A r \in Replies : prod[r] = "putDone" => fill[r] \in {"none", "over"}
  /\ \A r \in Replies : prod[r] \in {"unused", "waiting", "taskNext", "taskPut"}
                          => fill[r] = "none"

\* What every step keeps of the two threads that add to a queue.
Steady ==
  /\ \A s \in Replies : Sealed(s) => Sealed(s)'
  /\ \A s \in Replies : prod'[s] = "putDone" => fill'[s] \in {"none", "over"}
  /\ \A s \in Replies : prod'[s] \in {"unused", "waiting", "taskNext", "taskPut"}
                          => fill'[s] = "none"

LEMMA SentinelKept ==
  ASSUME SentinelInv, Steady, UNCHANGED <<queue, loop, draining>>
  PROVE  SentinelInv'
BY DEF SentinelInv, Steady

\* A step of neither the producer nor the filler.
LEMMA SteadyOthers ==
  ASSUME SentinelInv, UNCHANGED <<prod, fill>>
  PROVE  Steady
BY DEF SentinelInv, Steady, Sealed

\* A producer that moves on: from the sealed states it only goes to sealed ones.
LEMMA SteadyGoto ==
  ASSUME TypeOK, SentinelInv, NEW r \in Replies, NEW pc \in ProducerStates, Goto(r, pc),
         UNCHANGED fill, Sealed(r) => Sealed(r)',
         pc = "putDone" => fill[r] \in {"none", "over"},
         pc \in {"unused", "waiting", "taskNext", "taskPut"} => fill[r] = "none"
  PROVE  Steady
<1>1. prod' = [prod EXCEPT ![r] = pc] /\ prod \in [Replies -> ProducerStates]
  BY DEF Goto, TypeOK, ProducerTypeOK
<1>2. QED BY <1>1 DEF Steady, Sealed, SentinelInv

\* An item goes to the end of a queue that is not sealed.
LEMMA SentinelAppend ==
  ASSUME TypeOK, SentinelInv, Steady, NEW r \in Replies, ~Sealed(r), NEW i \in Items,
         queue' = [queue EXCEPT ![r] = Append(@, i)], i = Sentinel => Sealed(r)',
         UNCHANGED <<loop, draining>>
  PROVE  SentinelInv'
<1>1. queue \in [Replies -> Seq(Items)]
  BY DEF TypeOK, WorkerTypeOK
<1>2. ASSUME NEW s \in Replies, NEW n \in 1 .. Len(queue'[s]), queue'[s][n] = Sentinel
      PROVE  n = Len(queue'[s]) /\ Sealed(s)'
  <2>1. CASE s = r
    <3>1. queue'[s] = Append(queue[r], i) /\ queue[r] \in Seq(Items)
      BY <1>1, <2>1
    <3>2. CASE n = Len(queue[r]) + 1
      BY <1>2, <2>1, <3>1, <3>2
    <3>3. CASE n \in 1 .. Len(queue[r])
      <4>1. Append(queue[r], i)[n] = queue[r][n]
        BY <3>1, <3>3
      <4>2. queue[r][n] = Sentinel
        BY <1>2, <3>1, <4>1
      <4>3. QED BY <3>3, <4>2 DEF SentinelInv
    <3>4. QED BY <1>2, <3>1, <3>2, <3>3
  <2>2. CASE s # r
    BY <1>1, <1>2, <2>2 DEF SentinelInv, Steady
  <2>3. QED BY <2>1, <2>2
<1>3. loop' = "putBack" => queue'[draining'] = <<>> /\ Sealed(draining)'
  BY <1>1 DEF SentinelInv, Steady
<1>4. QED BY <1>2, <1>3 DEF SentinelInv, Steady

\* One item less in front.
LEMMA SentinelTail ==
  ASSUME TypeOK, SentinelInv, NEW r \in Replies, queue[r] # <<>>,
         queue' = [queue EXCEPT ![r] = Tail(@)], UNCHANGED <<prod, fill>>
  PROVE  /\ \A s \in Replies : \A n \in 1 .. Len(queue'[s]) :
              queue'[s][n] = Sentinel => n = Len(queue'[s]) /\ Sealed(s)'
         /\ Head(queue[r]) = Sentinel => queue'[r] = <<>> /\ Sealed(r)'
<1>1. queue \in [Replies -> Seq(Items)]
  BY DEF TypeOK, WorkerTypeOK
<1>2. \A s \in Replies : Sealed(s)' <=> Sealed(s)
  BY DEF Sealed
<1>3. ASSUME NEW s \in Replies, NEW n \in 1 .. Len(queue'[s]), queue'[s][n] = Sentinel
      PROVE  n = Len(queue'[s]) /\ Sealed(s)'
  <2>1. CASE s = r
    <3>1. /\ queue'[s] = Tail(queue[r]) /\ queue[r] \in Seq(Items)
          /\ Len(queue'[s]) = Len(queue[r]) - 1 /\ queue'[s][n] = queue[r][n + 1]
          /\ n + 1 \in 1 .. Len(queue[r])
      BY <1>1, <1>3, <2>1
    <3>2. n + 1 = Len(queue[r]) /\ Sealed(r)
      BY <1>3, <3>1 DEF SentinelInv
    <3>3. QED BY <1>2, <2>1, <3>1, <3>2
  <2>2. CASE s # r
    BY <1>1, <1>2, <1>3, <2>2 DEF SentinelInv
  <2>3. QED BY <2>1, <2>2
<1>4. Head(queue[r]) = Sentinel => queue'[r] = <<>> /\ Sealed(r)'
  <2> SUFFICES ASSUME Head(queue[r]) = Sentinel PROVE queue'[r] = <<>> /\ Sealed(r)'
    OBVIOUS
  <2>1. queue[r] \in Seq(Items) /\ 1 \in 1 .. Len(queue[r]) /\ queue[r][1] = Sentinel
    BY <1>1
  <2>2. Len(queue[r]) = 1 /\ Sealed(r)
    BY <2>1 DEF SentinelInv
  <2>3. QED BY <1>1, <1>2, <2>2
<1>5. QED BY <1>3, <1>4

\* The drain loop stops at the sentinel, which is the last of its queue.
LEMMA SentinelDrain ==
  ASSUME TypeOK, SentinelInv, Drain
  PROVE  SentinelInv'
<1>1. draining \in Replies /\ UNCHANGED <<prod, fill, draining>>
  BY DEF SentinelInv, Drain, fillerVars
<1>2. CASE queue[draining] = <<>>
  BY <1>1, <1>2 DEF SentinelInv, Drain, Sealed
<1>3. CASE queue[draining] # <<>>
  <2>1. /\ queue' = [queue EXCEPT ![draining] = Tail(@)]
        /\ loop' = AfterDrained(Head(queue[draining]))
    BY <1>3, Zenon DEF Drain
  <2>2. loop' = "putBack" => Head(queue[draining]) = Sentinel
    BY <2>1 DEF AfterDrained
  <2>3. loop' = "putBack" => queue'[draining] = <<>> /\ Sealed(draining)'
    BY <1>1, <1>3, <2>1, <2>2, SentinelTail
  <2>4. \A s \in Replies : \A n \in 1 .. Len(queue'[s]) :
          queue'[s][n] = Sentinel => n = Len(queue'[s]) /\ Sealed(s)'
    BY <1>1, <1>3, <2>1, SentinelTail
  <2>5. QED BY <1>1, <2>3, <2>4 DEF SentinelInv
<1>4. QED BY <1>2, <1>3

\* The sentinel is put back into an empty queue.
LEMMA SentinelPutBack ==
  ASSUME TypeOK, SentinelInv, PutBack
  PROVE  SentinelInv'
<1>1. /\ queue \in [Replies -> Seq(Items)] /\ draining \in Replies
      /\ queue' = [queue EXCEPT ![draining] = Append(@, Sentinel)] /\ loop' = "ack"
      /\ queue[draining] = <<>> /\ Sealed(draining) /\ UNCHANGED <<prod, fill>>
  BY DEF PutBack, SentinelInv, TypeOK, WorkerTypeOK, fillerVars
<1>2. Len(queue'[draining]) = 1 /\ \A s \in Replies \ {draining} : queue'[s] = queue[s]
  BY <1>1
<1>3. \A s \in Replies : Sealed(s)' <=> Sealed(s)
  BY <1>1 DEF Sealed
<1>4. ASSUME NEW s \in Replies, NEW n \in 1 .. Len(queue'[s]), queue'[s][n] = Sentinel
      PROVE  n = Len(queue'[s]) /\ Sealed(s)'
  <2>1. CASE s = draining
    BY <1>1, <1>2, <1>3, <1>4, <2>1
  <2>2. CASE s # draining
    BY <1>2, <1>3, <1>4, <2>2 DEF SentinelInv
  <2>3. QED BY <2>1, <2>2
<1>5. QED BY <1>1, <1>4 DEF SentinelInv

LEMMA InitSentinel == Init => SentinelInv
BY DEF Init, SentinelInv

LEMMA NextSentinel == TypeOK /\ SentinelInv /\ [Next]_vars => SentinelInv'
<1> SUFFICES ASSUME TypeOK, SentinelInv, [Next]_vars PROVE SentinelInv'
  OBVIOUS
<1> USE DEF sessionVars, loopVars, producerVars, workerVars, fillerVars, BodyFrame, WorkerFrame,
            FillerFrame, AnnounceFrame
<1>a. /\ made \in [Replies -> Nat] /\ fill \in [Replies -> FillerStates]
      /\ prod \in [Replies -> ProducerStates]
  BY DEF TypeOK, ProducerTypeOK, WorkerTypeOK
<1>b. \A r \in Replies : Sentence(made[r] + 1) \in Items /\ Sentence(made[r] + 1) # Sentinel
  BY <1>a, ItemTypes DEF Sentence, Sentinel
<1>0. ASSUME UNCHANGED <<prod, fill, queue>>, UNCHANGED <<loop, draining>> \/ loop' \in {"idle", "ack"}
      PROVE  SentinelInv'
  BY <1>0, SteadyOthers DEF SentinelInv, Steady
<1>1. ASSUME NEW r \in Replies, Transcribe(r) PROVE SentinelInv'
  <2>1. Steady
    BY <1>1, SteadyGoto DEF Transcribe, Sealed, ProducerStates
  <2>2. QED BY <1>1, <2>1, SentinelKept DEF Transcribe
<1>2. ASSUME NEW r \in Replies, Gate(r) PROVE SentinelInv'
  <2>1. Steady
    BY <1>2, SteadyGoto DEF Gate, Sealed, ProducerStates
  <2>2. QED BY <1>2, <2>1, SentinelKept DEF Gate
<1>3. ASSUME NEW r \in Replies, BeginTyped(r) \/ BeginReply(r) PROVE SentinelInv'
  <2>1. /\ prod[r] \in {"typed", "begin"}
        /\ \E pc \in {"begin", "fixed", "popBarge", "llm", "llmPut"} :
             prod' = [prod EXCEPT ![r] = pc]
        /\ fill' = fill \/ fill' = [fill EXCEPT ![r] = "tick"]
    BY <1>3 DEF BeginTyped, BeginReply, Goto
  <2>2. Steady
    BY <1>a, <2>1 DEF Steady, Sealed, SentinelInv
  <2>3. QED BY <1>3, <2>2, SentinelKept DEF BeginTyped, BeginReply
<1>4. ASSUME NEW r \in Replies, ReadStream(r) \/ CheckError(r) \/ SendError(r)
      PROVE  SentinelInv'
  <2>1. Steady
    BY <1>4, SteadyGoto DEF ReadStream, CheckError, SendError, FinallyOf, Sealed, ProducerStates
  <2>2. QED BY <1>4, <2>1, SentinelKept DEF ReadStream, CheckError, SendError
<1>5. ASSUME NEW r \in Replies, PutFixed(r) \/ PutStreamed(r) \/ PutFlushed(r)
      PROVE  SentinelInv'
  <2>1. Steady
    BY <1>5, SteadyGoto DEF PutFixed, PutStreamed, PutFlushed, FinallyOf, Sealed, ProducerStates
  <2>2. /\ queue' = [queue EXCEPT ![r] = Append(@, Sentence(made[r] + 1))]
        /\ UNCHANGED <<loop, draining>> /\ ~Sealed(r)
    BY <1>5 DEF PutFixed, PutStreamed, PutFlushed, PutSentence, Put, Sealed
  <2>3. QED BY <1>b, <2>1, <2>2, SentinelAppend
<1>6. ASSUME NEW r \in Replies, NextTaskSentence(r) PROVE SentinelInv'
  <2>1. Steady
    BY <1>6, SteadyGoto DEF NextTaskSentence, SentinelInv, Sealed, ProducerStates
  <2>2. QED BY <1>6, <2>1, SentinelKept DEF NextTaskSentence
<1>7. ASSUME NEW r \in Replies, PutTaskSentence(r) PROVE SentinelInv'
  <2>1. Steady
    BY <1>7, SteadyGoto DEF PutTaskSentence, SentinelInv, Sealed, ProducerStates
  <2>2. /\ queue' = [queue EXCEPT ![r] = Append(@, Sentence(made[r] + 1))]
        /\ UNCHANGED <<loop, draining>> /\ ~Sealed(r)
    BY <1>7 DEF PutTaskSentence, PutSentence, Put, Sealed
  <2>3. QED BY <1>b, <2>1, <2>2, SentinelAppend
<1>8. ASSUME NEW r \in Replies, StopFiller(r) \/ JoinFiller(r) PROVE SentinelInv'
  <2>1. Steady
    BY <1>8, SteadyGoto DEF StopFiller, JoinFiller, FillerGone, Sealed, ProducerStates
  <2>2. QED BY <1>8, <2>1, SentinelKept DEF StopFiller, JoinFiller
<1>9. ASSUME NEW r \in Replies, PutDone(r) PROVE SentinelInv'
  <2>1. fill[r] \in {"none", "over"} /\ ~Sealed(r)
    BY <1>9 DEF PutDone, SentinelInv, Sealed
  <2>2. Steady /\ Sealed(r)'
    BY <1>a, <1>9, <2>1, SteadyGoto DEF PutDone, Goto, Sealed, ProducerStates
  <2>3. QED BY <1>9, <2>1, <2>2, ItemTypes, SentinelAppend DEF PutDone, Put
<1>10. ASSUME NEW r \in Replies, \/ JoinWorker(r) \/ PopBarge(r) \/ EndScheduled(r)
                                 \/ EndUtterance(r) \/ SendDone(r) \/ SendClip(r)
      PROVE  SentinelInv'
  <2>1. /\ \E pc \in {"endScheduled", "popBarge", "freeSlot", "replyDone", "ended"} :
             prod' = [prod EXCEPT ![r] = pc]
        /\ UNCHANGED <<fill, queue, loop, draining>>
    BY <1>10 DEF JoinWorker, PopBarge, EndScheduled, EndUtterance, SendDone, SendClip, Goto
  <2>2. Steady
    BY <1>a, <2>1 DEF Steady, Sealed, SentinelInv
  <2>3. QED BY <2>1, <2>2, SentinelKept
<1>11. ASSUME NEW r \in Replies, StartVoice(r) \/ StartTyped(r) PROVE SentinelInv'
  <2>1. Steady
    BY <1>11, SteadyGoto DEF StartVoice, StartTyped, IsNext, Sealed, ProducerStates
  <2>2. QED BY <1>11, <2>1, SentinelKept DEF StartVoice, StartTyped
<1>12. ASSUME NEW r \in Replies, BeginScheduled(r) PROVE SentinelInv'
  <2>1. /\ \E pc \in {"ended", "taskNext", "clip"} : prod' = [prod EXCEPT ![r] = pc]
        /\ UNCHANGED <<fill, queue, loop, draining>> /\ prod[r] = "waiting"
    BY <1>12, Zenon DEF BeginScheduled, Goto
  <2>2. Steady
    BY <1>a, <2>1 DEF Steady, Sealed, SentinelInv
  <2>3. QED BY <2>1, <2>2, SentinelKept
<1>13. ASSUME NEW r \in Replies, Schedule(r) PROVE SentinelInv'
  <2>1. Steady
    BY <1>13, SteadyGoto DEF Schedule, IsNext, SentinelInv, Sealed, ProducerStates
  <2>2. QED BY <1>13, <2>1, SentinelKept DEF Schedule
<1>14. ASSUME NEW r \in Replies, Get(r) PROVE SentinelInv'
  <2>1. \A s \in Replies : \A n \in 1 .. Len(queue'[s]) :
          queue'[s][n] = Sentinel => n = Len(queue'[s]) /\ Sealed(s)'
    BY <1>14, SentinelTail DEF Get
  <2>2. loop = "putBack" => draining # r
    BY <1>14 DEF Get, SentinelInv
  <2>3. \A s \in Replies \ {r} : queue'[s] = queue[s]
    BY <1>14 DEF Get, TypeOK, WorkerTypeOK
  <2>4. UNCHANGED <<prod, fill, loop, draining>>
    BY <1>14 DEF Get
  <2>5. QED BY <2>1, <2>2, <2>3, <2>4 DEF SentinelInv, Sealed
<1>15. ASSUME NEW r \in Replies, CheckBefore(r) \/ Synthesize(r) \/ SendChunk(r)
      PROVE  SentinelInv'
  BY <1>0, <1>15 DEF CheckBefore, Synthesize, SendChunk
<1>16. ASSUME NEW r \in Replies, Tick(r) PROVE SentinelInv'
  <2>1. Steady
    BY <1>a, <1>16 DEF Tick, Steady, SentinelInv, Sealed
  <2>2. QED BY <1>16, <2>1, SentinelKept DEF Tick
<1>17. ASSUME NEW r \in Replies, PutPhrase(r) PROVE SentinelInv'
  <2>1. Steady /\ ~Sealed(r) /\ UNCHANGED <<loop, draining>>
    BY <1>a, <1>17 DEF PutPhrase, Steady, SentinelInv, Sealed
  <2>2. CASE Put(r, Filler)
    <3>1. Filler # Sentinel
      BY DEF Filler, Sentinel
    <3>2. QED BY <2>1, <2>2, <3>1, ItemTypes, SentinelAppend DEF Put
  <2>3. CASE UNCHANGED queue
    BY <2>1, <2>3, SentinelKept
  <2>4. QED BY <1>17, <2>2, <2>3 DEF PutPhrase
<1>18. CASE Release
  <2>1. /\ UNCHANGED <<prod, fill, queue>> /\ draining' = ttsQueue
        /\ loop' = IF ttsQueue = NoReply THEN "ack" ELSE "drain"
        /\ ttsQueue \in Replies \cup {NoReply}
    BY <1>18 DEF Release, TypeOK, SessionTypeOK
  <2>2. QED BY <2>1 DEF SentinelInv, Sealed
<1>19. CASE Ack \/ RefuseTyped \/ BargeIn \/ Disconnect \/ SendFailed
  BY <1>0, <1>19 DEF Ack, RefuseTyped, BargeIn, Disconnect, SendFailed
<1>20. CASE Announcer \/ StartGoodnight \/ StartTextResult
  BY <1>0, <1>20 DEF Announcer, AnnounceClip, AnnounceDone, StartGoodnight, StartTextResult
<1>21. CASE UNCHANGED vars
  BY <1>0, <1>21 DEF vars
<1> QED
  BY <1>1, <1>2, <1>3, <1>4, <1>5, <1>6, <1>7, <1>8, <1>9, <1>10, <1>11, <1>12, <1>13, <1>14,
     <1>15, <1>16, <1>17, <1>18, <1>19, <1>20, <1>21, SentinelDrain, SentinelPutBack
     DEF Next, Environment, LoopWork, Producer, Worker, FillerThread

\* The sentinel that release() drained finds room when it is put back: no barge-in,
\* at any moment of the reply's threads, leaves the worker without it.
THEOREM SentinelFits == Spec => []SentinelRoom
<1>1. Init => SentinelInv
  BY InitSentinel
<1>2. TypeOK /\ SentinelInv /\ [Next]_vars => SentinelInv'
  BY NextSentinel
<1>3. SentinelInv => SentinelRoom
  BY DEF SentinelInv, SentinelRoom
<1>4. QED BY <1>1, <1>2, <1>3, TypeCorrect, PTL DEF Spec
-----------------------------------------------------------------------------
\* What a reply says, for any number of replies, sentences and fillers and any size of the
\* queue: all of its sentences in order before reply_done, played by the console, which
\* is back at idle when nothing is running.

(* The worker's place *)

Busy(r) == work[r] \in {"check", "synth", "send"}

\* A reply whose finally block is past the join has no worker at work; one without a
\* worker has produced nothing.
WorkerAt(r) ==
  /\ prod[r] \in {"popBarge", "freeSlot", "endScheduled", "replyDone", "ended"}
       => work[r] \in {"none", "done", "dead"}
  /\ work[r] = "none" =>
       /\ made[r] = 0 /\ queue[r] = <<>> /\ said[r] = <<>> /\ fill[r] = "none"
       /\ prod[r] \notin {"fixed", "llmPut", "flushPut", "taskNext", "taskPut", "putDone"}
       /\ prod[r] = "begin" => kind[r] # "voice"
  /\ prod[r] \in {"stt", "gate", "typed"} => work[r] = "none"
  /\ prod[r] = "typed" => kind[r] # "voice"
  /\ work[r] = "dead" => TTSMayRaise

WorkerInv ==
  /\ \A r \in Replies : WorkerAt(r)
  /\ loop = "putBack" => work[draining] # "none"

\* What a step leaves of the replies it is not about.
Others(r) == \A s \in Replies \ {r} :
  UNCHANGED <<prod[s], work[s], made[s], queue[s], said[s], fill[s], kind[s]>>

LEMMA WorkerOnly ==
  ASSUME SentinelInv, WorkerInv, NEW r \in Replies, Others(r), WorkerAt(r)',
         work'[r] = "none" => work[r] = "none", UNCHANGED <<loop, draining>>
  PROVE  WorkerInv'
<1>1. \A s \in Replies : WorkerAt(s)'
  BY DEF WorkerInv, WorkerAt, Others
<1>2. loop' = "putBack" => work'[draining'] # "none"
  BY DEF WorkerInv, Others, SentinelInv
<1> QED BY <1>1, <1>2 DEF WorkerInv

LEMMA WorkerKept ==
  ASSUME SentinelInv, WorkerInv, UNCHANGED <<prod, work, made, queue, said, fill, kind>>,
         loop' = "putBack" => loop = "putBack" /\ draining' = draining
  PROVE  WorkerInv'
BY DEF WorkerInv, WorkerAt

LEMMA InitWorker == Init => WorkerInv
BY DEF Init, WorkerInv, WorkerAt

LEMMA NextWorker == TypeOK /\ StaleInv /\ SentinelInv /\ WorkerInv /\ [Next]_vars => WorkerInv'
<1> SUFFICES ASSUME TypeOK, StaleInv, SentinelInv, WorkerInv, [Next]_vars PROVE WorkerInv'
  OBVIOUS
<1> USE DEF sessionVars, loopVars, producerVars, workerVars, fillerVars, audioHistory,
            BodyFrame, WorkerFrame, FillerFrame, AnnounceFrame
<1>a. /\ made \in [Replies -> Nat] /\ fill \in [Replies -> FillerStates]
      /\ prod \in [Replies -> ProducerStates] /\ work \in [Replies -> WorkerStates]
      /\ queue \in [Replies -> Seq(Items)] /\ said \in [Replies -> Seq(Nat)]
      /\ kind \in [Replies -> AllKinds \cup {"none"}]
  BY DEF TypeOK, ProducerTypeOK, WorkerTypeOK, HistoryTypeOK
<1>b. \A r \in Replies : WorkerAt(r)
  BY DEF WorkerInv
<1>c. \A r \in Replies : Fresh(r) => work[r] = "none"
  BY DEF StaleInv
<1>1. ASSUME NEW r \in Replies,
            Transcribe(r) \/ Gate(r) \/ BeginTyped(r) \/ BeginReply(r)
      PROVE  WorkerInv'
  <2>1. Others(r) /\ WorkerAt(r)' /\ (work'[r] = "none" => work[r] = "none")
    <3>1. CASE Transcribe(r)
      <4>1. /\ UNCHANGED <<work, made, queue, said, fill, kind>>
            /\ \A s \in Replies \ {r} : prod'[s] = prod[s]
        BY <1>a, <3>1 DEF Transcribe, Goto
      <4>2. prod[r] = "stt" /\ prod'[r] \in {"gate", "popBarge", "error"}
        BY <1>a, <3>1 DEF Transcribe, Goto
      <4>3. WorkerAt(r)'
        BY <1>b, <4>1, <4>2 DEF WorkerAt
      <4> QED BY <4>1, <4>3 DEF Others
    <3>2. CASE Gate(r)
      <4>1. /\ UNCHANGED <<made, queue, said, fill, kind>>
            /\ \A s \in Replies \ {r} : prod'[s] = prod[s] /\ work'[s] = work[s]
        BY <1>a, <3>2 DEF Gate, Goto
      <4>2. /\ prod[r] = "gate"
            /\ \/ prod'[r] = "popBarge" /\ work'[r] = work[r]
               \/ prod'[r] = "begin" /\ work'[r] = "get"
        BY <1>a, <3>2 DEF Gate, Goto
      <4>3. WorkerAt(r)' /\ (work'[r] = "none" => work[r] = "none")
        BY <1>b, <4>1, <4>2 DEF WorkerAt
      <4> QED BY <4>1, <4>3 DEF Others
    <3>3. CASE BeginTyped(r)
      BY <1>a, <1>b, <1>c, <3>3 DEF BeginTyped, Voiced, Goto, Others, WorkerAt
    <3>4. CASE BeginReply(r)
      BY <1>a, <1>b, <1>c, <3>4 DEF BeginReply, Voiced, Goto, Others, WorkerAt
    <3> QED BY <1>1, <3>1, <3>2, <3>3, <3>4
  <2> QED BY <1>1, <2>1, WorkerOnly DEF Transcribe, Gate, BeginTyped, BeginReply
<1>2. ASSUME NEW r \in Replies,
            PutFixed(r) \/ ReadStream(r) \/ PutStreamed(r) \/ PutFlushed(r)
      PROVE  WorkerInv'
  <2>1. Others(r) /\ WorkerAt(r)' /\ (work'[r] = "none" => work[r] = "none")
    <3>1. CASE PutFixed(r)
      BY <1>a, <1>b, <1>c, <3>1 DEF PutFixed, PutSentence, Put, FinallyOf, Voiced, Goto,
         Others, WorkerAt
    <3>2. CASE ReadStream(r)
      BY <1>a, <1>b, <1>c, <3>2 DEF ReadStream, PutSentence, Put, FinallyOf, Voiced, Goto,
         Others, WorkerAt
    <3>3. CASE PutStreamed(r)
      BY <1>a, <1>b, <1>c, <3>3 DEF PutStreamed, PutSentence, Put, FinallyOf, Voiced, Goto,
         Others, WorkerAt
    <3>4. CASE PutFlushed(r)
      BY <1>a, <1>b, <1>c, <3>4 DEF PutFlushed, PutSentence, Put, FinallyOf, Voiced, Goto,
         Others, WorkerAt
    <3> QED BY <1>2, <3>1, <3>2, <3>3, <3>4
  <2> QED BY <1>2, <2>1, WorkerOnly DEF PutFixed, ReadStream, PutStreamed, PutFlushed
<1>3. ASSUME NEW r \in Replies,
            CheckError(r) \/ SendError(r) \/ NextTaskSentence(r) \/ PutTaskSentence(r)
      PROVE  WorkerInv'
  <2>1. Others(r) /\ WorkerAt(r)' /\ (work'[r] = "none" => work[r] = "none")
    <3>1. CASE CheckError(r)
      BY <1>a, <1>b, <1>c, <3>1 DEF CheckError, PutSentence, Put, FinallyOf, Voiced, Goto,
         Others, WorkerAt
    <3>2. CASE SendError(r)
      BY <1>a, <1>b, <1>c, <3>2 DEF SendError, PutSentence, Put, FinallyOf, Voiced, Goto,
         Others, WorkerAt
    <3>3. CASE NextTaskSentence(r)
      BY <1>a, <1>b, <1>c, <3>3 DEF NextTaskSentence, PutSentence, Put, FinallyOf, Voiced, Goto,
         Others, WorkerAt
    <3>4. CASE PutTaskSentence(r)
      BY <1>a, <1>b, <1>c, <3>4 DEF PutTaskSentence, PutSentence, Put, FinallyOf, Voiced, Goto,
         Others, WorkerAt
    <3> QED BY <1>3, <3>1, <3>2, <3>3, <3>4
  <2> QED BY <1>3, <2>1, WorkerOnly DEF CheckError, SendError, NextTaskSentence, PutTaskSentence
<1>4. ASSUME NEW r \in Replies,
            StopFiller(r) \/ JoinFiller(r) \/ PutDone(r) \/ JoinWorker(r)
      PROVE  WorkerInv'
  <2>1. Others(r) /\ WorkerAt(r)' /\ (work'[r] = "none" => work[r] = "none")
    <3>1. CASE StopFiller(r)
      BY <1>a, <1>b, <1>c, <3>1 DEF StopFiller, Goto, Others, WorkerAt
    <3>2. CASE JoinFiller(r)
      BY <1>a, <1>b, <1>c, <3>2 DEF JoinFiller, FillerGone, Goto, Others, WorkerAt
    <3>3. CASE PutDone(r)
      BY <1>a, <1>b, <1>c, <3>3 DEF PutDone, Put, Goto, Others, WorkerAt
    <3>4. CASE JoinWorker(r)
      BY <1>a, <1>b, <1>c, <3>4 DEF JoinWorker, WorkerGone, Goto, Others, WorkerAt
    <3> QED BY <1>4, <3>1, <3>2, <3>3, <3>4
  <2> QED BY <1>4, <2>1, WorkerOnly DEF StopFiller, JoinFiller, PutDone, JoinWorker
<1>5. ASSUME NEW r \in Replies, SendClip(r)
      PROVE  WorkerInv'
  <2>1. Others(r) /\ WorkerAt(r)' /\ (work'[r] = "none" => work[r] = "none")
    BY <1>a, <1>b, <1>c, <1>5 DEF SendClip, StaleInv, Goto, Others, WorkerAt
  <2> QED BY <1>5, <2>1, WorkerOnly DEF SendClip
<1>6. ASSUME NEW r \in Replies,
            PopBarge(r) \/ EndScheduled(r) \/ EndUtterance(r) \/ SendDone(r)
      PROVE  WorkerInv'
  <2>1. Others(r) /\ WorkerAt(r)' /\ (work'[r] = "none" => work[r] = "none")
    BY <1>a, <1>b, <1>c, <1>6 DEF PopBarge, EndScheduled, EndUtterance, SendDone, Goto, Others,
       WorkerAt
  <2> QED BY <1>6, <2>1, WorkerOnly DEF PopBarge, EndScheduled, EndUtterance, SendDone
<1>7. ASSUME NEW r \in Replies, StartVoice(r) \/ StartTyped(r)
      PROVE  WorkerInv'
  <2>1. Others(r) /\ WorkerAt(r)' /\ (work'[r] = "none" => work[r] = "none")
    BY <1>a, <1>b, <1>c, <1>7 DEF StartVoice, StartTyped, IsNext, Fresh, Goto, Others, WorkerAt
  <2> QED BY <1>7, <2>1, WorkerOnly DEF StartVoice, StartTyped
<1>8. ASSUME NEW r \in Replies, Schedule(r) \/ BeginScheduled(r)
      PROVE  WorkerInv'
  <2>1. Others(r) /\ WorkerAt(r)' /\ (work'[r] = "none" => work[r] = "none")
    BY <1>a, <1>b, <1>c, <1>8 DEF Schedule, BeginScheduled, IsNext, Fresh, Goto, Others, WorkerAt
  <2> QED BY <1>8, <2>1, WorkerOnly DEF Schedule, BeginScheduled
<1>9. ASSUME NEW r \in Replies,
            Get(r) \/ CheckBefore(r) \/ Synthesize(r) \/ SendChunk(r)
      PROVE  WorkerInv'
  <2>1. Others(r) /\ WorkerAt(r)' /\ (work'[r] = "none" => work[r] = "none")
    BY <1>a, <1>b, <1>c, <1>9 DEF Get, CheckBefore, Synthesize, SendChunk, Become, BackToGet,
       Settle, Goto, Others, WorkerAt
  <2> QED BY <1>9, <2>1, WorkerOnly DEF Get, CheckBefore, Synthesize, SendChunk
<1>10. ASSUME NEW r \in Replies, Tick(r) \/ PutPhrase(r)
      PROVE  WorkerInv'
  <2>1. Others(r) /\ WorkerAt(r)' /\ (work'[r] = "none" => work[r] = "none")
    BY <1>a, <1>b, <1>c, <1>10 DEF Tick, PutPhrase, Put, Goto, Others, WorkerAt
  <2> QED BY <1>10, <2>1, WorkerOnly DEF Tick, PutPhrase
<1>11. CASE Drain
  <2>1. draining \in Replies /\ UNCHANGED <<prod, work, made, said, fill, kind, draining>>
    BY <1>11 DEF Drain, SentinelInv
  <2>2. CASE queue[draining] = <<>>
    BY <1>11, <2>2, WorkerKept DEF Drain
  <2>3. CASE queue[draining] # <<>>
    <3>1. work[draining] # "none" /\ \A s \in Replies \ {draining} : queue'[s] = queue[s]
      BY <1>a, <1>b, <1>11, <2>1, <2>3 DEF Drain, WorkerAt
    <3> QED BY <1>b, <2>1, <3>1 DEF WorkerInv, WorkerAt
  <2> QED BY <2>2, <2>3
<1>12. CASE PutBack
  <2>1. /\ UNCHANGED <<prod, work, made, said, fill, kind, draining>> /\ loop' = "ack"
        /\ \A s \in Replies \ {draining} : queue'[s] = queue[s]
    BY <1>a, <1>12 DEF PutBack
  <2>2. work[draining] # "none"
    BY <1>12 DEF PutBack, WorkerInv
  <2> QED BY <1>b, <2>1, <2>2 DEF WorkerInv, WorkerAt
<1>13. CASE Release
  BY <1>13, WorkerKept DEF Release
<1>14. CASE Ack \/ RefuseTyped \/ BargeIn \/ Disconnect \/ SendFailed
  BY <1>14, WorkerKept DEF Ack, RefuseTyped, BargeIn, Disconnect, SendFailed
<1>15. CASE Announcer \/ StartGoodnight \/ StartTextResult
  BY <1>15, WorkerKept DEF Announcer, AnnounceClip, AnnounceDone, StartGoodnight, StartTextResult
<1>16. CASE UNCHANGED vars
  BY <1>16, WorkerKept DEF vars
<1> QED
  BY <1>1, <1>2, <1>3, <1>4, <1>5, <1>6, <1>7, <1>8, <1>9, <1>10, <1>11, <1>12, <1>13, <1>14,
     <1>15, <1>16
     DEF Next, Environment, LoopWork, Producer, Worker, FillerThread

(* Who is answered for *)

\* A reply that gave the slot back as the current one was not barged in on; the
\* session's queue is the slot holder's, and the queue that is drained belongs to a
\* reply that was barged in on.
CurrentInv ==
  /\ \A r \in Replies : isCurrent[r] => prod[r] = "replyDone" /\ r \notin barged
  /\ ttsQueue # NoReply => Owns(ttsQueue)
  /\ draining # NoReply => draining \in barged

\* The reply whose generation is current is in the slot.
LEMMA CurrentInside ==
  ASSUME TypeOK, SlotInv, TimestampInv, NEW r \in Replies, gen[r] > 0, gen[r] = generation
  PROVE  InSlot(r) /\ Owns(r) /\ r \notin barged
<1>1. PICK t \in Replies : InSlot(t) /\ Owns(t)
  BY DEF TimestampInv, SlotInv, SlotOwner
<1>2. t = r
  BY <1>1 DEF SlotInv, Owns
<1>3. generation \in Nat
  BY DEF TypeOK, SessionTypeOK
<1> QED BY <1>1, <1>2, <1>3 DEF SlotInv, Owns

LEMMA CurrentKept ==
  ASSUME CurrentInv, UNCHANGED <<sessionVars, gen, draining, barged>>,
         \A s \in Replies : isCurrent'[s] => isCurrent[s] /\ prod'[s] = prod[s]
  PROVE  CurrentInv'
BY DEF CurrentInv, sessionVars, Owns

LEMMA CurrentTake ==
  ASSUME TypeOK, SlotInv, CurrentInv, NEW r \in Replies, Fresh(r), TakeSlot(r),
         NEW pc \in ProducerStates, Goto(r, pc), UNCHANGED <<isCurrent, draining, barged>>
  PROVE  CurrentInv'
<1>1. /\ prod' = [prod EXCEPT ![r] = pc] /\ prod \in [Replies -> ProducerStates]
      /\ gen' = [gen EXCEPT ![r] = generation + 1] /\ gen \in [Replies -> Nat]
      /\ generation' = generation + 1 /\ replyActive' = TRUE /\ ttsQueue' = r
  BY DEF Goto, TakeSlot, TypeOK, ProducerTypeOK
<1>2. Owns(ttsQueue)'
  BY <1>1 DEF Owns
<1>3. \A s \in Replies : isCurrent'[s] => prod'[s] = "replyDone"
  BY <1>1 DEF CurrentInv, Fresh
<1> QED BY <1>2, <1>3 DEF CurrentInv

LEMMA CurrentFree ==
  ASSUME TypeOK, SlotInv, TimestampInv, CurrentInv, NEW r \in Replies, InSlot(r), FreeSlot(r),
         Goto(r, "replyDone"), UNCHANGED <<gen, draining, barged>>
  PROVE  CurrentInv'
<1>1. /\ prod' = [prod EXCEPT ![r] = "replyDone"] /\ prod \in [Replies -> ProducerStates]
      /\ isCurrent \in [Replies -> BOOLEAN] /\ isCurrent' = [isCurrent EXCEPT ![r] = IsCurrent(r)]
  BY DEF Goto, FreeSlot, TypeOK, ProducerTypeOK
<1>2. \A s \in Replies \ {r} : isCurrent'[s] = isCurrent[s] /\ prod'[s] = prod[s]
  BY <1>1
<1>3. prod'[r] = "replyDone" /\ (isCurrent'[r] => gen[r] = generation)
  <2>1. isCurrent'[r] = IsCurrent(r) /\ prod'[r] = "replyDone"
    BY <1>1
  <2> QED BY <2>1 DEF IsCurrent
<1>4. isCurrent'[r] => r \notin barged
  BY <1>3, CurrentInside DEF SlotInv
<1>5. \A s \in Replies : isCurrent'[s] => prod'[s] = "replyDone" /\ s \notin barged
  BY <1>2, <1>3, <1>4 DEF CurrentInv
<1>6. ttsQueue' # NoReply => Owns(ttsQueue)'
  <2>1. CASE IsCurrent(r)
    BY <2>1, Zenon DEF FreeSlot
  <2>2. CASE ~IsCurrent(r)
    <3>1. UNCHANGED sessionVars
      BY <2>2, Zenon DEF FreeSlot
    <3> QED BY <3>1 DEF CurrentInv, Owns, sessionVars
  <2> QED BY <2>1, <2>2
<1> QED BY <1>5, <1>6 DEF CurrentInv

LEMMA CurrentRelease ==
  ASSUME TypeOK, SlotInv, TimestampInv, CurrentInv, Release
  PROVE  CurrentInv'
<1>1. /\ ttsQueue' = NoReply /\ draining' = ttsQueue /\ UNCHANGED <<isCurrent, prod, gen>>
      /\ barged' = barged \cup {s \in Replies : Owns(s)}
      /\ ttsQueue \in Replies \cup {NoReply} /\ barged \subseteq Replies
  BY DEF Release, producerVars, TypeOK, SessionTypeOK, HistoryTypeOK
<1>2. \A s \in Replies : Owns(s) => InSlot(s)
  <2> SUFFICES ASSUME NEW s \in Replies, Owns(s) PROVE InSlot(s)
    OBVIOUS
  <2>1. PICK t \in Replies : InSlot(t) /\ Owns(t)
    BY DEF SlotInv, SlotOwner, Owns
  <2>2. gen[t] > 0 /\ gen[t] = gen[s]
    BY <2>1 DEF SlotInv, Owns
  <2> QED BY <2>1, <2>2 DEF SlotInv
<1>3. \A s \in Replies : isCurrent'[s] => prod'[s] = "replyDone" /\ s \notin barged'
  BY <1>1, <1>2 DEF CurrentInv, InSlot, OutOfSlot
<1> QED BY <1>1, <1>3 DEF CurrentInv

LEMMA InitCurrent == Init => CurrentInv
BY DEF Init, CurrentInv

LEMMA NextCurrent == TypeOK /\ SlotInv /\ TimestampInv /\ CurrentInv /\ [Next]_vars => CurrentInv'
<1> SUFFICES ASSUME TypeOK, SlotInv, TimestampInv, CurrentInv, [Next]_vars PROVE CurrentInv'
  OBVIOUS
<1> USE DEF loopVars, producerVars, workerVars, fillerVars, BodyFrame, WorkerFrame, FillerFrame,
            AnnounceFrame
<1>a. prod \in [Replies -> ProducerStates] /\ isCurrent \in [Replies -> BOOLEAN]
  BY DEF TypeOK, ProducerTypeOK
<1>0. ASSUME UNCHANGED <<sessionVars, gen, draining, barged, prod, isCurrent>> PROVE CurrentInv'
  BY <1>0, CurrentKept
<1>1. ASSUME NEW r \in Replies, prod[r] # "replyDone", NEW pc \in ProducerStates, Goto(r, pc),
             UNCHANGED <<sessionVars, gen, draining, barged, isCurrent>>
      PROVE  CurrentInv'
  <2>1. \A s \in Replies : isCurrent'[s] => isCurrent[s] /\ prod'[s] = prod[s]
    BY <1>a, <1>1 DEF Goto, CurrentInv
  <2> QED BY <1>1, <2>1, CurrentKept
<1>2. ASSUME NEW r \in Replies, \/ Transcribe(r) \/ Gate(r) \/ BeginTyped(r) \/ BeginReply(r)
                                \/ NextTaskSentence(r) \/ PutTaskSentence(r) \/ SendClip(r)
                                \/ StopFiller(r) \/ JoinFiller(r) \/ PutDone(r) \/ JoinWorker(r)
                                \/ PopBarge(r) \/ Schedule(r)
      PROVE  CurrentInv'
  BY <1>1, <1>2 DEF Transcribe, Gate, BeginTyped, BeginReply, NextTaskSentence, PutTaskSentence,
     SendClip, StopFiller, JoinFiller, PutDone, JoinWorker, PopBarge, Schedule, IsNext,
     ProducerStates
<1>3. ASSUME NEW r \in Replies, \/ PutFixed(r) \/ ReadStream(r) \/ PutStreamed(r)
                                \/ PutFlushed(r) \/ CheckError(r) \/ SendError(r)
      PROVE  CurrentInv'
  BY <1>1, <1>3 DEF PutFixed, ReadStream, PutStreamed, PutFlushed, CheckError, SendError,
     FinallyOf, ProducerStates
<1>4. ASSUME NEW r \in Replies, StartVoice(r) PROVE CurrentInv'
  BY <1>4, CurrentTake DEF StartVoice, IsNext, Fresh, ProducerStates
<1>5. ASSUME NEW r \in Replies, StartTyped(r) PROVE CurrentInv'
  BY <1>5, CurrentTake DEF StartTyped, IsNext, Fresh, ProducerStates
<1>6. ASSUME NEW r \in Replies, BeginScheduled(r) PROVE CurrentInv'
  <2>1. CASE closed
    BY <1>1, <1>6, <2>1 DEF BeginScheduled, ProducerStates
  <2>2. CASE ~closed
    BY <1>6, <2>2, CurrentTake DEF BeginScheduled, Fresh, ProducerStates
  <2> QED BY <2>1, <2>2
<1>7. ASSUME NEW r \in Replies, EndScheduled(r) PROVE CurrentInv'
  BY <1>7, CurrentFree DEF EndScheduled, InSlot, OutOfSlot
<1>8. ASSUME NEW r \in Replies, EndUtterance(r) PROVE CurrentInv'
  BY <1>8, CurrentFree DEF EndUtterance, InSlot, OutOfSlot
<1>9. ASSUME NEW r \in Replies, SendDone(r) PROVE CurrentInv'
  <2>1. \A s \in Replies : isCurrent'[s] => isCurrent[s] /\ prod'[s] = prod[s]
    BY <1>a, <1>9 DEF SendDone, Goto
  <2> QED BY <1>9, <2>1, CurrentKept DEF SendDone
<1>10. ASSUME NEW r \in Replies, Worker(r) \/ FillerThread(r) PROVE CurrentInv'
  BY <1>0, <1>10 DEF Worker, Get, CheckBefore, Synthesize, SendChunk, FillerThread, Tick, PutPhrase
<1>11. CASE Announcer \/ StartGoodnight \/ StartTextResult
  BY <1>0, <1>11 DEF Announcer, AnnounceClip, AnnounceDone, StartGoodnight, StartTextResult
<1>12. CASE Drain \/ PutBack \/ RefuseTyped \/ BargeIn \/ Disconnect \/ SendFailed
  BY <1>0, <1>12 DEF Drain, PutBack, RefuseTyped, BargeIn, Disconnect, SendFailed
<1>13. CASE Ack
  BY <1>13 DEF Ack, CurrentInv, Owns, sessionVars
<1>14. CASE UNCHANGED vars
  BY <1>0, <1>14 DEF vars
<1> QED
  BY CurrentRelease, <1>2, <1>3, <1>4, <1>5, <1>6, <1>7, <1>8, <1>9, <1>10, <1>11, <1>12,
     <1>13, <1>14 DEF Next, Environment, LoopWork, Producer

(* The sentences of an answer *)

LEMMA ItemFacts ==
  /\ Filler # Sentinel
  /\ \A n \in Nat : Sentence(n) \notin {Filler, Sentinel} /\ Sentence(n)[2] = n
  /\ \A m, n \in Nat : Sentence(m) = Sentence(n) => m = n
BY DEF Sentence, Filler, Sentinel

\* The sentences in q, among fillers and the sentinel, are lo + 1 .. hi, in order.
InOrder(q, lo, hi) ==
  /\ lo <= hi
  /\ \A i \in 1 .. Len(q) :
       q[i] \in {Filler, Sentinel} \/ \E n \in lo + 1 .. hi : q[i] = Sentence(n)
  /\ \A n \in lo + 1 .. hi : \E i \in 1 .. Len(q) : q[i] = Sentence(n)
  /\ \A i, j \in 1 .. Len(q) : \A m, n \in lo + 1 .. hi :
       i < j /\ q[i] = Sentence(m) /\ q[j] = Sentence(n) => m < n

LEMMA InOrderEmpty ==
  ASSUME NEW lo \in Nat, NEW hi \in Nat
  PROVE  InOrder(<<>>, lo, hi) <=> lo = hi
BY DEF InOrder

\* One more sentence behind the others,
LEMMA InOrderSentence ==
  ASSUME NEW q \in Seq(Items), NEW lo \in Nat, NEW hi \in Nat, InOrder(q, lo, hi)
  PROVE  InOrder(Append(q, Sentence(hi + 1)), lo, hi + 1)
<1> DEFINE p == Append(q, Sentence(hi + 1))
<1>1. /\ p \in Seq(Items \cup {Sentence(hi + 1)}) /\ Len(p) = Len(q) + 1 /\ Len(q) \in Nat
      /\ \A i \in 1 .. Len(q) : p[i] = q[i]
      /\ p[Len(q) + 1] = Sentence(hi + 1)
  OBVIOUS
<1> HIDE DEF p
<1>2. lo <= hi + 1
  BY DEF InOrder
<1>3. ASSUME NEW i \in 1 .. Len(p)
      PROVE  p[i] \in {Filler, Sentinel} \/ \E n \in lo + 1 .. hi + 1 : p[i] = Sentence(n)
  <2>1. CASE i \in 1 .. Len(q)
    BY <1>1, <2>1 DEF InOrder
  <2>2. CASE i = Len(q) + 1
    BY <1>1, <2>2 DEF InOrder
  <2> QED BY <1>1, <2>1, <2>2
<1>4. ASSUME NEW n \in lo + 1 .. hi + 1
      PROVE  \E i \in 1 .. Len(p) : p[i] = Sentence(n)
  <2>1. CASE n \in lo + 1 .. hi
    <3>1. PICK i \in 1 .. Len(q) : q[i] = Sentence(n)
      BY <2>1 DEF InOrder
    <3> QED BY <1>1, <3>1
  <2>2. CASE n = hi + 1
    BY <1>1, <2>2
  <2> QED BY <2>1, <2>2
<1>5. ASSUME NEW i \in 1 .. Len(p), NEW j \in 1 .. Len(p), NEW m \in lo + 1 .. hi + 1,
             NEW n \in lo + 1 .. hi + 1, i < j, p[i] = Sentence(m), p[j] = Sentence(n)
      PROVE  m < n
  <2>1. i \in 1 .. Len(q) /\ p[i] = q[i]
    BY <1>1, <1>5
  <2>2. m \in lo + 1 .. hi
    <3>1. m \in Nat /\ q[i] = Sentence(m)
      BY <1>5, <2>1
    <3>2. q[i] \notin {Filler, Sentinel}
      BY <3>1, ItemFacts
    <3>3. PICK k \in lo + 1 .. hi : q[i] = Sentence(k)
      BY <2>1, <3>2 DEF InOrder
    <3>4. k = m
      <4>1. k \in Nat /\ Sentence(k) = Sentence(m)
        BY <3>1, <3>3
      <4> QED BY <3>1, <4>1, ItemFacts
    <3> QED BY <3>3, <3>4
  <2>3. CASE j \in 1 .. Len(q)
    <3>1. n \in Nat /\ q[j] = Sentence(n)
      BY <1>1, <1>5, <2>3
    <3>2. q[j] \notin {Filler, Sentinel}
      BY <3>1, ItemFacts
    <3>3. PICK k \in lo + 1 .. hi : q[j] = Sentence(k)
      BY <2>3, <3>2 DEF InOrder
    <3>4. k = n
      <4>1. k \in Nat /\ Sentence(k) = Sentence(n)
        BY <3>1, <3>3
      <4> QED BY <3>1, <4>1, ItemFacts
    <3> QED BY <1>5, <2>1, <2>2, <2>3, <3>1, <3>3, <3>4 DEF InOrder
  <2>4. CASE j = Len(q) + 1
    <3>1. n = hi + 1
      BY <1>1, <1>5, <2>4, ItemFacts
    <3> QED BY <2>2, <3>1
  <2> QED BY <1>1, <2>3, <2>4
<1> QED BY <1>2, <1>3, <1>4, <1>5 DEF InOrder, p

\* or something else,
LEMMA InOrderOther ==
  ASSUME NEW q \in Seq(Items), NEW lo \in Nat, NEW hi \in Nat, InOrder(q, lo, hi),
         NEW x \in {Filler, Sentinel}
  PROVE  InOrder(Append(q, x), lo, hi)
<1> DEFINE p == Append(q, x)
<1>1. /\ Len(p) = Len(q) + 1 /\ Len(q) \in Nat
      /\ \A i \in 1 .. Len(q) : p[i] = q[i]
      /\ p[Len(q) + 1] = x
  BY ItemTypes
<1> HIDE DEF p
<1>2. \A i \in 1 .. Len(p) : \A n \in lo + 1 .. hi : p[i] = Sentence(n) => i \in 1 .. Len(q)
  BY <1>1, ItemFacts
<1>3. ASSUME NEW i \in 1 .. Len(p)
      PROVE  p[i] \in {Filler, Sentinel} \/ \E n \in lo + 1 .. hi : p[i] = Sentence(n)
  <2>1. CASE i \in 1 .. Len(q)
    BY <1>1, <2>1 DEF InOrder
  <2>2. CASE i = Len(q) + 1
    BY <1>1, <2>2
  <2> QED BY <1>1, <2>1, <2>2
<1>4. ASSUME NEW n \in lo + 1 .. hi
      PROVE  \E i \in 1 .. Len(p) : p[i] = Sentence(n)
  <2>1. PICK i \in 1 .. Len(q) : q[i] = Sentence(n)
    BY DEF InOrder
  <2> QED BY <1>1, <2>1
<1>5. ASSUME NEW i \in 1 .. Len(p), NEW j \in 1 .. Len(p), NEW m \in lo + 1 .. hi,
             NEW n \in lo + 1 .. hi, i < j, p[i] = Sentence(m), p[j] = Sentence(n)
      PROVE  m < n
  <2>1. i \in 1 .. Len(q) /\ j \in 1 .. Len(q)
    BY <1>2, <1>5
  <2> QED BY <1>1, <1>5, <2>1 DEF InOrder
<1> QED BY <1>3, <1>4, <1>5 DEF InOrder, p

\* and one item less in front: the first sentence is the next one.
LEMMA InOrderTail ==
  ASSUME NEW q \in Seq(Items), q # <<>>, NEW lo \in Nat, NEW hi \in Nat, InOrder(q, lo, hi)
  PROVE  \/ Head(q) \in {Filler, Sentinel} /\ InOrder(Tail(q), lo, hi)
         \/ Head(q) = Sentence(lo + 1) /\ InOrder(Tail(q), lo + 1, hi)
<1> DEFINE p == Tail(q)
<1>1. /\ Len(p) = Len(q) - 1 /\ Len(q) \in Nat \ {0} /\ Head(q) = q[1]
      /\ \A i \in 1 .. Len(p) : i + 1 \in 1 .. Len(q) /\ p[i] = q[i + 1]
  OBVIOUS
<1> HIDE DEF p
<1>2. ASSUME NEW i \in 1 .. Len(p), NEW j \in 1 .. Len(p), NEW m \in lo + 1 .. hi,
             NEW n \in lo + 1 .. hi, i < j, p[i] = Sentence(m), p[j] = Sentence(n)
      PROVE  m < n
  <2>1. /\ i + 1 \in 1 .. Len(q) /\ j + 1 \in 1 .. Len(q) /\ i + 1 < j + 1
        /\ q[i + 1] = Sentence(m) /\ q[j + 1] = Sentence(n)
    BY <1>1, <1>2
  <2> QED BY <2>1 DEF InOrder
<1>3. ASSUME NEW n \in lo + 1 .. hi, q[1] # Sentence(n)
      PROVE  \E i \in 1 .. Len(p) : p[i] = Sentence(n)
  <2>1. PICK k \in 1 .. Len(q) : q[k] = Sentence(n)
    BY DEF InOrder
  <2>2. k # 1
    BY <1>3, <2>1
  <2>3. k - 1 \in 1 .. Len(p) /\ k = (k - 1) + 1
    BY <1>1, <2>2
  <2>4. p[k - 1] = q[k]
    BY <1>1, <2>3
  <2> QED BY <2>1, <2>3, <2>4
<1>4. CASE q[1] \in {Filler, Sentinel}
  <2>1. \A n \in lo + 1 .. hi : q[1] # Sentence(n)
    BY <1>4, ItemFacts
  <2>2. \A i \in 1 .. Len(p) :
          p[i] \in {Filler, Sentinel} \/ \E n \in lo + 1 .. hi : p[i] = Sentence(n)
    BY <1>1 DEF InOrder
  <2>3. \A n \in lo + 1 .. hi : \E i \in 1 .. Len(p) : p[i] = Sentence(n)
    BY <1>3, <2>1
  <2>4. InOrder(p, lo, hi)
    BY <1>2, <2>2, <2>3 DEF InOrder
  <2> QED BY <1>1, <1>4, <2>4 DEF p
<1>5. ASSUME NEW f \in lo + 1 .. hi, q[1] = Sentence(f)
      PROVE  Head(q) = Sentence(lo + 1) /\ InOrder(Tail(q), lo + 1, hi)
  <2>1. \A k \in 2 .. Len(q) : \A n \in lo + 1 .. hi : q[k] = Sentence(n) => f < n
    BY <1>1, <1>5 DEF InOrder
  <2>2. f = lo + 1
    <3> SUFFICES ASSUME f # lo + 1 PROVE FALSE
      OBVIOUS
    <3>1. lo + 1 \in lo + 1 .. hi
      BY DEF InOrder
    <3>2. PICK k \in 1 .. Len(q) : q[k] = Sentence(lo + 1)
      BY <3>1 DEF InOrder
    <3>3. k # 1
      BY <1>5, <3>2, ItemFacts
    <3>4. k \in 2 .. Len(q)
      BY <1>1, <3>3
    <3>5. f < lo + 1
      BY <2>1, <3>1, <3>2, <3>4
    <3> QED BY <3>5
  <2>3. ASSUME NEW i \in 1 .. Len(p)
        PROVE  p[i] \in {Filler, Sentinel} \/ \E n \in (lo + 1) + 1 .. hi : p[i] = Sentence(n)
    <3>1. i + 1 \in 2 .. Len(q) /\ i + 1 \in 1 .. Len(q) /\ p[i] = q[i + 1]
      BY <1>1
    <3>2. CASE q[i + 1] \in {Filler, Sentinel}
      BY <3>1, <3>2
    <3>3. CASE \E n \in lo + 1 .. hi : q[i + 1] = Sentence(n)
      <4>1. PICK n \in lo + 1 .. hi : q[i + 1] = Sentence(n)
        BY <3>3
      <4>2. f < n
        BY <2>1, <3>1, <4>1
      <4> QED BY <2>2, <3>1, <4>1, <4>2
    <3> QED BY <3>1, <3>2, <3>3 DEF InOrder
  <2>4. ASSUME NEW n \in (lo + 1) + 1 .. hi
        PROVE  \E i \in 1 .. Len(p) : p[i] = Sentence(n)
    <3>1. n \in lo + 1 .. hi /\ q[1] # Sentence(n)
      BY <1>5, <2>2, ItemFacts
    <3> QED BY <1>3, <3>1
  <2>5. InOrder(p, lo + 1, hi)
    BY <1>2, <2>2, <2>3, <2>4 DEF InOrder
  <2> QED BY <1>1, <1>5, <2>2, <2>5 DEF p
<1>6. q[1] \in {Filler, Sentinel} \/ \E n \in lo + 1 .. hi : q[1] = Sentence(n)
  BY <1>1 DEF InOrder
<1> QED BY <1>4, <1>5, <1>6 DEF p

(* The reply that is answered for *)

\* A sentence in the worker's hand.
InHand(r) == IF Busy(r) /\ item[r] # Filler THEN 1 ELSE 0

\* The reply whose reply_done will be sent as things stand.
Answering(r) == /\ ~TTSMayRaise /\ ~closed
                /\ \/ gen[r] > 0 /\ gen[r] = generation
                   \/ isCurrent[r]

\* What it produced was said, is in the worker's hand or in the queue, in order.
Accounted(r) ==
  /\ \A n \in 1 .. Len(said[r]) : said[r][n] = n
  /\ Busy(r) => item[r] \in {Filler, Sentence(Len(said[r]) + 1)}
  /\ InOrder(queue[r], Len(said[r]) + InHand(r), made[r])
  /\ work[r] = "done" => queue[r] = <<>> /\ Sealed(r)

CompleteInv == \A r \in Replies : Answering(r) => Accounted(r)

\* What a step leaves of the replies it is not about.
Apart(r) == \A s \in Replies \ {r} :
  UNCHANGED <<said[s], made[s], queue[s], work[s], item[s], prod[s], fill[s]>>

LEMMA AccountedKept ==
  ASSUME NEW s \in Replies, Accounted(s), Sealed(s) => Sealed(s)',
         UNCHANGED <<said[s], made[s], queue[s], work[s], item[s]>>
  PROVE  Accounted(s)'
<1>1. InHand(s)' = InHand(s) /\ (Busy(s)' <=> Busy(s))
  BY DEF InHand, Busy
<1> QED BY <1>1 DEF Accounted, InOrder

LEMMA CompleteOnly ==
  ASSUME CompleteInv, NEW r \in Replies, Apart(r),
         \A s \in Replies \ {r} : Answering(s)' => Answering(s),
         Answering(r)' => Accounted(r)'
  PROVE  CompleteInv'
<1> SUFFICES ASSUME NEW s \in Replies \ {r}, Answering(s)' PROVE Accounted(s)'
  BY DEF CompleteInv
<1>1. Accounted(s)
  BY DEF CompleteInv
<1>2. Sealed(s) => Sealed(s)'
  BY DEF Apart, Sealed
<1> QED BY <1>1, <1>2, AccountedKept DEF Apart

\* A step that only moves the two threads that add to a queue.
LEMMA CompleteSteady ==
  ASSUME CompleteInv, UNCHANGED <<said, made, queue, workerVars>>,
         \A s \in Replies : Sealed(s) => Sealed(s)',
         \A s \in Replies : Answering(s)' => Answering(s)
  PROVE  CompleteInv'
<1> SUFFICES ASSUME NEW s \in Replies, Answering(s)' PROVE Accounted(s)'
  BY DEF CompleteInv
<1>1. Accounted(s)
  BY DEF CompleteInv
<1>2. UNCHANGED <<said[s], made[s], queue[s], work[s], item[s]>>
  BY DEF workerVars
<1> QED BY <1>1, <1>2, AccountedKept

LEMMA CompleteGoto ==
  ASSUME TypeOK, CompleteInv, NEW r \in Replies, NEW pc \in ProducerStates, Goto(r, pc),
         UNCHANGED <<said, made, queue, workerVars, fill>>,
         \A s \in Replies : Answering(s)' => Answering(s),
         Sealed(r) => Sealed(r)'
  PROVE  CompleteInv'
<1>1. prod' = [prod EXCEPT ![r] = pc] /\ prod \in [Replies -> ProducerStates]
  BY DEF Goto, TypeOK, ProducerTypeOK
<1>2. \A s \in Replies : Sealed(s) => Sealed(s)'
  BY <1>1 DEF Sealed
<1> QED BY <1>2, CompleteSteady

\* A reply that takes the slot has produced nothing yet.
LEMMA CompleteTake ==
  ASSUME TypeOK, SlotInv, WorkerInv, CompleteInv, NEW r \in Replies, Fresh(r), TakeSlot(r),
         work[r] = "none", work'[r] \in {"none", "get"}, Apart(r),
         UNCHANGED <<said, made, queue, closed, isCurrent>>
  PROVE  CompleteInv'
<1>1. /\ gen' = [gen EXCEPT ![r] = generation + 1] /\ gen \in [Replies -> Nat]
      /\ generation' = generation + 1 /\ generation \in Nat
  BY DEF TakeSlot, TypeOK, ProducerTypeOK, SessionTypeOK
<1>2. \A s \in Replies \ {r} : gen'[s] = gen[s] /\ gen[s] <= generation
  BY <1>1 DEF SlotInv
<1>3. \A s \in Replies \ {r} : Answering(s)' => Answering(s)
  BY <1>1, <1>2 DEF Answering
<1>4. Accounted(r)'
  <2>1. made'[r] = 0 /\ queue'[r] = <<>> /\ said'[r] = <<>>
    BY DEF WorkerInv, WorkerAt
  <2>2. InHand(r)' = 0 /\ ~Busy(r)'
    BY DEF InHand, Busy
  <2>3. InOrder(<<>>, 0, 0)
    BY InOrderEmpty
  <2>4. InOrder(queue[r], Len(said[r]) + InHand(r), made[r])'
    BY <2>1, <2>2, <2>3 DEF InOrder
  <2> QED BY <2>1, <2>2, <2>4 DEF Accounted
<1> QED BY <1>3, <1>4, CompleteOnly

\* A reply that gives it back answers if it was the current one.
LEMMA CompleteFree ==
  ASSUME TypeOK, SlotInv, CompleteInv, NEW r \in Replies, InSlot(r), FreeSlot(r),
         Goto(r, "replyDone"), UNCHANGED <<said, made, queue, workerVars, fill, closed, gen>>
  PROVE  CompleteInv'
<1>1. /\ gen \in [Replies -> Nat] /\ generation \in Nat /\ isCurrent \in [Replies -> BOOLEAN]
      /\ isCurrent' = [isCurrent EXCEPT ![r] = IsCurrent(r)]
  BY DEF FreeSlot, TypeOK, ProducerTypeOK, SessionTypeOK
<1>2. generation' \in {generation, generation + 1}
  BY DEF FreeSlot, sessionVars
<1>3. \A s \in Replies : gen[s] <= generation
  BY DEF SlotInv
<1>4. \A s \in Replies : gen'[s] = generation' => gen[s] = generation
  BY <1>1, <1>2, <1>3
<1>5. \A s \in Replies \ {r} : isCurrent'[s] = isCurrent[s]
  BY <1>1
<1>6. isCurrent'[r] => gen[r] > 0 /\ gen[r] = generation
  <2>1. isCurrent'[r] = IsCurrent(r)
    BY <1>1
  <2> QED BY <2>1 DEF IsCurrent, SlotInv
<1>7. \A s \in Replies : Answering(s)' => Answering(s)
  BY <1>4, <1>5, <1>6 DEF Answering
<1>8. Sealed(r) => Sealed(r)'
  BY DEF Sealed, Goto, TypeOK, ProducerTypeOK
<1> QED BY <1>7, <1>8, CompleteGoto DEF ProducerStates

\* The reply whose worker is at work is the current one, if it answers.
LEMMA BusyAnswering ==
  ASSUME WorkerInv, CurrentInv, NEW r \in Replies, Busy(r), Answering(r)
  PROVE  Alive(r)
<1>1. prod[r] # "replyDone"
  BY DEF WorkerInv, WorkerAt, Busy
<1>2. ~isCurrent[r]
  BY <1>1 DEF CurrentInv
<1> QED BY <1>2 DEF Answering, Alive

\* A sentence goes to the end of the queue,
LEMMA CompleteSentence ==
  ASSUME TypeOK, CompleteInv, NEW r \in Replies, ~Sealed(r), PutSentence(r), Apart(r),
         UNCHANGED <<said, workerVars>>, \A s \in Replies : Answering(s)' => Answering(s)
  PROVE  CompleteInv'
<1>1. /\ queue \in [Replies -> Seq(Items)] /\ made \in [Replies -> Nat]
      /\ said \in [Replies -> Seq(Nat)] /\ UNCHANGED <<work, item>>
      /\ queue' = [queue EXCEPT ![r] = Append(@, Sentence(made[r] + 1))]
      /\ made' = [made EXCEPT ![r] = @ + 1]
  BY DEF TypeOK, WorkerTypeOK, ProducerTypeOK, HistoryTypeOK, PutSentence, Put, workerVars
<1>2. ASSUME Accounted(r) PROVE Accounted(r)'
  <2>1. work[r] # "done"
    BY <1>2 DEF Accounted
  <2>2. InHand(r)' = InHand(r) /\ InHand(r) \in Nat /\ (Busy(r)' <=> Busy(r))
    BY <1>1 DEF InHand, Busy
  <2>3. queue'[r] = Append(queue[r], Sentence(made[r] + 1)) /\ made'[r] = made[r] + 1
    BY <1>1
  <2>4. Len(said[r]) + InHand(r) \in Nat /\ queue[r] \in Seq(Items) /\ made[r] \in Nat
    BY <1>1, <2>2
  <2>5. InOrder(queue'[r], Len(said[r]) + InHand(r), made'[r])
    BY <1>2, <2>3, <2>4, InOrderSentence DEF Accounted
  <2>6. InOrder(queue'[r], Len(said'[r]) + InHand(r)', made'[r])
    BY <2>2, <2>5
  <2>7. InOrder(queue[r], Len(said[r]) + InHand(r), made[r])'
    BY <2>6 DEF InOrder
  <2> QED BY <1>1, <1>2, <2>1, <2>2, <2>7 DEF Accounted
<1> QED BY <1>2, CompleteOnly DEF CompleteInv

\* and so do the sentinel and a filler phrase.
LEMMA CompleteOther ==
  ASSUME TypeOK, CompleteInv, NEW r \in Replies, ~Sealed(r), NEW x \in {Filler, Sentinel},
         queue' = [queue EXCEPT ![r] = Append(@, x)], Apart(r),
         UNCHANGED <<said, made, workerVars>>, \A s \in Replies : Answering(s)' => Answering(s)
  PROVE  CompleteInv'
<1>1. /\ queue \in [Replies -> Seq(Items)] /\ made \in [Replies -> Nat]
      /\ said \in [Replies -> Seq(Nat)] /\ UNCHANGED <<work, item>>
  BY DEF TypeOK, WorkerTypeOK, ProducerTypeOK, HistoryTypeOK, workerVars
<1>2. ASSUME Accounted(r) PROVE Accounted(r)'
  <2>1. work[r] # "done"
    BY <1>2 DEF Accounted
  <2>2. InHand(r)' = InHand(r) /\ InHand(r) \in Nat /\ (Busy(r)' <=> Busy(r))
    BY <1>1 DEF InHand, Busy
  <2>3. queue'[r] = Append(queue[r], x)
    BY <1>1
  <2>4. Len(said[r]) + InHand(r) \in Nat /\ queue[r] \in Seq(Items) /\ made[r] \in Nat
    BY <1>1, <2>2
  <2>5. InOrder(queue'[r], Len(said[r]) + InHand(r), made[r])
    BY <1>2, <2>3, <2>4, InOrderOther DEF Accounted
  <2>6. InOrder(queue'[r], Len(said'[r]) + InHand(r)', made'[r])
    BY <2>2, <2>5
  <2>7. InOrder(queue[r], Len(said[r]) + InHand(r), made[r])'
    BY <2>6 DEF InOrder
  <2> QED BY <1>1, <1>2, <2>1, <2>2, <2>7 DEF Accounted
<1> QED BY <1>2, CompleteOnly DEF CompleteInv

\* The worker takes the first item,
LEMMA CompleteGet ==
  ASSUME TypeOK, SentinelInv, NEW r \in Replies, Accounted(r), Get(r)
  PROVE  Accounted(r)'
<1>1. /\ queue \in [Replies -> Seq(Items)] /\ made \in [Replies -> Nat]
      /\ work \in [Replies -> WorkerStates] /\ item \in [Replies -> Items]
      /\ said \in [Replies -> Seq(Nat)] /\ UNCHANGED <<said, made, prod, fill>>
      /\ queue[r] # <<>> /\ work[r] = "get" /\ queue' = [queue EXCEPT ![r] = Tail(@)]
      /\ item' = [item EXCEPT ![r] = Head(queue[r])]
      /\ work' = [work EXCEPT ![r] = IF Head(queue[r]) = Sentinel THEN "done" ELSE "check"]
  BY DEF TypeOK, WorkerTypeOK, ProducerTypeOK, HistoryTypeOK, Get, Become, WorkerFrame,
         producerVars, fillerVars
<1> DEFINE n == Len(said[r])
<1>2. /\ queue'[r] = Tail(queue[r]) /\ item'[r] = Head(queue[r]) /\ n \in Nat
      /\ work'[r] = IF Head(queue[r]) = Sentinel THEN "done" ELSE "check"
      /\ queue[r] \in Seq(Items) /\ made[r] \in Nat /\ made'[r] = made[r] /\ said'[r] = said[r]
  BY <1>1
<1>3. InOrder(queue[r], n, made[r])
  <2>1. InHand(r) = 0
    BY <1>1 DEF InHand, Busy
  <2> QED BY <1>2, <2>1 DEF Accounted
<1>4. \/ Head(queue[r]) \in {Filler, Sentinel} /\ InOrder(Tail(queue[r]), n, made[r])
      \/ Head(queue[r]) = Sentence(n + 1) /\ InOrder(Tail(queue[r]), n + 1, made[r])
  BY <1>1, <1>2, <1>3, InOrderTail
<1>5. Head(queue[r]) = Sentinel => queue'[r] = <<>> /\ Sealed(r)'
  BY <1>1, SentinelTail
<1>6. work'[r] = "done" => queue'[r] = <<>> /\ Sealed(r)'
  BY <1>2, <1>5
<1>7. Busy(r)' => item'[r] \in {Filler, Sentence(n + 1)}
  BY <1>2, <1>4 DEF Busy
<1>8. Sentence(n + 1) \notin {Filler, Sentinel}
  BY <1>2, ItemFacts
<1>9. InHand(r)' = IF Head(queue[r]) \in {Filler, Sentinel} THEN 0 ELSE 1
  BY <1>2 DEF InHand, Busy
<1>10. InOrder(queue[r], Len(said[r]) + InHand(r), made[r])'
  <2>1. CASE Head(queue[r]) \in {Filler, Sentinel}
    <3>1. InHand(r)' = 0 /\ InOrder(Tail(queue[r]), n, made[r])
      BY <1>4, <1>8, <1>9, <2>1
    <3>2. Len(said'[r]) + InHand(r)' = n
      BY <1>2, <3>1
    <3>3. InOrder(queue'[r], Len(said'[r]) + InHand(r)', made'[r])
      BY <1>2, <3>1, <3>2
    <3> QED BY <3>3 DEF InOrder
  <2>2. CASE Head(queue[r]) = Sentence(n + 1)
    <3>1. InHand(r)' = 1 /\ InOrder(Tail(queue[r]), n + 1, made[r])
      BY <1>4, <1>8, <1>9, <2>2
    <3>2. Len(said'[r]) + InHand(r)' = n + 1
      BY <1>2, <3>1
    <3>3. InOrder(queue'[r], Len(said'[r]) + InHand(r)', made'[r])
      BY <1>2, <3>1, <3>2
    <3> QED BY <3>3 DEF InOrder
  <2> QED BY <1>4, <2>1, <2>2
<1>11. \A k \in 1 .. Len(said'[r]) : said'[r][k] = k
  BY <1>2 DEF Accounted
<1> QED BY <1>2, <1>6, <1>7, <1>10, <1>11 DEF Accounted

\* and has dealt with it.
LEMMA CompleteSettle ==
  ASSUME TypeOK, NEW r \in Replies, Accounted(r), Busy(r), Alive(r), Settle(r), BackToGet(r),
         UNCHANGED <<queue, made>>
  PROVE  Accounted(r)'
<1>1. /\ work \in [Replies -> WorkerStates] /\ item \in [Replies -> Items]
      /\ said \in [Replies -> Seq(Nat)] /\ work' = [work EXCEPT ![r] = "get"]
  BY DEF TypeOK, WorkerTypeOK, HistoryTypeOK, BackToGet, Become
<1> DEFINE n == Len(said[r])
<1>2. work'[r] = "get" /\ ~Busy(r)' /\ InHand(r)' = 0 /\ n \in Nat /\ said[r] \in Seq(Nat)
  BY <1>1 DEF Busy, InHand
<1>3. CASE item[r] = Filler
  <2>1. InHand(r) = 0 /\ said' = said
    BY <1>3 DEF InHand, Settle
  <2>2. InOrder(queue[r], Len(said[r]) + InHand(r), made[r])'
    BY <1>2, <2>1 DEF Accounted, InOrder
  <2> QED BY <1>2, <2>1, <2>2 DEF Accounted
<1>4. CASE item[r] # Filler
  <2>1. item[r] = Sentence(n + 1) /\ InHand(r) = 1
    BY <1>4 DEF InHand, Accounted
  <2>2. item[r][2] = n + 1
    BY <1>2, <2>1, ItemFacts
  <2>3. said' = [said EXCEPT ![r] = Append(@, n + 1)]
    BY <1>4, <2>2 DEF Settle
  <2>4. said'[r] = Append(said[r], n + 1)
    BY <1>1, <2>3
  <2>5. Len(said'[r]) = n + 1 /\ \A k \in 1 .. n : said'[r][k] = said[r][k]
    BY <1>2, <2>4
  <2>6. said'[r][n + 1] = n + 1
    <3>1. \A q \in Seq(Nat) : \A k \in Nat : Append(q, k)[Len(q) + 1] = k
      OBVIOUS
    <3> QED BY <1>2, <2>4, <3>1
  <2>7. \A k \in 1 .. Len(said'[r]) : said'[r][k] = k
    <3>1. \A k \in 1 .. n : said'[r][k] = k
      BY <2>5 DEF Accounted
    <3>2. \A k \in 1 .. n + 1 : k \in 1 .. n \/ k = n + 1
      BY <1>2
    <3> HIDE DEF n
    <3> QED BY <2>5, <2>6, <3>1, <3>2
  <2>8. InOrder(queue[r], n + 1, made[r])
    BY <2>1 DEF Accounted
  <2>9. InOrder(queue[r], Len(said[r]) + InHand(r), made[r])'
    BY <1>2, <2>5, <2>8 DEF InOrder
  <2> QED BY <1>2, <2>7, <2>9 DEF Accounted
<1> QED BY <1>3, <1>4

LEMMA InitComplete == Init => CompleteInv
BY DEF Init, CompleteInv, Answering

LEMMA NextComplete ==
  TypeOK /\ SlotInv /\ TimestampInv /\ SentinelInv /\ StaleInv /\ WorkerInv /\ CurrentInv
    /\ CompleteInv /\ [Next]_vars => CompleteInv'
<1> SUFFICES ASSUME TypeOK, SlotInv, TimestampInv, SentinelInv, StaleInv, WorkerInv, CurrentInv,
                    CompleteInv, [Next]_vars
             PROVE  CompleteInv'
  OBVIOUS
<1> USE DEF loopVars, producerVars, workerVars, fillerVars, BodyFrame, WorkerFrame, FillerFrame,
            AnnounceFrame
<1>a. /\ prod \in [Replies -> ProducerStates] /\ fill \in [Replies -> FillerStates]
      /\ work \in [Replies -> WorkerStates] /\ item \in [Replies -> Items]
      /\ queue \in [Replies -> Seq(Items)] /\ made \in [Replies -> Nat]
      /\ said \in [Replies -> Seq(Nat)] /\ isCurrent \in [Replies -> BOOLEAN]
      /\ gen \in [Replies -> Nat] /\ generation \in Nat
  BY DEF TypeOK, ProducerTypeOK, WorkerTypeOK, HistoryTypeOK, SessionTypeOK
<1>b. UNCHANGED <<sessionVars, gen, closed, isCurrent>>
        => \A s \in Replies : Answering(s)' => Answering(s)
  BY DEF Answering, sessionVars
<1>c. (\A s \in Replies : UNCHANGED <<prod[s], fill[s]>>)
        => \A s \in Replies : Sealed(s) => Sealed(s)'
  BY DEF Sealed
<1>d. \A s \in Replies : Fresh(s) => work[s] = "none"
  BY DEF StaleInv
<1>1. ASSUME NEW r \in Replies, ~Sealed(r), NEW pc \in ProducerStates, Goto(r, pc),
             UNCHANGED <<said, made, queue, workerVars, fill, sessionVars, gen, closed, isCurrent>>
      PROVE  CompleteInv'
  BY <1>b, <1>1, CompleteGoto
<1>2. ASSUME NEW r \in Replies, \/ ReadStream(r) \/ CheckError(r) \/ SendError(r)
                                \/ Schedule(r) \/ NextTaskSentence(r) \/ SendClip(r)
                                \/ StopFiller(r) \/ JoinFiller(r)
      PROVE  CompleteInv'
  BY <1>1, <1>2 DEF ReadStream, CheckError, SendError, Schedule, IsNext, NextTaskSentence,
     SendClip, StopFiller, JoinFiller, Sealed, FinallyOf, ProducerStates
<1>3. ASSUME NEW r \in Replies, Transcribe(r) \/ Gate(r) \/ BeginTyped(r) PROVE CompleteInv'
  <2>1. Apart(r) /\ work[r] = "none"
    BY <1>a, <1>3 DEF Apart, Transcribe, Gate, BeginTyped, Goto, WorkerInv, WorkerAt
  <2>2. \A s \in Replies : Answering(s)' => Answering(s)
    BY <1>b, <1>3 DEF Transcribe, Gate, BeginTyped
  <2>3. ASSUME Accounted(r) PROVE Accounted(r)'
    <3>1. /\ UNCHANGED <<said, made, queue>> /\ work'[r] \in {"none", "get"}
          /\ made[r] = 0 /\ queue[r] = <<>> /\ said[r] = <<>>
      BY <1>a, <1>3, <2>1 DEF Transcribe, Gate, BeginTyped, WorkerInv, WorkerAt
    <3>2. InHand(r)' = 0 /\ ~Busy(r)'
      BY <3>1 DEF InHand, Busy
    <3>3. InOrder(<<>>, 0, 0)
      BY InOrderEmpty
    <3>4. InOrder(queue[r], Len(said[r]) + InHand(r), made[r])'
      BY <3>1, <3>2, <3>3 DEF InOrder
    <3> QED BY <3>1, <3>2, <3>4 DEF Accounted
  <2> QED BY <2>1, <2>2, <2>3, CompleteOnly DEF CompleteInv
<1>4. ASSUME NEW r \in Replies, BeginReply(r) PROVE CompleteInv'
  <2>1. \A s \in Replies : Sealed(s) => Sealed(s)'
    BY <1>a, <1>4 DEF BeginReply, Goto, Sealed
  <2> QED BY <1>b, <1>4, <2>1, CompleteSteady DEF BeginReply
<1>5. ASSUME NEW r \in Replies, \/ PutFixed(r) \/ PutStreamed(r) \/ PutFlushed(r)
                                \/ PutTaskSentence(r)
      PROVE  CompleteInv'
  <2>1. ~Sealed(r) /\ PutSentence(r) /\ UNCHANGED <<said, workerVars>>
    BY <1>5 DEF PutFixed, PutStreamed, PutFlushed, PutTaskSentence, Sealed
  <2>2. Apart(r)
    BY <1>a, <1>5 DEF Apart, PutFixed, PutStreamed, PutFlushed, PutTaskSentence, PutSentence, Put,
       Goto
  <2>3. \A s \in Replies : Answering(s)' => Answering(s)
    BY <1>b, <1>5 DEF PutFixed, PutStreamed, PutFlushed, PutTaskSentence
  <2> QED BY <2>1, <2>2, <2>3, CompleteSentence
<1>6. ASSUME NEW r \in Replies, PutDone(r) PROVE CompleteInv'
  <2>1. ~Sealed(r) /\ queue' = [queue EXCEPT ![r] = Append(@, Sentinel)]
    BY <1>6 DEF PutDone, Put, Sealed
  <2>2. Apart(r)
    BY <1>a, <1>6 DEF Apart, PutDone, Put, Goto
  <2>3. \A s \in Replies : Answering(s)' => Answering(s)
    BY <1>b, <1>6 DEF PutDone
  <2> QED BY <1>6, <2>1, <2>2, <2>3, CompleteOther DEF PutDone
<1>7. ASSUME NEW r \in Replies, JoinWorker(r) \/ PopBarge(r) PROVE CompleteInv'
  <2>1. \A s \in Replies : Sealed(s) => Sealed(s)'
    BY <1>a, <1>7 DEF JoinWorker, PopBarge, Goto, Sealed
  <2>2. \A s \in Replies : Answering(s)' => Answering(s)
    BY <1>b, <1>7 DEF JoinWorker, PopBarge
  <2> QED BY <1>7, <2>1, <2>2, CompleteSteady DEF JoinWorker, PopBarge
<1>8. ASSUME NEW r \in Replies, EndScheduled(r) \/ EndUtterance(r) PROVE CompleteInv'
  <2>1. prod[r] \in {"endScheduled", "freeSlot"}
    BY <1>8 DEF EndScheduled, EndUtterance
  <2>2. InSlot(r)
    BY <2>1 DEF InSlot, OutOfSlot
  <2> QED BY <1>8, <2>2, CompleteFree DEF EndScheduled, EndUtterance
<1>9. ASSUME NEW r \in Replies, SendDone(r) PROVE CompleteInv'
  <2>1. Apart(r)
    BY <1>a, <1>9 DEF Apart, SendDone, Goto
  <2>2. /\ UNCHANGED <<sessionVars, gen, closed>> /\ isCurrent'[r] = FALSE
        /\ \A s \in Replies \ {r} : isCurrent'[s] = isCurrent[s]
    BY <1>a, <1>9 DEF SendDone
  <2>3. ~(gen[r] > 0 /\ gen[r] = generation)
    BY <1>9, CurrentInside DEF SendDone, InSlot, OutOfSlot
  <2>4. ~Answering(r)'
    BY <2>2, <2>3 DEF Answering, sessionVars
  <2>5. \A s \in Replies \ {r} : Answering(s)' => Answering(s)
    BY <2>2 DEF Answering, sessionVars
  <2> QED BY <2>1, <2>4, <2>5, CompleteOnly
<1>10. ASSUME NEW r \in Replies, StartVoice(r) \/ StartTyped(r) PROVE CompleteInv'
  <2>1. Fresh(r) /\ Apart(r) /\ work[r] = "none" /\ work'[r] = "none"
    BY <1>a, <1>d, <1>10 DEF Apart, StartVoice, StartTyped, IsNext, Fresh, Goto
  <2> QED BY <1>10, <2>1, CompleteTake DEF StartVoice, StartTyped
<1>11. ASSUME NEW r \in Replies, BeginScheduled(r) PROVE CompleteInv'
  <2>1. CASE closed
    <3>1. closed' /\ \A s \in Replies : ~Answering(s)'
      BY <1>11, <2>1 DEF BeginScheduled, Answering
    <3> QED BY <3>1 DEF CompleteInv
  <2>2. CASE ~closed
    <3>1. Fresh(r) /\ Apart(r) /\ work[r] = "none" /\ work'[r] \in {"none", "get"}
      BY <1>a, <1>d, <1>11 DEF Apart, BeginScheduled, Fresh, Goto
    <3> QED BY <1>11, <2>2, <3>1, CompleteTake DEF BeginScheduled
  <2> QED BY <2>1, <2>2
<1>12. ASSUME NEW r \in Replies, Get(r) PROVE CompleteInv'
  <2>1. Apart(r)
    BY <1>a, <1>12 DEF Apart, Get, Become
  <2>2. \A s \in Replies : Answering(s)' => Answering(s)
    BY <1>b, <1>12 DEF Get
  <2> QED BY <1>12, <2>1, <2>2, CompleteGet, CompleteOnly DEF CompleteInv
<1>13. ASSUME NEW r \in Replies, CheckBefore(r) \/ Synthesize(r) \/ SendChunk(r)
       PROVE  CompleteInv'
  <2>1. Apart(r)
    BY <1>a, <1>13 DEF Apart, CheckBefore, Synthesize, SendChunk, Settle, BackToGet, Become
  <2>2. \A s \in Replies : Answering(s)' => Answering(s)
    BY <1>b, <1>13 DEF CheckBefore, Synthesize, SendChunk
  <2>3. ASSUME Answering(r), Accounted(r) PROVE Accounted(r)'
    <3>1. Busy(r) /\ Alive(r) /\ ~TTSMayRaise
      BY <1>13, <2>3, BusyAnswering DEF CheckBefore, Synthesize, SendChunk, Busy, Answering
    <3>2. UNCHANGED <<queue, made, prod, fill>>
      BY <1>13 DEF CheckBefore, Synthesize, SendChunk
    <3>3. CASE Settle(r) /\ BackToGet(r)
      BY <2>3, <3>1, <3>2, <3>3, CompleteSettle
    <3>4. CASE UNCHANGED <<said, item>> /\ work'[r] \in {"synth", "send"}
      <4>1. Busy(r)' /\ InHand(r)' = InHand(r)
        BY <3>1, <3>4 DEF Busy, InHand
      <4>2. InOrder(queue'[r], Len(said'[r]) + InHand(r)', made'[r])
        BY <2>3, <3>2, <3>4, <4>1 DEF Accounted
      <4>3. InOrder(queue[r], Len(said[r]) + InHand(r), made[r])'
        BY <4>2 DEF InOrder
      <4> QED BY <2>3, <3>1, <3>2, <3>4, <4>1, <4>3 DEF Accounted
    <3> QED BY <1>a, <1>13, <3>1, <3>3, <3>4 DEF CheckBefore, Synthesize, SendChunk, Become
  <2> QED BY <2>1, <2>2, <2>3, CompleteOnly DEF CompleteInv
<1>14. ASSUME NEW r \in Replies, Tick(r) PROVE CompleteInv'
  <2>1. \A s \in Replies : Sealed(s) => Sealed(s)'
    BY <1>a, <1>14 DEF Tick, Sealed
  <2> QED BY <1>b, <1>14, <2>1, CompleteSteady DEF Tick
<1>15. ASSUME NEW r \in Replies, PutPhrase(r) PROVE CompleteInv'
  <2>1. ~Sealed(r) /\ Apart(r) /\ \A s \in Replies : Sealed(s) => Sealed(s)'
    BY <1>a, <1>15 DEF PutPhrase, Put, Apart, Sealed
  <2>2. \A s \in Replies : Answering(s)' => Answering(s)
    BY <1>b, <1>15 DEF PutPhrase
  <2>3. CASE Put(r, Filler)
    BY <1>15, <2>1, <2>2, <2>3, CompleteOther DEF PutPhrase, Put
  <2>4. CASE UNCHANGED queue
    BY <1>15, <2>1, <2>2, <2>4, CompleteSteady DEF PutPhrase
  <2> QED BY <1>15, <2>3, <2>4 DEF PutPhrase
<1>16. CASE Release
  <2>1. UNCHANGED <<said, made, queue, work, item, prod, fill, closed, isCurrent, gen>>
    BY <1>16 DEF Release
  <2>2. \A s \in Replies : gen'[s] # generation'
    BY <1>a, <1>16, <2>1 DEF Release, SlotInv
  <2>3. \A s \in Replies : Answering(s)' => Answering(s)
    BY <2>1, <2>2 DEF Answering
  <2> QED BY <1>c, <2>1, <2>3, CompleteSteady
<1>17. CASE Drain \/ PutBack
  <2>1. draining \in Replies /\ UNCHANGED <<said, made, work, item, prod, fill>>
    BY <1>17 DEF Drain, PutBack, SentinelInv
  <2>2. \A s \in Replies \ {draining} : queue'[s] = queue[s]
    BY <1>a, <1>17 DEF Drain, PutBack
  <2>3. Apart(draining)
    BY <2>1, <2>2 DEF Apart
  <2>4. ~Answering(draining)
    <3>1. draining \in barged
      BY <2>1 DEF CurrentInv, NoReply, Replies
    <3> QED BY <1>a, <2>1, <3>1 DEF CurrentInv, SlotInv, Answering
  <2>5. \A s \in Replies : Answering(s)' => Answering(s)
    BY <1>b, <1>17 DEF Drain, PutBack
  <2> QED BY <2>1, <2>3, <2>4, <2>5, CompleteOnly
<1>18. CASE Disconnect \/ SendFailed
  BY <1>18 DEF Disconnect, SendFailed, CompleteInv, Answering
<1>19. CASE Ack \/ RefuseTyped \/ BargeIn
  BY <1>b, <1>c, <1>19, CompleteSteady DEF Ack, RefuseTyped, BargeIn
<1>20. CASE Announcer \/ StartGoodnight \/ StartTextResult
  BY <1>b, <1>c, <1>20, CompleteSteady
     DEF Announcer, AnnounceClip, AnnounceDone, StartGoodnight, StartTextResult
<1>21. CASE UNCHANGED vars
  BY <1>b, <1>c, <1>21, CompleteSteady DEF vars
<1> QED
  BY <1>2, <1>3, <1>4, <1>5, <1>6, <1>7, <1>8, <1>9, <1>10, <1>11, <1>12, <1>13, <1>14,
     <1>15, <1>16, <1>17, <1>18, <1>19, <1>20, <1>21
     DEF Next, Environment, LoopWork, Producer, Worker, FillerThread

\* What is in nobody's hand and not in the queue was said.
LEMMA DoneIsComplete ==
  ASSUME TypeOK, SlotInv, WorkerInv, CompleteInv, NEW r \in Replies, SendDone(r),
         ~TTSMayRaise, ~closed, isCurrent[r]
  PROVE  said[r] = [n \in 1 .. made[r] |-> n]
<1>1. Accounted(r)
  BY DEF CompleteInv, Answering
<1>2. said[r] \in Seq(Nat) /\ made[r] \in Nat
  BY DEF TypeOK, ProducerTypeOK, HistoryTypeOK
<1>3. work[r] \in {"none", "done"}
  BY DEF SendDone, WorkerInv, WorkerAt
<1>4. queue[r] = <<>>
  BY <1>1, <1>3 DEF WorkerInv, WorkerAt, Accounted
<1>5. InHand(r) = 0
  BY <1>3 DEF InHand, Busy
<1>6. InOrder(<<>>, Len(said[r]), made[r])
  BY <1>1, <1>2, <1>4, <1>5 DEF Accounted
<1>7. Len(said[r]) = made[r]
  BY <1>2, <1>6, InOrderEmpty
<1>8. \A n \in 1 .. made[r] : said[r][n] = n
  BY <1>1, <1>7 DEF Accounted
<1>9. said[r] \in [1 .. made[r] -> Nat]
  <2>1. \A q \in Seq(Nat) : q \in [1 .. Len(q) -> Nat]
    OBVIOUS
  <2> QED BY <1>2, <1>7, <2>1
<1> QED BY <1>8, <1>9

\* A reply that is answered for is complete: for any number of sentences, any size of the
\* queue and any barge-in, reply_done follows what the reply produced, said in order.
THEOREM DoneMeansSaid == Spec => CompleteBeforeDone
<1> DEFINE Inv == /\ TypeOK /\ SlotInv /\ TimestampInv /\ SentinelInv /\ StaleInv
                  /\ WorkerInv /\ CurrentInv /\ CompleteInv
           Complete == ~TTSMayRaise =>
             \A r \in finished' \ finished : said[r] = [n \in 1 .. made[r] |-> n]
<1>1. Init => SlotInv /\ TimestampInv /\ SentinelInv /\ StaleInv /\ WorkerInv /\ CurrentInv
              /\ CompleteInv
  BY InitSlot, InitTimestamp, InitSentinel, InitStale, InitWorker, InitCurrent, InitComplete
<1>2. Inv /\ [Next]_vars
        => (SlotInv /\ TimestampInv /\ SentinelInv /\ StaleInv /\ WorkerInv /\ CurrentInv
            /\ CompleteInv)'
  BY NextSlot, NextTimestamp, NextSentinel, NextStale, NextWorker, NextCurrent, NextComplete
<1>3. Inv /\ [Next]_vars => [Complete]_vars
  <2> SUFFICES ASSUME Inv, [Next]_vars, ~TTSMayRaise, NEW r \in finished' \ finished
               PROVE  said[r] = [n \in 1 .. made[r] |-> n]
    OBVIOUS
  <2>1. r \in Replies /\ SendDone(r) /\ isCurrent[r] /\ ~closed
    <3>1. ASSUME UNCHANGED finished PROVE FALSE
      BY <3>1
    <3>2. ASSUME NEW s \in Replies, SendDone(s) PROVE s = r /\ isCurrent[s] /\ ~closed
      BY <3>2 DEF SendDone, SendReplyDone
    <3>3. ASSUME NEW s \in Replies, Producer(s) PROVE SendDone(s)
      BY <3>1, <3>3 DEF Producer, Transcribe, Gate, BeginTyped, BeginReply, PutFixed, ReadStream,
         PutStreamed, PutFlushed, CheckError, SendError, BeginScheduled, NextTaskSentence,
         PutTaskSentence, SendClip, EndScheduled, StopFiller, JoinFiller, PutDone, JoinWorker,
         PopBarge, EndUtterance, BodyFrame
    <3>4. ASSUME NEW s \in Replies, Worker(s) \/ FillerThread(s) PROVE FALSE
      BY <3>1, <3>4 DEF Worker, Get, CheckBefore, Synthesize, SendChunk, FillerThread, Tick,
         PutPhrase, WorkerFrame, FillerFrame
    <3>5. ASSUME Announcer \/ LoopWork PROVE FALSE
      BY <3>1, <3>5 DEF Announcer, AnnounceClip, AnnounceDone, SendReplyDone, LoopWork, Release,
         Drain, PutBack, Ack
    <3>6. ASSUME Environment PROVE FALSE
      BY <3>1, <3>6 DEF Environment, StartVoice, StartTyped, Schedule, BodyFrame, RefuseTyped,
         BargeIn, Disconnect, SendFailed, StartGoodnight, StartTextResult
    <3> QED BY <3>1, <3>2, <3>3, <3>4, <3>5, <3>6 DEF Next, vars
  <2> QED BY <2>1, DoneIsComplete
<1>4. ([][Complete]_vars) <=> CompleteBeforeDone
  BY DEF CompleteBeforeDone
<1> HIDE DEF Complete
<1>5. Spec => [][Complete]_vars
  BY <1>1, <1>2, <1>3, TypeCorrect, PTL DEF Spec
<1> QED BY <1>4, <1>5
-----------------------------------------------------------------------------
(* What the console plays *)

\* A reply the user started, in the slot, is played unless a barge-in is under way: its
\* `end` frame lifted the drop, and no barge_ack is on its way.
Heard(r) == InSlot(r) /\ Owns(r) /\ kind[r] \notin Scheduled =>
              loop = "idle" /\ (closed \/ ~client.drop \/ bargePending)

DropInv ==
  /\ FreshAudioPlayed
  /\ \A r \in Replies : Fresh(r) => muted[r] = 0
  /\ \A r \in Replies : prod[r] = "waiting" => kind[r] \in Scheduled
  /\ \A r \in Replies : prod[r] = "clip" => kind[r] = "reminder"
  /\ \A r \in Replies : Heard(r)

\* Only a barge_ack makes the console drop audio.
LEMMA SendDrop ==
  ASSUME client \in ClientStates, NEW f \in Frames \ {"barge_ack"}, Send(f)
  PROVE  client'.drop => client.drop
BY DEF Send, OnFrame, ClientStates, Frames

\* A step of a reply that keeps its kind and takes no slot.
LEMMA DropKept ==
  ASSUME DropInv, UNCHANGED <<muted, kind, closed, loop, bargePending>>,
         client'.drop => client.drop,
         \A s \in Replies : Owns(s)' => Owns(s),
         \A s \in Replies : (Fresh(s)' => Fresh(s)) /\ (InSlot(s)' => InSlot(s)),
         \A s \in Replies : prod'[s] \in {"waiting", "clip"} => prod'[s] = prod[s]
  PROVE  DropInv'
<1>1. \A s \in Replies : Heard(s)'
  BY DEF DropInv, Heard
<1> QED BY <1>1 DEF DropInv, FreshAudioPlayed

LEMMA DropGoto ==
  ASSUME TypeOK, DropInv, UNCHANGED <<muted, kind, closed, loop, bargePending>>,
         client'.drop => client.drop, \A s \in Replies : Owns(s)' => Owns(s),
         NEW r \in Replies, ~Fresh(r), NEW pc \in ProducerStates \ {"unused", "waiting", "clip"},
         InSlot(r) \/ pc \in OutOfSlot, Goto(r, pc)
  PROVE  DropInv'
<1>1. prod' = [prod EXCEPT ![r] = pc] /\ prod \in [Replies -> ProducerStates]
  BY DEF Goto, TypeOK, ProducerTypeOK
<1>2. \A s \in Replies : (Fresh(s)' => Fresh(s)) /\ (InSlot(s)' => InSlot(s))
  BY <1>1 DEF Fresh, InSlot
<1>3. \A s \in Replies : prod'[s] \in {"waiting", "clip"} => prod'[s] = prod[s]
  BY <1>1
<1> QED BY <1>2, <1>3, DropKept

\* The reply that takes the slot is the only one to own it.
LEMMA TakeOwns ==
  ASSUME TypeOK, SlotInv, NEW r \in Replies, TakeSlot(r)
  PROVE  \A s \in Replies \ {r} : ~Owns(s)'
<1>1. /\ gen' = [gen EXCEPT ![r] = generation + 1] /\ gen \in [Replies -> Nat]
      /\ generation' = generation + 1 /\ generation \in Nat
  BY DEF TakeSlot, TypeOK, ProducerTypeOK, SessionTypeOK
<1>2. \A s \in Replies \ {r} : gen'[s] = gen[s] /\ gen[s] <= generation
  BY <1>1 DEF SlotInv
<1> QED BY <1>1, <1>2 DEF Owns

LEMMA FreeOwns ==
  ASSUME NEW r \in Replies, FreeSlot(r), UNCHANGED gen
  PROVE  \A s \in Replies : Owns(s)' => Owns(s)
<1>1. CASE IsCurrent(r)
  BY <1>1, Zenon DEF FreeSlot, Owns
<1>2. CASE ~IsCurrent(r)
  <2>1. UNCHANGED sessionVars
    BY <1>2, Zenon DEF FreeSlot
  <2> QED BY <2>1 DEF Owns, sessionVars
<1> QED BY <1>1, <1>2

\* A worker at work belongs to a reply in the slot.
LEMMA BusyInside ==
  ASSUME TypeOK, StaleInv, WorkerInv, NEW r \in Replies, Busy(r)
  PROVE  InSlot(r)
BY DEF StaleInv, WorkerInv, WorkerAt, Busy, InSlot, OutOfSlot, Fresh

\* What the worker sends for a living reply is played.
LEMMA DropSend ==
  ASSUME TypeOK, SlotInv, TimestampInv, DropInv, NEW r \in Replies, InSlot(r),
         kind[r] \notin Scheduled, SendAudio(r)
  PROVE  muted' = muted
<1>1. closed \/ generation # gen[r] \/ ~client.drop \/ bargePending \/ loop # "idle"
  BY CurrentInside DEF DropInv, Heard, SlotInv
<1> QED BY <1>1 DEF SendAudio

LEMMA DropAudio ==
  ASSUME TypeOK, SlotInv, TimestampInv, DropInv, NEW r \in Replies, InSlot(r), SendAudio(r)
  PROVE  /\ client'.drop => client.drop
         /\ \A s \in Replies : kind[s] \notin Scheduled => muted'[s] = 0
         /\ \A s \in Replies : Fresh(s) => muted'[s] = 0
<1>1. client \in ClientStates /\ muted \in [Replies -> Nat]
  BY DEF TypeOK, ConsoleTypeOK, HistoryTypeOK
<1>2. client'.drop => client.drop
  BY <1>1, SendDrop DEF SendAudio, Frames
<1>3. \A s \in Replies \ {r} : muted'[s] = muted[s]
  BY <1>1 DEF SendAudio
<1>4. kind[r] \notin Scheduled => muted'[r] = muted[r]
  BY DropSend
<1>5. ~Fresh(r)
  BY DEF Fresh, InSlot, OutOfSlot
<1> QED BY <1>2, <1>3, <1>4, <1>5 DEF DropInv, FreshAudioPlayed

LEMMA InitDrop == Init => DropInv
BY DEF Init, DropInv, FreshAudioPlayed, Heard, InSlot, OutOfSlot

LEMMA NextDrop ==
  TypeOK /\ SlotInv /\ TimestampInv /\ StaleInv /\ WorkerInv /\ DropInv /\ [Next]_vars => DropInv'
<1> SUFFICES ASSUME TypeOK, SlotInv, TimestampInv, StaleInv, WorkerInv, DropInv, [Next]_vars
             PROVE  DropInv'
  OBVIOUS
<1> USE DEF sessionVars, loopVars, producerVars, workerVars, fillerVars, audioHistory, buttonVars,
            announceVars, BodyFrame, WorkerFrame, FillerFrame, AnnounceFrame
<1>a. /\ prod \in [Replies -> ProducerStates] /\ client \in ClientStates
      /\ kind \in [Replies -> AllKinds \cup {"none"}]
  BY DEF TypeOK, ProducerTypeOK, ConsoleTypeOK
<1>b. UNCHANGED <<sessionVars, gen>> => \A s \in Replies : Owns(s)' => Owns(s)
  BY DEF Owns
<1>c. UNCHANGED client => (client'.drop => client.drop)
  OBVIOUS
<1>d. UNCHANGED prod => /\ \A s \in Replies : (Fresh(s)' => Fresh(s)) /\ (InSlot(s)' => InSlot(s))
                        /\ \A s \in Replies :
                             prod'[s] \in {"waiting", "clip"} => prod'[s] = prod[s]
  BY DEF Fresh, InSlot
<1>1. ASSUME UNCHANGED <<muted, kind, gen, closed, loop, bargePending, sessionVars>>,
             client'.drop => client.drop, NEW r \in Replies, InSlot(r),
             NEW pc \in ProducerStates \ {"unused", "waiting", "clip"}, Goto(r, pc)
      PROVE  DropInv'
  <2>1. ~Fresh(r)
    BY <1>1 DEF Fresh, InSlot, OutOfSlot
  <2> QED BY <1>b, <1>1, <2>1, DropGoto
<1>2. ASSUME NEW r \in Replies, \/ Transcribe(r) \/ BeginReply(r) \/ PutFixed(r) \/ ReadStream(r)
                                \/ PutStreamed(r) \/ PutFlushed(r) \/ CheckError(r)
      PROVE  DropInv'
  BY <1>1, <1>2, <1>c DEF Transcribe, BeginReply, PutFixed, ReadStream, PutStreamed, PutFlushed,
     CheckError, PutSentence, FinallyOf, InSlot, OutOfSlot, ProducerStates
<1>3. ASSUME NEW r \in Replies, \/ NextTaskSentence(r) \/ PutTaskSentence(r) \/ StopFiller(r)
                                \/ JoinFiller(r) \/ PutDone(r) \/ JoinWorker(r) \/ PopBarge(r)
      PROVE  DropInv'
  BY <1>1, <1>3, <1>c DEF NextTaskSentence, PutTaskSentence, StopFiller, JoinFiller, PutDone,
     JoinWorker, PopBarge, InSlot, OutOfSlot, ProducerStates
<1>4. ASSUME NEW r \in Replies, Gate(r) \/ BeginTyped(r) \/ SendError(r) PROVE DropInv'
  <2>1. client'.drop => client.drop
    BY <1>a, <1>4, SendDrop DEF Gate, BeginTyped, SendError, Frames
  <2> QED BY <1>1, <1>4, <2>1 DEF Gate, BeginTyped, SendError, FinallyOf, InSlot, OutOfSlot,
             ProducerStates
<1>5. ASSUME NEW r \in Replies, EndScheduled(r) \/ EndUtterance(r) PROVE DropInv'
  <2>1. InSlot(r) /\ ~Fresh(r) /\ FreeSlot(r) /\ Goto(r, "replyDone")
    BY <1>5 DEF EndScheduled, EndUtterance, InSlot, OutOfSlot, Fresh
  <2>2. UNCHANGED <<muted, kind, gen, closed, loop, bargePending, client>>
    BY <1>5 DEF EndScheduled, EndUtterance
  <2>3. \A s \in Replies : Owns(s)' => Owns(s)
    BY <2>1, <2>2, FreeOwns
  <2> QED BY <2>1, <2>2, <2>3, DropGoto DEF ProducerStates
<1>6. ASSUME NEW r \in Replies, SendDone(r) PROVE DropInv'
  <2>1. client'.drop => client.drop
    BY <1>a, <1>6, SendDrop DEF SendDone, SendReplyDone, Frames
  <2>2. UNCHANGED <<muted, kind, gen, closed, loop, bargePending, sessionVars>>
    BY <1>6 DEF SendDone
  <2>3. ~Fresh(r) /\ Goto(r, "ended")
    BY <1>6 DEF SendDone, Fresh
  <2> QED BY <1>b, <2>1, <2>2, <2>3, DropGoto DEF ProducerStates, OutOfSlot
<1>7. ASSUME NEW r \in Replies, StartVoice(r) \/ StartTyped(r) PROVE DropInv'
  <2>1. /\ \A s \in Replies \ {r} : prod'[s] = prod[s] /\ kind'[s] = kind[s]
        /\ prod'[r] \in {"stt", "typed"}
    BY <1>a, <1>7 DEF StartVoice, StartTyped, Goto
  <2>2. TakeSlot(r) /\ Fresh(r) /\ UNCHANGED <<muted, closed, loop, bargePending>> /\ loop = "idle"
    BY <1>7 DEF StartVoice, StartTyped, IsNext, Fresh
  <2>3. closed \/ ~client'.drop
    BY <1>a, <1>7 DEF StartVoice, StartTyped, Send, OnFrame, ClientStates
  <2>4. \A s \in Replies : Heard(s)'
    <3>1. \A s \in Replies \ {r} : ~Owns(s)'
      BY <2>2, TakeOwns
    <3> QED BY <2>2, <2>3, <3>1 DEF Heard
  <2> QED BY <2>1, <2>2, <2>4 DEF DropInv, FreshAudioPlayed, Fresh
<1>8. ASSUME NEW r \in Replies, Schedule(r) PROVE DropInv'
  <2>1. /\ \A s \in Replies \ {r} : prod'[s] = prod[s] /\ kind'[s] = kind[s]
        /\ prod'[r] = "waiting" /\ kind'[r] \in Scheduled /\ Fresh(r)
    BY <1>a, <1>8 DEF Schedule, Goto, IsNext, Fresh
  <2>2. UNCHANGED <<muted, sessionVars, gen, closed, loop, bargePending, client>>
    BY <1>8 DEF Schedule
  <2>3. \A s \in Replies : Heard(s)'
    BY <1>b, <2>1, <2>2 DEF DropInv, Heard, InSlot, OutOfSlot
  <2> QED BY <2>1, <2>2, <2>3 DEF DropInv, FreshAudioPlayed, Fresh
<1>9. ASSUME NEW r \in Replies, BeginScheduled(r) PROVE DropInv'
  <2>1. CASE closed
    <3>1. UNCHANGED <<muted, kind, gen, closed, loop, bargePending, sessionVars, client>>
          /\ Goto(r, "ended")
      BY <1>9, <2>1 DEF BeginScheduled
    <3>2. /\ \A s \in Replies : (Fresh(s)' => Fresh(s)) /\ (InSlot(s)' => InSlot(s))
          /\ \A s \in Replies : prod'[s] \in {"waiting", "clip"} => prod'[s] = prod[s]
      BY <1>a, <3>1 DEF Goto, Fresh, InSlot, OutOfSlot
    <3> QED BY <1>b, <3>1, <3>2, DropKept
  <2>2. CASE ~closed
    <3>1. /\ TakeSlot(r) /\ UNCHANGED <<muted, kind, closed, loop, bargePending, client>>
          /\ kind[r] \in Scheduled
      BY <1>9, <2>2 DEF BeginScheduled, DropInv
    <3>2. /\ \A s \in Replies \ {r} : prod'[s] = prod[s]
          /\ prod'[r] \in {"taskNext", "clip"}
          /\ prod'[r] = "clip" => kind[r] = "reminder"
      BY <1>a, <1>9, <2>2, <3>1 DEF BeginScheduled, Goto, Scheduled
    <3>3. \A s \in Replies : Heard(s)'
      BY <3>1, TakeOwns DEF Heard
    <3> QED BY <3>1, <3>2, <3>3 DEF DropInv, FreshAudioPlayed, Fresh
  <2> QED BY <2>1, <2>2
<1>10. ASSUME NEW r \in Replies, SendClip(r) PROVE DropInv'
  <2>1. /\ InSlot(r) /\ ~Fresh(r) /\ Goto(r, "endScheduled") /\ kind[r] \in Scheduled
        /\ UNCHANGED <<kind, gen, closed, loop, bargePending, sessionVars>>
    BY <1>10 DEF SendClip, InSlot, OutOfSlot, Fresh, DropInv, Scheduled
  <2>2. CASE UNCHANGED <<client, muted>>
    BY <1>1, <2>1, <2>2 DEF ProducerStates
  <2>3. CASE SendAudio(r)
    <3>1. /\ client'.drop => client.drop
          /\ \A s \in Replies : kind[s] \notin Scheduled => muted'[s] = 0
          /\ \A s \in Replies : Fresh(s) => muted'[s] = 0
      BY <2>1, <2>3, DropAudio
    <3>2. \A s \in Replies : /\ (Fresh(s)' => Fresh(s)) /\ (InSlot(s)' => InSlot(s))
                             /\ prod'[s] \in {"waiting", "clip"} => prod'[s] = prod[s]
      BY <1>a, <2>1 DEF Goto, Fresh, InSlot, OutOfSlot
    <3>3. \A s \in Replies : Heard(s)'
      BY <1>b, <2>1, <3>1, <3>2 DEF DropInv, Heard
    <3> QED BY <2>1, <3>1, <3>2, <3>3 DEF DropInv, FreshAudioPlayed
  <2> QED BY <1>10, <2>2, <2>3 DEF SendClip
<1>11. ASSUME NEW r \in Replies, SendChunk(r) PROVE DropInv'
  <2>1. InSlot(r) /\ SendAudio(r)
    BY <1>11, BusyInside DEF SendChunk, Busy
  <2>2. UNCHANGED <<prod, kind, gen, closed, loop, bargePending, sessionVars>>
    BY <1>11 DEF SendChunk
  <2>3. /\ client'.drop => client.drop
        /\ \A s \in Replies : kind[s] \notin Scheduled => muted'[s] = 0
        /\ \A s \in Replies : Fresh(s) => muted'[s] = 0
    BY <2>1, DropAudio
  <2>4. \A s \in Replies : Heard(s)'
    BY <1>b, <1>d, <2>2, <2>3 DEF DropInv, Heard
  <2> QED BY <1>d, <2>2, <2>3, <2>4 DEF DropInv, FreshAudioPlayed
<1>12. ASSUME NEW r \in Replies, Get(r) \/ CheckBefore(r) \/ Synthesize(r) PROVE DropInv'
  BY <1>b, <1>c, <1>d, <1>12, DropKept DEF Get, CheckBefore, Synthesize
<1>13. ASSUME NEW r \in Replies, FillerThread(r) PROVE DropInv'
  BY <1>b, <1>c, <1>d, <1>13, DropKept DEF FillerThread, Tick, PutPhrase
<1>14. CASE Announcer \/ StartGoodnight \/ StartTextResult \/ RefuseTyped
  <2>1. client'.drop => client.drop
    BY <1>a, <1>14, SendDrop DEF Announcer, AnnounceClip, AnnounceDone, SendReplyDone,
       StartGoodnight, StartTextResult, RefuseTyped, Frames
  <2> QED BY <1>b, <1>d, <1>14, <2>1, DropKept DEF Announcer, AnnounceClip, AnnounceDone,
             StartGoodnight, StartTextResult, RefuseTyped
<1>15. CASE Release
  <2>1. UNCHANGED <<muted, kind, prod>> /\ \A s \in Replies : ~Owns(s)'
    BY <1>15 DEF Release, Owns
  <2>2. \A s \in Replies : Heard(s)'
    BY <2>1 DEF Heard
  <2> QED BY <2>1, <2>2 DEF DropInv, FreshAudioPlayed, Fresh
<1>16. CASE Drain \/ PutBack \/ Ack
  <2>1. /\ loop # "idle" /\ UNCHANGED <<muted, kind, prod, gen, sessionVars>>
    BY <1>16 DEF Drain, PutBack, Ack
  <2>2. \A s \in Replies : Heard(s)'
    BY <2>1 DEF DropInv, Heard, InSlot, Owns
  <2> QED BY <2>1, <2>2 DEF DropInv, FreshAudioPlayed, Fresh
<1>17. CASE BargeIn \/ Disconnect \/ SendFailed
  <2>1. /\ UNCHANGED <<muted, kind, prod, gen, sessionVars, loop>>
        /\ bargePending' \/ closed'
    BY <1>17 DEF BargeIn, Disconnect, SendFailed
  <2>2. \A s \in Replies : Heard(s)'
    BY <2>1 DEF DropInv, Heard, InSlot, Owns
  <2> QED BY <2>1, <2>2 DEF DropInv, FreshAudioPlayed, Fresh
<1>18. CASE UNCHANGED vars
  BY <1>b, <1>c, <1>d, <1>18, DropKept DEF vars
<1> QED
  BY <1>2, <1>3, <1>4, <1>5, <1>6, <1>7, <1>8, <1>9, <1>10, <1>11, <1>12, <1>13, <1>14,
     <1>15, <1>16, <1>17, <1>18
     DEF Next, Environment, LoopWork, Producer, Worker

\* The console plays what it is sent for a reply the user started, whatever was barged
\* in on before.
THEOREM AudioIsPlayed == Spec => []FreshAudioPlayed
<1>1. Init => SlotInv /\ TimestampInv /\ SentinelInv /\ StaleInv /\ WorkerInv /\ DropInv
  BY InitSlot, InitTimestamp, InitSentinel, InitStale, InitWorker, InitDrop
<1>2. /\ TypeOK /\ (SlotInv /\ TimestampInv /\ SentinelInv /\ StaleInv /\ WorkerInv /\ DropInv)
      /\ [Next]_vars
      => (SlotInv /\ TimestampInv /\ SentinelInv /\ StaleInv /\ WorkerInv /\ DropInv)'
  BY NextSlot, NextTimestamp, NextSentinel, NextStale, NextWorker, NextDrop
<1>3. DropInv => FreshAudioPlayed
  BY DEF DropInv
<1> QED BY <1>1, <1>2, <1>3, TypeCorrect, PTL DEF Spec
-----------------------------------------------------------------------------
(* What the console shows *)

\* The replies whose reply_done is still to come.
Open(r) == InSlot(r) \/ (prod[r] = "replyDone" /\ isCurrent[r])

\* While nobody barges in, no reply loses the slot, and a console that is not at idle
\* has a reply_done to come.
UiInv == barges = 0 =>
  /\ ~bargePending /\ loop = "idle" /\ barged = {}
  /\ \/ client.ui = "idle" \/ closed \/ announce = "done"
     \/ \E r \in Replies : Open(r)

LEMMA UiOpen ==
  ASSUME UiInv, UNCHANGED <<buttonVars, loop, barged>>, NEW r \in Replies, Open(r)'
  PROVE  UiInv'
BY DEF UiInv, buttonVars

LEMMA UiKept ==
  ASSUME UiInv, UNCHANGED <<client, buttonVars, loop, barged>>,
         closed => closed', announce = "done" => announce' = "done",
         \A s \in Replies : Open(s) => Open(s)'
  PROVE  UiInv'
BY DEF UiInv, buttonVars

\* A frame that ends what the console waits for.
LEMMA UiIdle ==
  ASSUME client \in ClientStates, UiInv, NEW f \in {"reply_done", "error"}, Send(f),
         UNCHANGED <<buttonVars, loop, barged, closed>>
  PROVE  UiInv'
<1>1. closed \/ client'.ui = "idle"
  BY DEF Send, OnFrame, ClientStates
<1> QED BY <1>1 DEF UiInv, buttonVars

LEMMA InitUi == Init => UiInv
BY DEF Init, UiInv, InitialClient

LEMMA NextUi == TypeOK /\ SlotInv /\ StaleInv /\ WorkerInv /\ UiInv /\ [Next]_vars => UiInv'
<1> SUFFICES ASSUME TypeOK, SlotInv, StaleInv, WorkerInv, UiInv, [Next]_vars PROVE UiInv'
  OBVIOUS
<1> USE DEF loopVars, producerVars, workerVars, fillerVars, announceVars, BodyFrame, WorkerFrame,
            FillerFrame, AnnounceFrame
<1>a. /\ prod \in [Replies -> ProducerStates] /\ isCurrent \in [Replies -> BOOLEAN]
      /\ client \in ClientStates
  BY DEF TypeOK, ProducerTypeOK, ConsoleTypeOK
<1>b. UNCHANGED <<prod, isCurrent>> => \A s \in Replies : Open(s) <=> Open(s)'
  BY DEF Open, InSlot
<1>1. ASSUME NEW r \in Replies, NEW pc \in ProducerStates \ OutOfSlot, Goto(r, pc),
             UNCHANGED <<buttonVars, loop, barged>>
      PROVE  UiInv'
  <2>1. Open(r)'
    BY <1>a, <1>1 DEF Goto, Open, InSlot
  <2> QED BY <1>1, <2>1, UiOpen
<1>2. ASSUME NEW r \in Replies, \/ Transcribe(r) \/ Gate(r) \/ BeginTyped(r) \/ BeginReply(r)
                                \/ PutFixed(r) \/ ReadStream(r) \/ PutStreamed(r)
                                \/ PutFlushed(r) \/ CheckError(r) \/ SendError(r)
      PROVE  UiInv'
  BY <1>1, <1>2 DEF Transcribe, Gate, BeginTyped, BeginReply, PutFixed, ReadStream, PutStreamed,
     PutFlushed, CheckError, SendError, FinallyOf, OutOfSlot, ProducerStates
<1>3. ASSUME NEW r \in Replies, \/ NextTaskSentence(r) \/ PutTaskSentence(r) \/ SendClip(r)
                                \/ StopFiller(r) \/ JoinFiller(r) \/ PutDone(r) \/ JoinWorker(r)
                                \/ PopBarge(r) \/ StartVoice(r) \/ StartTyped(r)
      PROVE  UiInv'
  BY <1>1, <1>3 DEF NextTaskSentence, PutTaskSentence, SendClip, StopFiller, JoinFiller, PutDone,
     JoinWorker, PopBarge, StartVoice, StartTyped, OutOfSlot, ProducerStates
<1>4. ASSUME NEW r \in Replies, EndScheduled(r) \/ EndUtterance(r) PROVE UiInv'
  <2>1. /\ InSlot(r) /\ Goto(r, "replyDone") /\ FreeSlot(r)
        /\ UNCHANGED <<client, buttonVars, loop, barged, closed, announce>>
    BY <1>4 DEF EndScheduled, EndUtterance, InSlot, OutOfSlot
  <2>2. CASE barges = 0
    <3>1. IsCurrent(r)
      BY <2>1, <2>2 DEF UiInv, SlotInv, SlotOwner, Owns, IsCurrent
    <3>2. isCurrent'[r] /\ prod'[r] = "replyDone"
      BY <1>a, <2>1, <3>1 DEF FreeSlot, Goto
    <3> QED BY <2>1, <3>2, UiOpen DEF Open
  <2>3. CASE barges # 0
    BY <2>1, <2>3 DEF UiInv, buttonVars
  <2> QED BY <2>2, <2>3
<1>5. ASSUME NEW r \in Replies, SendDone(r) PROVE UiInv'
  <2>1. UNCHANGED <<buttonVars, loop, barged, closed, announce>>
    BY <1>5 DEF SendDone
  <2>2. CASE isCurrent[r]
    BY <1>a, <1>5, <2>1, <2>2, UiIdle DEF SendDone, SendReplyDone
  <2>3. CASE ~isCurrent[r]
    <3>1. UNCHANGED client
      BY <1>5, <2>3 DEF SendDone
    <3>2. ~Open(r) /\ \A s \in Replies \ {r} : Open(s) => Open(s)'
      BY <1>a, <1>5, <2>3 DEF SendDone, Goto, Open, InSlot, OutOfSlot
    <3> QED BY <2>1, <3>1, <3>2, UiKept
  <2> QED BY <2>2, <2>3
<1>6. ASSUME NEW r \in Replies, Schedule(r) PROVE UiInv'
  <2>1. \A s \in Replies : Open(s) => Open(s)'
    BY <1>a, <1>6 DEF Schedule, IsNext, Goto, Open, InSlot, OutOfSlot
  <2> QED BY <1>6, <2>1, UiKept DEF Schedule
<1>7. ASSUME NEW r \in Replies, BeginScheduled(r) PROVE UiInv'
  <2>1. CASE closed
    <3>1. closed' /\ UNCHANGED <<buttonVars, loop, barged>>
      BY <1>7, <2>1 DEF BeginScheduled
    <3> QED BY <3>1 DEF UiInv, buttonVars
  <2>2. CASE ~closed
    BY <1>1, <1>7, <2>2 DEF BeginScheduled, OutOfSlot, ProducerStates
  <2> QED BY <2>1, <2>2
<1>8. ASSUME NEW r \in Replies, Get(r) \/ CheckBefore(r) \/ Synthesize(r) \/ FillerThread(r)
      PROVE  UiInv'
  BY <1>b, <1>8, UiKept DEF Get, CheckBefore, Synthesize, FillerThread, Tick, PutPhrase
<1>9. ASSUME NEW r \in Replies, SendChunk(r) PROVE UiInv'
  <2>1. Open(r)
    BY <1>9, BusyInside DEF SendChunk, Busy, Open
  <2> QED BY <1>b, <1>9, <2>1, UiOpen DEF SendChunk
<1>10. CASE AnnounceDone \/ RefuseTyped
  BY <1>a, <1>10, UiIdle DEF AnnounceDone, SendReplyDone, RefuseTyped
<1>11. CASE AnnounceClip
  <2>1. UNCHANGED <<buttonVars, loop, barged, closed, prod, isCurrent>> /\ announce = "clip"
    BY <1>11 DEF AnnounceClip
  <2>2. CASE announce' = "done"
    BY <2>1, <2>2 DEF UiInv, buttonVars
  <2>3. CASE UNCHANGED client
    BY <1>b, <2>1, <2>3, UiKept
  <2> QED BY <1>11, <2>2, <2>3 DEF AnnounceClip
<1>12. CASE StartGoodnight \/ StartTextResult
  BY <1>b, <1>12, UiKept DEF StartGoodnight, StartTextResult
<1>13. CASE BargeIn
  <2>1. barges' # 0
    BY <1>13 DEF BargeIn, TypeOK, ConsoleTypeOK
  <2> QED BY <2>1 DEF UiInv
<1>14. CASE Disconnect \/ SendFailed
  BY <1>14 DEF Disconnect, SendFailed, UiInv, buttonVars
<1>15. CASE LoopWork
  <2>1. barges # 0 /\ UNCHANGED barges
    BY <1>15 DEF LoopWork, Release, Drain, PutBack, Ack, UiInv, buttonVars
  <2> QED BY <2>1 DEF UiInv
<1>16. CASE UNCHANGED vars
  BY <1>b, <1>16, UiKept DEF vars
<1> QED
  BY <1>2, <1>3, <1>4, <1>5, <1>6, <1>7, <1>8, <1>9, <1>10, <1>11, <1>12, <1>13, <1>14,
     <1>15, <1>16
     DEF Next, Environment, Producer, Worker, Announcer

\* Without a barge-in the console is at idle when the server is: every way through a
\* reply, its failures and its silences, comes by a reply_done.
THEOREM ConsoleRests == Spec => []UiRests
<1>1. Init => SlotInv /\ SentinelInv /\ StaleInv /\ WorkerInv /\ UiInv
  BY InitSlot, InitSentinel, InitStale, InitWorker, InitUi
<1>2. /\ TypeOK /\ (SlotInv /\ SentinelInv /\ StaleInv /\ WorkerInv /\ UiInv) /\ [Next]_vars
      => (SlotInv /\ SentinelInv /\ StaleInv /\ WorkerInv /\ UiInv)'
  BY NextSlot, NextSentinel, NextStale, NextWorker, NextUi
<1>3. UiInv => UiRests
  BY DEF UiInv, UiRests, Quiescent, Open, InSlot, OutOfSlot
<1> QED BY <1>1, <1>2, <1>3, TypeCorrect, PTL DEF Spec
=============================================================================
