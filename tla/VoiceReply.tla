----------------------------- MODULE VoiceReply -----------------------------
(***************************************************************************)
(* The reply machinery of one voice connection (app/pipeline.py): the      *)
(* VoiceSession reply slot, the thread that produces a reply, its TTS      *)
(* worker, its thinking filler, scheduled speech, barge-in, the frames     *)
(* sent outside the slot, and what the console does with the frames.       *)
(*                                                                         *)
(* Threads.  The event loop (StartVoice .. Disconnect), one producer and   *)
(* at most one worker and one filler per reply, the scheduler thread (the  *)
(* producer of a "task" or "reminder" reply), the announcer.  A lock       *)
(* region, a queue operation and an `alive` check are one step each; a     *)
(* check and the send it guards are two.  Frames reach the console in the  *)
(* order they are sent.                                                    *)
(***************************************************************************)
EXTENDS Naturals, Sequences, VoiceClient

CONSTANTS MaxReplies,        \* replies of one run
          QueueSize,         \* config.TTS_QUEUE_SIZE
          MaxSentences,      \* sentences of one reply
          MaxFillers,        \* no filler phrase follows when a reply has had so many
          MaxBarges,         \* presses of the barge-in button
          MaxAnnouncements,  \* sends outside the reply slot
          Kinds,             \* the kinds of reply that occur
          TTSMayRaise,       \* whether tts.synthesize may raise
          MayClose           \* whether the connection may close or fail

AllKinds == {"voice",     \* a captured utterance
             "typed",     \* a typed utterance with a voiced reply
             "silent",    \* a typed utterance with a text-only reply
             "task",      \* the spoken answer of a scheduled task
             "reminder"}  \* a due reminder: one clip, or text only

Scheduled == {"task", "reminder"}

ASSUME BoundsAssumption ==
  /\ MaxReplies \in Nat /\ QueueSize \in Nat \ {0} /\ MaxSentences \in Nat \ {0}
  /\ MaxFillers \in Nat /\ MaxBarges \in Nat /\ MaxAnnouncements \in Nat
  /\ Kinds \subseteq AllKinds
  /\ TTSMayRaise \in BOOLEAN /\ MayClose \in BOOLEAN

Replies == 1 .. MaxReplies
NoReply == 0

VARIABLES
  \* VoiceSession
  replyActive, generation, ttsQueue, bargeMono, closed,
  \* serve_session: the receive loop
  connected, loop, draining,
  \* per reply: the producer thread and its locals
  kind, gen, prod, made, isCurrent, cancelled,
  \* per reply: the bounded queue, its TTS worker and the worker's item
  queue, work, item,
  \* per reply: the ThinkingFiller thread, and its counter
  fill, fillers,
  \* goodnight and text-only task results
  announce, announced,
  \* the console
  client, bargePending, barges,
  \* history, read by the properties only
  barged,    \* replies that held the slot when a barge-in released it
  said,      \* [r] sentences of r sent, or found to be silence, in order
  stale,     \* [r] audio frames of r sent after r had lost the slot
  muted,     \* [r] audio frames of a living r that the console dropped, no barge-in under way
  finished   \* replies whose reply_done was sent

sessionVars == <<replyActive, generation, ttsQueue>>
loopVars    == <<connected, loop, draining>>
producerVars == <<kind, gen, made, isCurrent, cancelled>>
workerVars  == <<work, item>>
fillerVars  == <<fill, fillers>>
announceVars == <<announce, announced>>
buttonVars  == <<bargePending, barges>>
audioHistory == <<stale, muted>>
vars == <<sessionVars, bargeMono, closed, loopVars, producerVars, prod, queue, workerVars,
          fillerVars, announceVars, client, buttonVars, barged, said, audioHistory,
          finished>>

ProducerStates ==
  {"unused", "waiting",                                          \* not begun
   "stt", "gate", "typed", "begin", "fixed", "llm", "llmPut",    \* utterance body
   "flushPut", "error", "sendError",
   "taskNext", "taskPut", "clip",                                \* scheduled body
   "stopFiller", "joinFiller", "putDone", "joinWorker",          \* finally
   "popBarge", "freeSlot", "endScheduled",
   "replyDone", "ended"}                                         \* slot given back

WorkerStates == {"none", "get", "check", "synth", "send", "done", "dead"}
FillerStates == {"none", "tick", "phrase", "over"}

\* Queue items: (n, sentence, "tts"), (n, phrase, "filler") and _TTS_DONE.
Sentence(n) == <<"tts", n>>
Filler      == <<"filler", 0>>
Sentinel    == <<"done", 0>>
Items == {"tts", "filler", "done"} \X Nat

SessionTypeOK ==
  /\ replyActive \in BOOLEAN /\ generation \in Nat
  /\ ttsQueue \in Replies \cup {NoReply} /\ bargeMono \subseteq Nat /\ closed \in BOOLEAN
LoopTypeOK ==
  /\ connected \in BOOLEAN /\ loop \in {"idle", "drain", "putBack", "ack"}
  /\ draining \in Replies \cup {NoReply}
ProducerTypeOK ==
  /\ kind \in [Replies -> AllKinds \cup {"none"}] /\ gen \in [Replies -> Nat]
  /\ prod \in [Replies -> ProducerStates] /\ made \in [Replies -> Nat]
  /\ isCurrent \in [Replies -> BOOLEAN] /\ cancelled \in [Replies -> BOOLEAN]
WorkerTypeOK ==
  /\ queue \in [Replies -> Seq(Items)]
  /\ work \in [Replies -> WorkerStates] /\ item \in [Replies -> Items]
  /\ fill \in [Replies -> FillerStates] /\ fillers \in [Replies -> Nat]
ConsoleTypeOK ==
  /\ announce \in {"none", "clip", "done"} /\ announced \in Nat
  /\ client \in ClientStates /\ bargePending \in BOOLEAN /\ barges \in Nat
HistoryTypeOK ==
  /\ barged \subseteq Replies /\ said \in [Replies -> Seq(Nat)]
  /\ stale \in [Replies -> Nat] /\ muted \in [Replies -> Nat]
  /\ finished \subseteq Replies

\* Every variable has its type ("none" is the kind of a reply not yet asked for).
TypeOK == /\ SessionTypeOK /\ LoopTypeOK /\ ProducerTypeOK
          /\ WorkerTypeOK /\ ConsoleTypeOK /\ HistoryTypeOK

Init ==
  /\ replyActive = FALSE /\ generation = 0 /\ ttsQueue = NoReply
  /\ bargeMono = {} /\ closed = FALSE
  /\ connected = TRUE /\ loop = "idle" /\ draining = NoReply
  /\ kind = [r \in Replies |-> "none"] /\ gen = [r \in Replies |-> 0]
  /\ prod = [r \in Replies |-> "unused"] /\ made = [r \in Replies |-> 0]
  /\ isCurrent = [r \in Replies |-> FALSE] /\ cancelled = [r \in Replies |-> FALSE]
  /\ queue = [r \in Replies |-> <<>>]
  /\ work = [r \in Replies |-> "none"] /\ item = [r \in Replies |-> Sentinel]
  /\ fill = [r \in Replies |-> "none"] /\ fillers = [r \in Replies |-> 0]
  /\ announce = "none" /\ announced = 0
  /\ client = InitialClient /\ bargePending = FALSE /\ barges = 0
  /\ barged = {} /\ said = [r \in Replies |-> <<>>]
  /\ stale = [r \in Replies |-> 0] /\ muted = [r \in Replies |-> 0]
  /\ finished = {}
-----------------------------------------------------------------------------
(* Helpers *)

\* Mutant: only a closed connection stops a reply.
Alive_AnyGeneration(r) == ~closed

\* VoiceSession.alive
Alive(r) == ~closed /\ generation = gen[r]

\* The slot holder: the reply whose generation is current while the slot is taken.
Owns(r) == replyActive /\ generation = gen[r]

\* VoiceSession.send: nothing is sent once the connection is marked closed.
Send(f) == client' = IF closed THEN client ELSE OnFrame(client, f)

\* An audio frame of reply r, with what the properties need to remember of it.
SendAudio(r) ==
  /\ Send("audio")
  /\ stale' = IF ~closed /\ generation # gen[r] THEN [stale EXCEPT ![r] = @ + 1] ELSE stale
  /\ muted' = IF ~closed /\ generation = gen[r] /\ client.drop
                   /\ ~bargePending /\ loop = "idle"
              THEN [muted EXCEPT ![r] = @ + 1] ELSE muted

\* reply_done; `mine` is the reply it belongs to, NoReply if none.
SendReplyDone(mine) ==
  /\ Send("reply_done")
  /\ finished' = IF closed \/ mine = NoReply THEN finished ELSE finished \cup {mine}

Goto(r, pc) == prod' = [prod EXCEPT ![r] = pc]

\* Queue.put: blocks while the queue is full.
Put(r, i) == /\ Len(queue[r]) < QueueSize
             /\ queue' = [queue EXCEPT ![r] = Append(@, i)]

\* enqueue(sentence) of the utterance handlers and of _speak_task_answer.
PutSentence(r) == /\ Put(r, Sentence(made[r] + 1))
                  /\ made' = [made EXCEPT ![r] = @ + 1]

\* Mutant: the slot is taken without looking whether it is free.
SlotFree_Unchecked == TRUE

SlotFree == ~replyActive

\* The slot taken for r: the lock region of start_utterance,
\* start_text_utterance and begin_scheduled_reply.
TakeSlot(r) ==
  /\ SlotFree
  /\ replyActive' = TRUE
  /\ generation' = generation + 1
  /\ gen' = [gen EXCEPT ![r] = generation + 1]
  /\ ttsQueue' = r

\* Mutants: a reply that lost the slot frees it as well; the comparison is made
\* with the bumped generation.
IsCurrent_Unchecked(r) == TRUE
IsCurrent_AfterBump(r) == generation + 1 = gen[r]

\* is_current
IsCurrent(r) == generation = gen[r]

\* The lock region at the end of a reply: only the current reply frees the slot.
FreeSlot(r) ==
  /\ isCurrent' = [isCurrent EXCEPT ![r] = IsCurrent(r)]
  /\ IF IsCurrent(r)
     THEN /\ replyActive' = FALSE
          /\ generation' = generation + 1
          /\ ttsQueue' = NoReply
     ELSE UNCHANGED sessionVars

\* Replies are numbered in the order they are asked for.
IsNext(r) == /\ prod[r] = "unused"
             /\ \A s \in Replies : s < r => prod[s] # "unused"

\* The scheduler runs one callback at a time.
SchedulerIdle ==
  \A r \in Replies : kind[r] \in Scheduled => prod[r] = "ended"

\* The reply is synthesized: a worker consumes its queue.
Voiced(r) == work[r] # "none"

\* Where the body of an utterance goes when it is over: the finally block.
FinallyOf(r) == IF fill[r] # "none" THEN "stopFiller"
                ELSE IF Voiced(r) THEN "putDone" ELSE "popBarge"
-----------------------------------------------------------------------------
(* The event loop *)

\* A captured utterance: start_utterance, from _on_audio or a flush.
StartVoice(r) ==
  /\ "voice" \in Kinds /\ loop = "idle" /\ connected
  /\ IsNext(r) /\ TakeSlot(r)
  /\ kind' = [kind EXCEPT ![r] = "voice"]
  /\ Goto(r, "stt")
  /\ \E f \in {"end", "endAsleep"} : Send(f)
  /\ UNCHANGED <<bargeMono, closed, loopVars, made, isCurrent, cancelled, queue, workerVars,
                 fillerVars, announceVars, buttonVars, barged, said, audioHistory,
                 finished>>

\* A typed utterance: start_text_utterance.  While a reply is active it only
\* answers with an error frame.
StartTyped(r) ==
  /\ loop = "idle" /\ connected
  /\ IsNext(r) /\ TakeSlot(r)
  /\ \E k \in Kinds \cap {"typed", "silent"} : kind' = [kind EXCEPT ![r] = k]
  /\ Goto(r, "typed")
  /\ \E f \in {"end", "endAsleep"} : Send(f)
  /\ UNCHANGED <<bargeMono, closed, loopVars, made, isCurrent, cancelled, queue, workerVars,
                 fillerVars, announceVars, buttonVars, barged, said, audioHistory,
                 finished>>

\* A typed utterance while a reply is active: refused with an error frame.
RefuseTyped ==
  /\ Kinds \cap {"typed", "silent"} # {} /\ loop = "idle" /\ connected
  /\ replyActive
  /\ Send("error")
  /\ UNCHANGED <<sessionVars, bargeMono, closed, loopVars, producerVars, prod, queue,
                 workerVars, fillerVars, announceVars, buttonVars, barged, said,
                 audioHistory, finished>>

\* Mutant: the key is computed before the bump.
BargedGeneration_BeforeBump == generation - 1

\* The key of barge_mono: `self.generation - 1`, after the bump.
BargedGeneration == generation

\* release(), its lock region: the slot is freed and the generation bumped
\* whether or not a reply is active.
Release ==
  /\ loop = "idle" /\ connected /\ bargePending
  /\ bargePending' = FALSE
  /\ replyActive' = FALSE
  /\ generation' = generation + 1
  /\ bargeMono' = bargeMono \cup {BargedGeneration}
  /\ ttsQueue' = NoReply
  /\ draining' = ttsQueue
  /\ loop' = IF ttsQueue = NoReply THEN "ack" ELSE "drain"
  /\ barged' = barged \cup {r \in Replies : Owns(r)}
  /\ UNCHANGED <<closed, connected, producerVars, prod, queue, workerVars, fillerVars,
                 announceVars, client, barges, said, audioHistory, finished>>

\* Mutant: the sentinel is drained like any other item.
AfterDrained_Everything(i) == "drain"

AfterDrained(i) == IF i = Sentinel THEN "putBack" ELSE "drain"

\* release(), one get_nowait of the drain loop.
Drain ==
  /\ loop = "drain"
  /\ IF queue[draining] = <<>>
     THEN loop' = "ack" /\ UNCHANGED queue
     ELSE /\ queue' = [queue EXCEPT ![draining] = Tail(@)]
          /\ loop' = AfterDrained(Head(queue[draining]))
  /\ UNCHANGED <<sessionVars, bargeMono, closed, connected, draining, producerVars, prod,
                 workerVars, fillerVars, announceVars, client, buttonVars, barged, said,
                 audioHistory, finished>>

\* release(): the sentinel it drained goes back with put_nowait, which must
\* find room (SentinelRoom): Full would end the connection's receive loop.
PutBack ==
  /\ loop = "putBack"
  /\ queue' = [queue EXCEPT ![draining] = Append(@, Sentinel)]
  /\ loop' = "ack"
  /\ UNCHANGED <<sessionVars, bargeMono, closed, connected, draining, producerVars, prod,
                 workerVars, fillerVars, announceVars, client, buttonVars, barged, said,
                 audioHistory, finished>>

Ack ==
  /\ loop = "ack"
  /\ Send("barge_ack")
  /\ loop' = "idle"
  /\ draining' = NoReply
  /\ UNCHANGED <<sessionVars, bargeMono, closed, connected, producerVars, prod, queue,
                 workerVars, fillerVars, announceVars, buttonVars, barged, said,
                 audioHistory, finished>>

\* The websocket closed: the receive loop ends and marks the session closed.
Disconnect ==
  /\ MayClose /\ loop = "idle" /\ connected
  /\ connected' = FALSE
  /\ closed' = TRUE
  /\ UNCHANGED <<sessionVars, bargeMono, loop, draining, producerVars, prod, queue,
                 workerVars, fillerVars, announceVars, client, buttonVars, barged, said,
                 audioHistory, finished>>

\* _on_send_done: a send failed.  Nobody is notified.
SendFailed ==
  /\ MayClose /\ connected /\ ~closed
  /\ closed' = TRUE
  /\ UNCHANGED <<sessionVars, bargeMono, loopVars, producerVars, prod, queue, workerVars,
                 fillerVars, announceVars, client, buttonVars, barged, said, audioHistory,
                 finished>>

\* The user's barge-in: the command travels while the server goes on.
BargeIn ==
  /\ connected /\ ~bargePending /\ barges < MaxBarges
  /\ bargePending' = TRUE
  /\ barges' = barges + 1
  /\ client' = OnBargeIn(client)
  /\ UNCHANGED <<sessionVars, bargeMono, closed, loopVars, producerVars, prod, queue,
                 workerVars, fillerVars, announceVars, barged, said, audioHistory,
                 finished>>
-----------------------------------------------------------------------------
(* The producer of an utterance: _handle_utterance, _handle_text_utterance *)

\* What no producer step before the finally block touches.
BodyFrame == UNCHANGED <<sessionVars, bargeMono, closed, loopVars, isCurrent, cancelled,
                         announceVars, buttonVars, barged, said, audioHistory, finished>>

\* STT, then the first alive check.  STT may raise.
Transcribe(r) ==
  /\ prod[r] = "stt"
  /\ \/ Goto(r, IF Alive(r) THEN "gate" ELSE "popBarge")
     \/ Goto(r, "error")
  /\ UNCHANGED <<kind, gen, made, queue, workerVars, fillerVars, client>>
  /\ BodyFrame

\* The wake gate and the transcript frame: dropped while asleep, nothing to
\* answer, or an utterance to answer (its TTS worker starts).
Gate(r) ==
  /\ prod[r] = "gate"
  /\ \/ Goto(r, "popBarge") /\ UNCHANGED <<client, work>>
     \/ Goto(r, "popBarge") /\ Send("transcript") /\ UNCHANGED work
     \/ Goto(r, "begin") /\ Send("transcript") /\ work' = [work EXCEPT ![r] = "get"]
  /\ UNCHANGED <<kind, gen, made, queue, item, fillerVars>>
  /\ BodyFrame

\* A typed utterance: the transcript frame, and with speech the worker and the
\* filler.
BeginTyped(r) ==
  /\ prod[r] = "typed"
  /\ Send("transcript")
  /\ Goto(r, "begin")
  /\ IF kind[r] = "typed"
     THEN work' = [work EXCEPT ![r] = "get"] /\ fill' = [fill EXCEPT ![r] = "tick"]
     ELSE UNCHANGED <<work, fill>>
  /\ UNCHANGED <<kind, gen, made, queue, item, fillers>>
  /\ BodyFrame

\* resolve_continue and the wake gate's outcome: a fixed reply (wake ack,
\* goodnight, refused continuation) needs no LLM; otherwise the LLM stream opens,
\* perhaps after a spoken wake ack, and a captured utterance starts its filler.
BeginReply(r) ==
  /\ prod[r] = "begin"
  /\ \/ /\ Goto(r, IF Voiced(r) THEN "fixed" ELSE "popBarge")
        /\ UNCHANGED fill
     \/ /\ \/ Goto(r, "llm")
           \/ kind[r] = "voice" /\ Goto(r, "llmPut")
        /\ fill' = IF kind[r] = "voice" THEN [fill EXCEPT ![r] = "tick"] ELSE fill
  /\ UNCHANGED <<kind, gen, made, queue, workerVars, fillers, client>>
  /\ BodyFrame

\* The sentences of a fixed reply, without an alive check between them.
PutFixed(r) ==
  /\ prod[r] = "fixed"
  /\ PutSentence(r)
  /\ \/ Goto(r, FinallyOf(r))
     \/ made[r] + 1 < MaxSentences /\ Goto(r, "fixed")
  /\ UNCHANGED <<kind, gen, workerVars, fillerVars, client>>
  /\ BodyFrame

\* The next item of agent.reply: the loop breaks when the reply is no longer
\* alive; a text delta may complete a sentence; the stream ends, and the rest of
\* the buffer is flushed; or the stream raises.
ReadStream(r) ==
  /\ prod[r] = "llm"
  /\ \/ Alive(r) /\ Voiced(r) /\ made[r] < MaxSentences /\ Goto(r, "llmPut")
     \/ Voiced(r) /\ made[r] < MaxSentences /\ Goto(r, "flushPut")
     \/ Goto(r, FinallyOf(r))
     \/ Goto(r, "error")
  /\ UNCHANGED <<kind, gen, made, queue, workerVars, fillerVars, client>>
  /\ BodyFrame

\* One delta (or a wake ack) may complete several sentences: no alive check
\* between them.
PutStreamed(r) ==
  /\ prod[r] = "llmPut"
  /\ PutSentence(r)
  /\ \/ Goto(r, "llm")
     \/ made[r] + 1 < MaxSentences /\ Goto(r, "llmPut")
  /\ UNCHANGED <<kind, gen, workerVars, fillerVars, client>>
  /\ BodyFrame

PutFlushed(r) ==
  /\ prod[r] = "flushPut"
  /\ PutSentence(r)
  /\ Goto(r, FinallyOf(r))
  /\ UNCHANGED <<kind, gen, workerVars, fillerVars, client>>
  /\ BodyFrame

\* except Exception: an error frame while the reply is alive.
CheckError(r) ==
  /\ prod[r] = "error"
  /\ Goto(r, IF Alive(r) THEN "sendError" ELSE FinallyOf(r))
  /\ UNCHANGED <<kind, gen, made, queue, workerVars, fillerVars, client>>
  /\ BodyFrame

SendError(r) ==
  /\ prod[r] = "sendError"
  /\ Send("error")
  /\ Goto(r, FinallyOf(r))
  /\ UNCHANGED <<kind, gen, made, queue, workerVars, fillerVars>>
  /\ BodyFrame
-----------------------------------------------------------------------------
(* The producer of scheduled speech: _speak_task_answer, _deliver_reminder *)

\* The scheduler delivers to a connection it found open.
Schedule(r) ==
  /\ ~closed /\ connected /\ SchedulerIdle
  /\ IsNext(r)
  /\ \E k \in Kinds \cap Scheduled : kind' = [kind EXCEPT ![r] = k]
  /\ Goto(r, "waiting")
  /\ UNCHANGED <<gen, made, queue, workerVars, fillerVars, client>>
  /\ BodyFrame

\* begin_scheduled_reply: wait for the slot, or give up when the connection is
\* closed.  No `end` frame announces the speech to the console.
BeginScheduled(r) ==
  /\ prod[r] = "waiting"
  /\ \/ /\ closed
        /\ Goto(r, "ended")
        /\ UNCHANGED <<sessionVars, gen, work>>
     \/ /\ ~closed
        /\ TakeSlot(r)
        /\ IF kind[r] = "task"
           THEN Goto(r, "taskNext") /\ work' = [work EXCEPT ![r] = "get"]
           ELSE Goto(r, "clip") /\ UNCHANGED work
  /\ UNCHANGED <<bargeMono, closed, loopVars, kind, made, isCurrent, cancelled, queue, item,
                 fillerVars, announceVars, client, buttonVars, barged, said, audioHistory,
                 finished>>

\* The loop over a task's sentences (at least one): an alive check each.
NextTaskSentence(r) ==
  /\ prod[r] = "taskNext"
  /\ \/ ~Alive(r) /\ Goto(r, "putDone")
     \/ Alive(r) /\ made[r] < MaxSentences /\ Goto(r, "taskPut")
     \/ made[r] > 0 /\ Goto(r, "putDone")
  /\ UNCHANGED <<kind, gen, made, queue, workerVars, fillerVars, client>>
  /\ BodyFrame

PutTaskSentence(r) ==
  /\ prod[r] = "taskPut"
  /\ PutSentence(r)
  /\ Goto(r, "taskNext")
  /\ UNCHANGED <<kind, gen, workerVars, fillerVars, client>>
  /\ BodyFrame

\* A reminder's clip, synthesized before the slot was taken; none when it is
\* text only or synthesis failed.  No alive check.
SendClip(r) ==
  /\ prod[r] = "clip"
  /\ \/ SendAudio(r)
     \/ UNCHANGED <<client, audioHistory>>
  /\ Goto(r, "endScheduled")
  /\ UNCHANGED <<sessionVars, bargeMono, closed, loopVars, producerVars, queue, workerVars,
                 fillerVars, announceVars, buttonVars, barged, said, finished>>

\* end_scheduled_reply
EndScheduled(r) ==
  /\ prod[r] = "endScheduled"
  /\ FreeSlot(r)
  /\ Goto(r, "replyDone")
  /\ UNCHANGED <<bargeMono, closed, loopVars, kind, gen, made, cancelled, queue, workerVars,
                 fillerVars, announceVars, client, buttonVars, barged, said, audioHistory,
                 finished>>
-----------------------------------------------------------------------------
(* The finally block of an utterance (and of a task, from putDone) *)

\* filler.stop(): set the event (Stopped) ...
StopFiller(r) ==
  /\ prod[r] = "stopFiller"
  /\ Goto(r, "joinFiller")
  /\ UNCHANGED <<kind, gen, made, queue, workerVars, fillerVars, client>>
  /\ BodyFrame

\* Mutant: the event is set, the thread is not joined.
FillerGone_NotJoined(r) == TRUE

\* ... and join the thread.  Its put gives up after 0.2 s, so the join's
\* timeout of 2 s is never reached.
FillerGone(r) == fill[r] = "over"

JoinFiller(r) ==
  /\ prod[r] = "joinFiller"
  /\ FillerGone(r)
  /\ Goto(r, "putDone")
  /\ UNCHANGED <<kind, gen, made, queue, workerVars, fillerVars, client>>
  /\ BodyFrame

PutDone(r) ==
  /\ prod[r] = "putDone"
  /\ Put(r, Sentinel)
  /\ Goto(r, "joinWorker")
  /\ UNCHANGED <<kind, gen, made, workerVars, fillerVars, client>>
  /\ BodyFrame

\* Mutant: the worker is not joined.
WorkerGone_NotJoined(r) == TRUE

WorkerGone(r) == work[r] \in {"done", "dead"}

JoinWorker(r) ==
  /\ prod[r] = "joinWorker"
  /\ WorkerGone(r)
  /\ Goto(r, IF kind[r] = "task" THEN "endScheduled" ELSE "popBarge")
  /\ UNCHANGED <<kind, gen, made, queue, workerVars, fillerVars, client>>
  /\ BodyFrame

OwnTimestamp(r) == bargeMono \cap {gen[r]}

\* session.barge_mono.pop(gen, None), before the lock region.
PopBarge(r) ==
  /\ prod[r] = "popBarge"
  /\ cancelled' = [cancelled EXCEPT ![r] = OwnTimestamp(r) # {}]
  /\ bargeMono' = bargeMono \ OwnTimestamp(r)
  /\ Goto(r, "freeSlot")
  /\ UNCHANGED <<sessionVars, closed, loopVars, kind, gen, made, isCurrent, queue, workerVars,
                 fillerVars, announceVars, client, buttonVars, barged, said, audioHistory,
                 finished>>

EndUtterance(r) ==
  /\ prod[r] = "freeSlot"
  /\ FreeSlot(r)
  /\ Goto(r, "replyDone")
  /\ UNCHANGED <<bargeMono, closed, loopVars, kind, gen, made, cancelled, queue, workerVars,
                 fillerVars, announceVars, client, buttonVars, barged, said, audioHistory,
                 finished>>

\* reply_done, after the turn was stored: the slot has been free for a while.
\* The thread ends, its locals with it.
SendDone(r) ==
  /\ prod[r] = "replyDone"
  /\ Goto(r, "ended")
  /\ IF isCurrent[r] THEN SendReplyDone(r)
                     ELSE UNCHANGED <<client, finished>>
  /\ made' = [made EXCEPT ![r] = 0]
  /\ isCurrent' = [isCurrent EXCEPT ![r] = FALSE]
  /\ cancelled' = [cancelled EXCEPT ![r] = FALSE]
  /\ fillers' = [fillers EXCEPT ![r] = 0]
  /\ said' = [said EXCEPT ![r] = <<>>]
  /\ UNCHANGED <<sessionVars, bargeMono, closed, loopVars, kind, gen, queue, workerVars,
                 fill, announceVars, buttonVars, barged, audioHistory>>

Producer(r) ==
  \/ Transcribe(r) \/ Gate(r) \/ BeginTyped(r) \/ BeginReply(r) \/ PutFixed(r)
  \/ ReadStream(r) \/ PutStreamed(r) \/ PutFlushed(r) \/ CheckError(r) \/ SendError(r)
  \/ BeginScheduled(r) \/ NextTaskSentence(r) \/ PutTaskSentence(r) \/ SendClip(r)
  \/ EndScheduled(r) \/ StopFiller(r) \/ JoinFiller(r) \/ PutDone(r) \/ JoinWorker(r)
  \/ PopBarge(r) \/ EndUtterance(r) \/ SendDone(r)
-----------------------------------------------------------------------------
(* _tts_worker *)

\* What every worker step leaves alone.
WorkerFrame == UNCHANGED <<sessionVars, bargeMono, closed, loopVars, producerVars, prod,
                           fillerVars, announceVars, buttonVars, barged, finished>>

Become(r, w) == work' = [work EXCEPT ![r] = w]

\* The next iteration: the item is forgotten.
BackToGet(r) == Become(r, "get") /\ item' = [item EXCEPT ![r] = Sentinel]

\* q.get()
Get(r) ==
  /\ work[r] = "get"
  /\ queue[r] # <<>>
  /\ queue' = [queue EXCEPT ![r] = Tail(@)]
  /\ item' = [item EXCEPT ![r] = Head(queue[r])]
  /\ Become(r, IF Head(queue[r]) = Sentinel THEN "done" ELSE "check")
  /\ UNCHANGED <<client, said, audioHistory>>
  /\ WorkerFrame

\* The check before synthesis: stale work is dropped.
CheckBefore(r) ==
  /\ work[r] = "check"
  /\ IF Alive(r) THEN Become(r, "synth") /\ UNCHANGED item ELSE BackToGet(r)
  /\ UNCHANGED <<queue, client, said, audioHistory>>
  /\ WorkerFrame

\* A sentence of a living reply has been dealt with.
Settle(r) == said' = IF item[r] # Filler /\ Alive(r)
                     THEN [said EXCEPT ![r] = Append(@, item[r][2])] ELSE said

\* tts.synthesize: audio, silence, or an exception that ends the thread; then
\* the checks after synthesis and before the send.  A reply never comes back to
\* life, so passing both is passing the second.
Synthesize(r) ==
  /\ work[r] = "synth"
  /\ \/ Alive(r) /\ Become(r, "send") /\ UNCHANGED <<item, said>>
     \/ BackToGet(r) /\ Settle(r)
     \/ TTSMayRaise /\ Become(r, "dead") /\ UNCHANGED <<item, said>>
  /\ UNCHANGED <<queue, client, audioHistory>>
  /\ WorkerFrame

SendChunk(r) ==
  /\ work[r] = "send"
  /\ SendAudio(r)
  /\ Settle(r)
  /\ BackToGet(r)
  /\ UNCHANGED queue
  /\ WorkerFrame

Worker(r) == Get(r) \/ CheckBefore(r) \/ Synthesize(r) \/ SendChunk(r)
-----------------------------------------------------------------------------
(* ThinkingFiller._run *)

FillerFrame == UNCHANGED <<sessionVars, bargeMono, closed, loopVars, producerVars, prod,
                           workerVars, announceVars, client, buttonVars, barged,
                           said, audioHistory, finished>>

Stopped(r) == prod[r] = "joinFiller"

\* The bound on filler phrases, and none is on its way.
FillersLeft ==
  \A r \in Replies : fillers[r] < MaxFillers /\ fill[r] # "phrase"

\* One tick: stopped, not alive any more, or silent long enough for a phrase.
Tick(r) ==
  /\ fill[r] = "tick"
  /\ \/ (Stopped(r) \/ ~Alive(r)) /\ fill' = [fill EXCEPT ![r] = "over"]
     \/ Alive(r) /\ FillersLeft /\ fill' = [fill EXCEPT ![r] = "phrase"]
  /\ UNCHANGED <<queue, fillers>>
  /\ FillerFrame

\* put with a timeout: a full queue skips the tick.
PutPhrase(r) ==
  /\ fill[r] = "phrase"
  /\ fill' = [fill EXCEPT ![r] = "tick"]
  /\ \/ Put(r, Filler) /\ fillers' = [fillers EXCEPT ![r] = @ + 1]
     \/ Len(queue[r]) = QueueSize /\ UNCHANGED <<queue, fillers>>
  /\ FillerFrame

FillerThread(r) == Tick(r) \/ PutPhrase(r)
-----------------------------------------------------------------------------
(* Frames sent outside the slot *)

AnnounceFrame == UNCHANGED <<sessionVars, bargeMono, closed, loopVars, producerVars, prod,
                             queue, workerVars, fillerVars, buttonVars, barged, said,
                             audioHistory>>

\* _wake_tick found the session idle and no reply active: _speak_goodnight
\* starts a thread of its own.
StartGoodnight ==
  /\ loop = "idle" /\ connected /\ (closed \/ ~replyActive)
  /\ announce = "none" /\ announced < MaxAnnouncements
  /\ announce' = "clip" /\ announced' = announced + 1
  /\ UNCHANGED <<client, finished>>
  /\ AnnounceFrame

\* The result of a text-only task, from the scheduler thread.
StartTextResult ==
  /\ ~closed /\ SchedulerIdle
  /\ announce = "none" /\ announced < MaxAnnouncements
  /\ announce' = "done" /\ announced' = announced + 1
  /\ UNCHANGED <<client, finished>>
  /\ AnnounceFrame

\* The goodnight clip; nothing when synthesis yields silence, and the thread
\* gives up when it raises.
AnnounceClip ==
  /\ announce = "clip"
  /\ \/ Send("audio") /\ announce' = "done"
     \/ UNCHANGED client /\ announce' \in {"done", "none"}
  /\ UNCHANGED <<announced, finished>>
  /\ AnnounceFrame

AnnounceDone ==
  /\ announce = "done"
  /\ SendReplyDone(NoReply)
  /\ announce' = "none"
  /\ UNCHANGED announced
  /\ AnnounceFrame

Announcer == AnnounceClip \/ AnnounceDone
-----------------------------------------------------------------------------
(* The receive loop's own work, as opposed to what the user makes it do. *)
LoopWork == Release \/ Drain \/ PutBack \/ Ack

Environment ==
  \/ \E r \in Replies : StartVoice(r) \/ StartTyped(r) \/ Schedule(r)
  \/ RefuseTyped \/ BargeIn \/ Disconnect \/ SendFailed
  \/ StartGoodnight \/ StartTextResult

Next ==
  \/ Environment
  \/ LoopWork
  \/ \E r \in Replies : Producer(r) \/ Worker(r) \/ FillerThread(r)
  \/ Announcer

Spec == Init /\ [][Next]_vars

\* Every thread the program starts keeps running; the user and the network owe
\* nothing.
Fairness ==
  /\ WF_vars(LoopWork)
  /\ WF_vars(Announcer)
  /\ \A r \in Replies : /\ WF_vars(Producer(r))
                        /\ WF_vars(Worker(r))
                        /\ WF_vars(FillerThread(r))

FairSpec == Spec /\ Fairness
-----------------------------------------------------------------------------
(* Safety *)

\* The states between taking the slot and giving it back.
OutOfSlot == {"unused", "waiting", "replyDone", "ended"}
InSlot(r) == prod[r] \notin OutOfSlot

\* The slot is never left taken by nobody (the microphone would stay deaf until
\* a barge-in), and a reply that was not barged in on keeps the slot until its
\* own finally block: a reply still unwinding cannot free a newer reply's slot
\* (is_current in the finally blocks, end_scheduled_reply).
SlotOwner ==
  /\ replyActive => \E r \in Replies : InSlot(r) /\ Owns(r) /\ ttsQueue = r
  /\ \A r \in Replies : InSlot(r) => Owns(r) \/ r \in barged

Fresh(r) == prod[r] \in {"unused", "waiting"}

\* The inductive form of SlotOwner: generations are handed out once, to one
\* reply each, and a barge-in leaves the generation it ended behind.
SlotInv ==
  /\ SlotOwner
  /\ \A r \in Replies : gen[r] <= generation
  /\ \A r \in Replies : Fresh(r) => gen[r] = 0 /\ r \notin barged
  /\ \A r \in Replies : InSlot(r) => gen[r] > 0
  /\ \A r, s \in Replies : gen[r] = gen[s] /\ gen[r] > 0 => r = s
  /\ \A r \in barged : gen[r] < generation

\* When reply_done is sent, every sentence the reply produced was sent, in
\* order, or found to be silence: one queue, one worker, the sentinel last and
\* worker.join() before the slot is freed (_handle_utterance, _tts_worker).
CompleteBeforeDone ==
  [][~TTSMayRaise =>
       \A r \in finished' \ finished : said[r] = [n \in 1 .. made[r] |-> n]]_vars

\* What a barge-in leaves of the reply it ended.  At most one more audio frame comes
\* out: the one whose pre-send check had passed (_tts_worker, _deliver_reminder).
AtMostOneStale == \A r \in Replies : stale[r] <= 1

\* The bench line calls a reply cancelled only if a barge-in took its slot: a
\* timestamp recorded for one generation is never popped by another reply.
CancelledIsBarged == \A r \in Replies : cancelled[r] => r \in barged

\* Both: only the interrupted reply is cut off, and it falls silent.
BargeInSound == AtMostOneStale /\ CancelledIsBarged

\* release() puts the drained sentinel back with put_nowait: there is room,
\* because the filler was joined before the sentinel was queued and nothing is
\* queued behind it.
SentinelRoom ==
  loop = "putBack" => queue[draining] = <<>>

\* Audio of a reply the user started is played: the `end` frame lifted the
\* console's audio drop, and a barge_ack of an earlier barge-in cannot arrive
\* after it (start_utterance, S.dropAudio in static/app.js).
FreshAudioPlayed ==
  \A r \in Replies : kind[r] \notin Scheduled => muted[r] = 0

\* Nothing is running and nothing is on its way.
Quiescent == /\ \A r \in Replies : prod[r] \in {"unused", "ended"}
             /\ loop = "idle" /\ announce = "none" /\ ~bargePending

\* Without barge-ins the console is back at idle when the server is: every path
\* out of a reply, the silent ones included, ends in a reply_done.
UiRests == Quiescent /\ barges = 0 /\ ~closed => client.ui = "idle"

\* VoiceReply keeps the promise of ReplySlot.
Holder == IF replyActive THEN ttsQueue ELSE NoReply
Phase(r) == IF Holder = r THEN "holding"
            ELSE IF Fresh(r) THEN "fresh" ELSE "over"

Slot == INSTANCE ReplySlot WITH owner <- Holder, phase <- [r \in Replies |-> Phase(r)]

SlotSpec == Slot!Spec
-----------------------------------------------------------------------------
(* Liveness, of FairSpec *)

\* Every reply and every scheduled speech comes to its end: no producer hangs on
\* a full queue or in a join, barged in on or not.
ReplyEnds == \A r \in Replies : (prod[r] # "unused") ~> (prod[r] = "ended")

\* What a step depends on: ReplyEnds is checked up to the history variables and
\* the console.
LiveView == <<sessionVars, bargeMono, closed, loopVars, producerVars, prod, queue, workerVars,
              fillerVars, announceVars, buttonVars>>
=============================================================================
