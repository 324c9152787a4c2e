------------------------------ MODULE Listening ------------------------------
(***************************************************************************)
(* The wake phrase (app/wake.py) and everything that reads or changes it:  *)
(* the microphone frames of the consoles (_on_audio with the idle timeout, *)
(* _wake_tick), the utterances' threads with their wake gate               *)
(* (_handle_utterance), the wake button, a change of the settings, and the *)
(* broadcasts that tell the consoles.                                      *)
(*                                                                         *)
(* WakeState has a lock of its own; each call of it is one step.  Frames   *)
(* and commands run on the event loop, one at a time.  Where an utterance  *)
(* starts and ends is left open here (module VoiceActivity), and a reply   *)
(* holds its console's slot until it ends or is barged in on (VoiceReply). *)
(* A console whose connection has failed counts as disconnected, and the   *)
(* frame a new console is greeted with is read and sent at once.           *)
(***************************************************************************)
EXTENDS Naturals, FiniteSets

CONSTANTS Consoles, Loop, None,
          Replies,        \* utterances, and typed and scheduled replies
          Timeout         \* ticks of the idle clock

ASSUME ListeningAssumption ==
  Timeout \in Nat /\ None \notin Consoles \cup Replies /\ Loop \notin Replies

Procs == Replies \cup {Loop}

VARIABLES
  enabled,      \* a wake phrase is configured
  active,       \* vivo is awake
  idle,         \* the ticks since the last exchange, up to Timeout; 0 while vivo sleeps
  open,         \* the consoles with a connection (_ACTIVE)
  speech,       \* [c] the utterance its VAD has in progress: "none", "fresh", or
                \* "early" if the wake button came since it began
  reply,        \* [c] who has the reply slot, or None
  shown,        \* [c] the state in the last wake frame
  loop,         \* what the event loop is at: a step of _on_audio, and its console
  pc, at, asleep,    \* per reply: its thread, console and snapshot
  cast,         \* [p] the broadcast p is at: its step, and what it read
  \* history
  quiet,        \* utterances that ended while vivo slept, or began before the wake button
  overheard,    \* one of them was answered without the wake phrase
  caught,       \* the timeout came while a reply to an utterance was in progress
  crossed       \* the state changed while a broadcast was under way

wake == <<enabled, active, idle>>
threads == <<pc, at, asleep>>
history == <<quiet, overheard, caught, crossed>>
vars == <<wake, open, speech, reply, shown, loop, threads, cast, history>>

NoCast == [step |-> "none", frame |-> FALSE]

\* Every variable has its type.
TypeOK ==
  /\ {enabled, active, overheard, caught, crossed} \subseteq BOOLEAN /\ idle \in 0 .. Timeout
  /\ open \subseteq Consoles
  /\ speech \in [Consoles -> {"none", "fresh", "early"}]
  /\ reply \in [Consoles -> Replies \cup {None}]
  /\ shown \in [Consoles -> BOOLEAN]
  /\ loop \in [step : {"idle", "claim", "audio"}, c : Consoles \cup {None}]
  /\ pc \in [Replies -> {"new", "stt", "gate", "sleep", "touch", "answer", "over"}]
  /\ at \in [Replies -> Consoles \cup {None}] /\ asleep \in [Replies -> BOOLEAN]
  /\ cast \in [Procs -> [step : {"none", "read", "send"}, frame : BOOLEAN]]
  /\ quiet \subseteq Replies

Init ==
  /\ enabled = TRUE /\ active = FALSE /\ idle = 0
  /\ open = {} /\ speech = [c \in Consoles |-> "none"]
  /\ reply = [c \in Consoles |-> None] /\ shown = [c \in Consoles |-> FALSE]
  /\ loop = [step |-> "idle", c |-> None]
  /\ pc = [u \in Replies |-> "new"] /\ at = [u \in Replies |-> None]
  /\ asleep = [u \in Replies |-> FALSE]
  /\ cast = [p \in Procs |-> NoCast]
  /\ quiet = {} /\ overheard = FALSE /\ caught = FALSE /\ crossed = FALSE
-----------------------------------------------------------------------------
Sleeping == enabled /\ ~active

\* p is past the read of its broadcast, and not through with it.
UnderWay(p) == cast[p].step = "send"

Casting(p) == cast[p].step # "none"

\* The state changes, and p is going to say so.
Becomes(p, b) ==
  /\ active' = b
  /\ crossed' = (crossed \/ (active # b /\ \E q \in Procs \ {p} : UnderWay(q)))
  /\ cast' = [cast EXCEPT ![p].step = "read"]

\* broadcast_wake reads the state ...
ReadState(p) ==
  /\ cast[p].step = "read"
  /\ cast' = [cast EXCEPT ![p] = [step |-> "send", frame |-> active]]
  /\ crossed' = (crossed /\ \E q \in Procs \ {p} : UnderWay(q))
  /\ UNCHANGED <<wake, open, speech, reply, shown, loop, threads, quiet, overheard, caught>>

\* ... and sends every console what it has read.
SendFrames(p) ==
  /\ cast[p].step = "send"
  /\ shown' = [c \in Consoles |-> IF c \in open THEN cast[p].frame ELSE shown[c]]
  /\ cast' = [cast EXCEPT ![p] = NoCast]
  /\ UNCHANGED <<wake, open, speech, reply, loop, threads, history>>

Broadcast(p) == ReadState(p) \/ SendFrames(p)
-----------------------------------------------------------------------------
(* The event loop *)

LoopFree == loop.step = "idle" /\ ~Casting(Loop)

\* serve_session: the console is listed, and told the state.
Connect(c) ==
  /\ LoopFree /\ c \notin open
  /\ open' = open \cup {c}
  /\ shown' = [shown EXCEPT ![c] = active]
  /\ UNCHANGED <<wake, speech, reply, loop, threads, cast, history>>

\* Its finally block.
Disconnect(c) ==
  /\ LoopFree /\ c \in open
  /\ open' = open \ {c}
  /\ speech' = [speech EXCEPT ![c] = "none"] /\ reply' = [reply EXCEPT ![c] = None]
  /\ shown' = [shown EXCEPT ![c] = FALSE]
  /\ UNCHANGED <<wake, loop, threads, cast, history>>

\* Mutant: only the console the frame comes from is asked.
AnyReplyActive_Own(c) == reply[c] # None

\* _any_reply_active
AnyReplyActive(c) == \E d \in open : reply[d] # None

\* Mutant: without a phrase the snapshot is not a Boolean.
Snapshot_NoPhrase == IF enabled THEN ~active ELSE None

\* start_utterance: was vivo asleep when the utterance ended?
Snapshot == Sleeping

\* The next reply of the run; they are alike.
IsNext(u) == pc[u] = "new" /\ u = CHOOSE v \in Replies : pc[v] = "new"

\* An utterance has ended; while a reply is active it is lost.
Capture(c) ==
  /\ speech[c] # "none"
  /\ speech' = [speech EXCEPT ![c] = "none"]
  /\ IF reply[c] # None THEN UNCHANGED <<reply, threads, quiet>>
     ELSE \E u \in Replies :
            /\ IsNext(u)
            /\ reply' = [reply EXCEPT ![c] = u]
            /\ pc' = [pc EXCEPT ![u] = "stt"] /\ at' = [at EXCEPT ![u] = c]
            /\ asleep' = [asleep EXCEPT ![u] = Snapshot]
            /\ quiet' = IF Sleeping \/ speech[c] = "early" THEN quiet \cup {u} ELSE quiet

\* What the VAD makes of a frame: nothing, an utterance begins, is dropped or
\* ends.  While the console has a reply it is not asked.
Hears(c) ==
  \/ UNCHANGED <<speech, reply, threads, quiet>>
  \/ /\ reply[c] = None
     /\ speech' = [speech EXCEPT ![c] = IF @ = "none" THEN "fresh" ELSE "none"]
     /\ UNCHANGED <<reply, threads, quiet>>
  \/ reply[c] = None /\ Capture(c)

LoopAt(s, c) == loop' = [step |-> s, c |-> c]

\* _on_audio: first _wake_tick, where the timeout waits while a reply is active,
\* then the VAD.
Frame(c) ==
  /\ LoopFree /\ c \in open
  /\ IF active /\ ~AnyReplyActive(c)
     THEN LoopAt("claim", c) /\ UNCHANGED <<speech, reply, threads, quiet>>
     ELSE Hears(c) /\ UNCHANGED loop
  /\ UNCHANGED <<wake, open, shown, cast, overheard, caught, crossed>>

\* u is current on an open console (VoiceSession.alive).
Alive(u) == at[u] \in open /\ reply[at[u]] = u

\* claim_sleep.  The goodnight, a clip outside the reply slot, is left out.
Claim ==
  /\ loop.step = "claim"
  /\ IF active /\ idle = Timeout
     THEN /\ Becomes(Loop, FALSE)
          /\ idle' = 0
          /\ caught' = (caught \/ \E u \in Replies : Alive(u))
          /\ LoopAt("audio", loop.c)
          /\ UNCHANGED <<speech, reply, threads, quiet>>
     ELSE Hears(loop.c) /\ LoopAt("idle", None) /\ UNCHANGED <<active, idle, cast, caught, crossed>>
  /\ UNCHANGED <<enabled, open, shown, overheard>>

\* The VAD, after a broadcast.
Audio ==
  /\ loop.step = "audio" /\ ~Casting(Loop)
  /\ Hears(loop.c) /\ LoopAt("idle", None)
  /\ UNCHANGED <<wake, open, shown, cast, overheard, caught, crossed>>

\* The command flush: an utterance in progress ends.
FlushCommand(c) ==
  /\ LoopFree /\ c \in open
  /\ Capture(c)
  /\ UNCHANGED <<wake, open, shown, loop, cast, overheard, caught, crossed>>

BargeIn(c) ==
  /\ LoopFree /\ c \in open /\ reply[c] # None
  /\ reply' = [reply EXCEPT ![c] = None]
  /\ UNCHANGED <<wake, open, speech, shown, loop, threads, cast, history>>

\* manual_wake: vivo wakes and what the open consoles have in progress is
\* dropped.  What was captured is not, but its snapshot says asleep.
WakeButton(c) ==
  /\ LoopFree /\ c \in open /\ enabled /\ ~active
  /\ Becomes(Loop, TRUE)
  /\ idle' = 0
  /\ speech' = [d \in Consoles |-> IF d \in open THEN "none"
                                   ELSE IF speech[d] = "none" THEN "none" ELSE "early"]
  /\ UNCHANGED <<enabled, open, reply, shown, loop, threads, quiet, overheard, caught>>

\* POST /api/config: the phrase is set or cleared; vivo stays awake if it is.
Update ==
  /\ LoopFree
  /\ enabled' = ~enabled
  /\ cast' = [cast EXCEPT ![Loop].step = "read"]
  /\ UNCHANGED <<active, idle, open, speech, reply, shown, loop, threads, history>>
-----------------------------------------------------------------------------
(* An utterance's thread *)

Step(u, s) == pc' = [pc EXCEPT ![u] = s]

\* Mutant: a dropped utterance keeps the slot.
Freed_IfAnswered(u) ==
  [c \in Consoles |-> IF reply[c] = u /\ pc[u] = "answer" THEN None ELSE reply[c]]

Freed(u) == [c \in Consoles |-> IF reply[c] = u THEN None ELSE reply[c]]

\* Its finally block: the slot is freed if it is still its own.
Finish(u) ==
  /\ Step(u, "over")
  /\ asleep' = [asleep EXCEPT ![u] = FALSE] /\ quiet' = quiet \ {u}
  /\ at' = [at EXCEPT ![u] = None]
  /\ reply' = Freed(u)

Stays == UNCHANGED <<reply, at, asleep, quiet>>

ThreadFrame == UNCHANGED <<enabled, open, speech, shown, loop, caught>>

\* STT, after which an utterance that was barged in on ends.
Transcribe(u) ==
  /\ pc[u] = "stt"
  /\ IF Alive(u) THEN Step(u, "gate") /\ Stays ELSE Finish(u)
  /\ UNCHANGED <<active, idle, cast, overheard, crossed>>
  /\ ThreadFrame

\* The gate of an utterance that ended while vivo slept: it has the phrase and
\* wakes, ...
GateWakes(u) ==
  /\ pc[u] = "gate" /\ asleep[u] /\ enabled
  /\ Becomes(u, TRUE)
  /\ idle' = IF active THEN idle ELSE 0
  /\ Step(u, "answer")
  /\ Stays /\ UNCHANGED overheard
  /\ ThreadFrame

\* ... or has not, or the phrase was cleared, and is dropped.
GateDrops(u) ==
  /\ pc[u] = "gate" /\ asleep[u]
  /\ Finish(u)
  /\ UNCHANGED <<active, idle, cast, overheard, crossed>>
  /\ ThreadFrame

\* The gate of any other; an end phrase counts while vivo is awake.  The worst
\* case for the history is that it does not have the wake phrase.
GateAwake(u) ==
  /\ pc[u] = "gate" /\ ~asleep[u]
  /\ IF active THEN Step(u, "sleep") \/ Step(u, "touch") ELSE Step(u, "answer")
  /\ overheard' = (overheard \/ u \in quiet)
  /\ Stays /\ UNCHANGED <<active, idle, cast, crossed>>
  /\ ThreadFrame

\* wake.sleep()
EndPhrase(u) ==
  /\ pc[u] = "sleep"
  /\ Becomes(u, FALSE)
  /\ idle' = 0
  /\ Step(u, "answer")
  /\ Stays /\ UNCHANGED overheard
  /\ ThreadFrame

\* wake.touch()
Touch(u) ==
  /\ pc[u] = "touch"
  /\ idle' = 0
  /\ Step(u, "answer")
  /\ Stays /\ UNCHANGED <<active, cast, overheard, crossed>>
  /\ ThreadFrame

\* The reply, then the finally block.
Answer(u) ==
  /\ pc[u] = "answer" /\ ~Casting(u)
  /\ Finish(u)
  /\ UNCHANGED <<active, idle, cast, overheard, crossed>>
  /\ ThreadFrame

Thread(u) ==
  \/ Transcribe(u) \/ GateWakes(u) \/ GateDrops(u) \/ GateAwake(u) \/ EndPhrase(u) \/ Touch(u)
  \/ Answer(u)
-----------------------------------------------------------------------------
\* A typed utterance or scheduled speech takes a free slot.
OtherReply(u, c) ==
  /\ IsNext(u) /\ c \in open /\ reply[c] = None
  /\ reply' = [reply EXCEPT ![c] = u]
  /\ Step(u, "answer")
  /\ UNCHANGED <<wake, open, speech, shown, loop, at, asleep, cast, history>>

\* Time passes.
Tick ==
  /\ active /\ idle < Timeout
  /\ idle' = idle + 1
  /\ UNCHANGED <<enabled, active, open, speech, reply, shown, loop, threads, cast, history>>

Next ==
  \/ Claim \/ Audio \/ Update \/ Tick
  \/ \E c \in Consoles :
       \/ Connect(c) \/ Disconnect(c) \/ Frame(c) \/ FlushCommand(c)
       \/ BargeIn(c) \/ WakeButton(c)
  \/ \E u \in Replies : Thread(u) \/ \E c \in Consoles : OtherReply(u, c)
  \/ \E p \in Procs : Broadcast(p)

\* Threads and the loop run on, replies end (VoiceReply), time passes, and some
\* console connects and its microphone goes on sending frames.
Fairness ==
  /\ WF_vars(Tick) /\ WF_vars(Claim) /\ WF_vars(Audio)
  /\ SF_vars(\E c \in Consoles : Connect(c)) /\ SF_vars(\E c \in Consoles : Frame(c))
  /\ \A u \in Replies : WF_vars(Thread(u))
  /\ \A p \in Procs : WF_vars(Broadcast(p))

Spec == Init /\ [][Next]_vars
FairSpec == Spec /\ Fairness
-----------------------------------------------------------------------------
\* Nothing that was said while vivo slept, or before the wake button, is answered
\* unless it has the wake phrase ("a manual wake pressed while STT is still
\* running must not process this pre-wake utterance"), on a console whose
\* connection lives.
OnlyWoken == ~overheard

\* The timeout never comes while an utterance is being answered, on any console.
NeverCaught == ~caught

\* When no broadcast is under way every console shows the state, unless a change
\* crossed the last one.
ShownIsTrue ==
  ~crossed /\ (\A p \in Procs : ~Casting(p)) => \A c \in open : shown[c] = active

WakeSound == OnlyWoken /\ NeverCaught /\ ShownIsTrue

\* Awake and left alone, vivo goes to sleep: however replies overlap and whatever
\* is done to the settings, the idle timeout comes through.
GoesToSleep == active ~> ~active
=============================================================================
