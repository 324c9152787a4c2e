--------------------------- MODULE ListeningProofs ---------------------------
(***************************************************************************)
(* Proofs about Listening: the types, and WakeSound, for any number of     *)
(* consoles and replies and any timeout.                                   *)
(***************************************************************************)
EXTENDS Listening, TLAPS

\* Facts about the types of what the steps share.
LEMMA CastTypes ==
  ASSUME TypeOK, NEW p \in Procs, NEW s \in {"none", "read", "send"}, NEW b \in BOOLEAN
  PROVE  /\ [cast EXCEPT ![p].step = s] \in [Procs -> [step : {"none", "read", "send"},
                                                       frame : BOOLEAN]]
         /\ [cast EXCEPT ![p] = [step |-> s, frame |-> b]]
              \in [Procs -> [step : {"none", "read", "send"}, frame : BOOLEAN]]
BY DEF TypeOK

LEMMA FinishTypes ==
  ASSUME TypeOK, NEW u \in Replies, Finish(u)
  PROVE  /\ pc' \in [Replies -> {"new", "stt", "gate", "sleep", "touch", "answer", "over"}]
         /\ at' \in [Replies -> Consoles \cup {None}] /\ asleep' \in [Replies -> BOOLEAN]
         /\ reply' \in [Consoles -> Replies \cup {None}] /\ quiet' \subseteq Replies
BY DEF TypeOK, Finish, Freed, Step

LEMMA CaptureTypes ==
  ASSUME TypeOK, NEW c \in Consoles, Hears(c) \/ Capture(c)
  PROVE  /\ speech' \in [Consoles -> {"none", "fresh", "early"}]
         /\ reply' \in [Consoles -> Replies \cup {None}]
         /\ pc' \in [Replies -> {"new", "stt", "gate", "sleep", "touch", "answer", "over"}]
         /\ at' \in [Replies -> Consoles \cup {None}] /\ asleep' \in [Replies -> BOOLEAN]
         /\ quiet' \subseteq Replies
<1>1. CASE Capture(c)
  <2>1. CASE reply[c] # None
    BY <1>1, <2>1 DEF TypeOK, Capture, threads
  <2>2. CASE reply[c] = None
    <3>1. PICK u \in Replies :
            /\ reply' = [reply EXCEPT ![c] = u]
            /\ pc' = [pc EXCEPT ![u] = "stt"] /\ at' = [at EXCEPT ![u] = c]
            /\ asleep' = [asleep EXCEPT ![u] = Snapshot]
            /\ quiet' = IF Sleeping \/ speech[c] = "early" THEN quiet \cup {u} ELSE quiet
      BY <1>1, <2>2 DEF Capture
    <3>2. Snapshot \in BOOLEAN
      BY DEF Snapshot, Sleeping
    <3>3. asleep' \in [Replies -> BOOLEAN]
      BY <3>1, <3>2 DEF TypeOK
    <3>4. quiet' \subseteq Replies
      BY <3>1, Zenon DEF TypeOK
    <3>5. speech' \in [Consoles -> {"none", "fresh", "early"}]
      BY <1>1 DEF TypeOK, Capture
    <3>6. QED BY <3>1, <3>3, <3>4, <3>5 DEF TypeOK
  <2>3. QED BY <2>1, <2>2
<1>2. CASE Hears(c) /\ ~Capture(c)
  BY <1>2 DEF TypeOK, Hears, threads
<1>3. QED BY <1>1, <1>2

\* The flags, and all the other types.
Flags == {enabled, active, overheard, caught, crossed} \subseteq BOOLEAN
Others ==
  /\ idle \in 0 .. Timeout
  /\ open \subseteq Consoles
  /\ speech \in [Consoles -> {"none", "fresh", "early"}]
  /\ reply \in [Consoles -> Replies \cup {None}]
  /\ shown \in [Consoles -> BOOLEAN]
  /\ loop \in [step : {"idle", "claim", "audio"}, c : Consoles \cup {None}]
  /\ pc \in [Replies -> {"new", "stt", "gate", "sleep", "touch", "answer", "over"}]
  /\ at \in [Replies -> Consoles \cup {None}] /\ asleep \in [Replies -> BOOLEAN]
  /\ cast \in [Procs -> [step : {"none", "read", "send"}, frame : BOOLEAN]]
  /\ quiet \subseteq Replies

LEMMA TypeParts == TypeOK <=> Flags /\ Others
BY DEF TypeOK, Flags, Others

\* The loop works for a console with a connection.
LoopServes == loop.step # "idle" => loop.c \in open

Types == TypeOK /\ LoopServes

LEMMA BecomesTypes ==
  ASSUME TypeOK, NEW p \in Procs, NEW b \in BOOLEAN, Becomes(p, b)
  PROVE  /\ active' \in BOOLEAN /\ crossed' \in BOOLEAN
         /\ cast' \in [Procs -> [step : {"none", "read", "send"}, frame : BOOLEAN]]
<1>1. cast' \in [Procs -> [step : {"none", "read", "send"}, frame : BOOLEAN]]
  BY CastTypes DEF Becomes
<1>2. crossed' \in BOOLEAN
  BY Zenon DEF Becomes
<1>3. QED BY <1>1, <1>2 DEF Becomes

\* The steps of the event loop keep the types ...
LEMMA LoopTypes ==
  ASSUME Types,
         \/ Claim \/ Audio \/ Update \/ Tick
         \/ \E c \in Consoles :
              \/ Connect(c) \/ Disconnect(c) \/ Frame(c) \/ FlushCommand(c)
              \/ BargeIn(c) \/ WakeButton(c)
  PROVE  Types'
<1>0. /\ Loop \in Procs /\ Timeout \in Nat /\ 0 \in 0 .. Timeout /\ TypeOK /\ LoopServes
      /\ Flags /\ Others
  BY ListeningAssumption, TypeParts DEF Procs, Types
<1>1. SUFFICES Flags' /\ Others' /\ LoopServes'
  BY TypeParts DEF TypeOK, Types, Flags, Others
<1>2. CASE Claim
  <2>0. loop.c \in open /\ loop.c \in Consoles
    BY <1>0, <1>2 DEF Claim, LoopServes, Others
  <2>1. CASE active /\ idle = Timeout
    <3>1. /\ Becomes(Loop, FALSE) /\ idle' = 0
          /\ caught' = (caught \/ \E u \in Replies : Alive(u))
          /\ loop' = [step |-> "audio", c |-> loop.c]
          /\ UNCHANGED <<speech, reply, pc, at, asleep, quiet, enabled, open, shown, overheard>>
      BY <1>2, <2>1 DEF Claim, LoopAt, threads
    <3>2. caught' \in BOOLEAN
      BY <3>1, Zenon
    <3>3. QED BY <1>0, <2>0, <3>1, <3>2, BecomesTypes DEF Flags, Others, LoopServes
  <2>2. CASE ~(active /\ idle = Timeout)
    <3>1. /\ Hears(loop.c) /\ loop' = [step |-> "idle", c |-> None]
          /\ UNCHANGED <<active, idle, cast, caught, crossed, enabled, open, shown, overheard>>
      BY <1>2, <2>2 DEF Claim, LoopAt
    <3>2. QED BY <1>0, <2>0, <3>1, CaptureTypes DEF Flags, Others, LoopServes
  <2>3. QED BY <2>1, <2>2
<1>3. CASE Audio
  <2>1. loop.c \in Consoles
    BY <1>0, <1>3 DEF Audio, LoopServes, Others
  <2>2. /\ Hears(loop.c) /\ loop' = [step |-> "idle", c |-> None]
        /\ UNCHANGED <<enabled, active, idle, open, shown, cast, overheard, caught, crossed>>
    BY <1>3 DEF Audio, LoopAt, wake
  <2>3. QED BY <1>0, <2>1, <2>2, CaptureTypes DEF Flags, Others, LoopServes
<1>4. CASE Update
  <2>1. /\ enabled' = ~enabled /\ cast' = [cast EXCEPT ![Loop].step = "read"]
        /\ UNCHANGED <<active, idle, open, speech, reply, shown, loop, pc, at, asleep,
                       quiet, overheard, caught, crossed>>
    BY <1>4 DEF Update, threads, history
  <2>2. enabled' \in BOOLEAN
    BY <2>1, Zenon
  <2>3. QED BY <1>0, <2>1, <2>2, CastTypes DEF Flags, Others, LoopServes
<1>5. CASE Tick
  BY <1>0, <1>5 DEF Tick, threads, history, Flags, Others, LoopServes
<1>6. ASSUME NEW c \in Consoles, Connect(c) PROVE Flags' /\ Others' /\ LoopServes'
  <2>1. active \in BOOLEAN
    BY <1>0 DEF Flags
  <2>2. QED BY <1>0, <1>6, <2>1 DEF Connect, wake, threads, history, Flags, Others, LoopServes
<1>7. ASSUME NEW c \in Consoles, Disconnect(c) PROVE Flags' /\ Others' /\ LoopServes'
  BY <1>0, <1>7 DEF Disconnect, LoopFree, wake, threads, history, Flags, Others, LoopServes
<1>8. ASSUME NEW c \in Consoles, Frame(c) PROVE Flags' /\ Others' /\ LoopServes'
  <2>1. UNCHANGED <<enabled, active, idle, open, shown, cast, overheard, caught, crossed>>
    BY <1>8 DEF Frame, wake
  <2>2. CASE active /\ ~AnyReplyActive(c)
    <3>1. /\ loop' = [step |-> "claim", c |-> c] /\ c \in open
          /\ UNCHANGED <<speech, reply, pc, at, asleep, quiet>>
      BY <1>8, <2>2 DEF Frame, LoopAt, threads
    <3>2. QED BY <1>0, <2>1, <3>1 DEF Flags, Others, LoopServes
  <2>3. CASE ~(active /\ ~AnyReplyActive(c))
    <3>1. Hears(c) /\ UNCHANGED loop
      BY <1>8, <2>3 DEF Frame
    <3>2. QED BY <1>0, <2>1, <3>1, CaptureTypes DEF Flags, Others, LoopServes
  <2>4. QED BY <2>2, <2>3
<1>9. ASSUME NEW c \in Consoles, FlushCommand(c) PROVE Flags' /\ Others' /\ LoopServes'
  <2>1. /\ Capture(c) /\ UNCHANGED loop
        /\ UNCHANGED <<enabled, active, idle, open, shown, cast, overheard, caught, crossed>>
    BY <1>9 DEF FlushCommand, wake
  <2>2. QED BY <1>0, <2>1, CaptureTypes DEF Flags, Others, LoopServes
<1>10. ASSUME NEW c \in Consoles, BargeIn(c) PROVE Flags' /\ Others' /\ LoopServes'
  BY <1>0, <1>10 DEF BargeIn, wake, threads, history, Flags, Others, LoopServes
<1>11. ASSUME NEW c \in Consoles, WakeButton(c) PROVE Flags' /\ Others' /\ LoopServes'
  <2>1. /\ Becomes(Loop, TRUE) /\ idle' = 0
        /\ speech' = [d \in Consoles |-> IF d \in open THEN "none"
                                   ELSE IF speech[d] = "none" THEN "none" ELSE "early"]
        /\ UNCHANGED <<enabled, open, reply, shown, loop, pc, at, asleep, quiet, overheard,
                       caught>>
    BY <1>11 DEF WakeButton, threads
  <2>2. QED BY <1>0, <2>1, BecomesTypes DEF Flags, Others, LoopServes
<1>12. QED BY <1>2, <1>3, <1>4, <1>5, <1>6, <1>7, <1>8, <1>9, <1>10, <1>11

\* ... and so do those of the threads and the broadcasts.
LEMMA ThreadTypes ==
  ASSUME Types,
         \/ \E u \in Replies : Thread(u) \/ \E c \in Consoles : OtherReply(u, c)
         \/ \E p \in Procs : Broadcast(p)
  PROVE  Types'
<1>0. TypeOK /\ LoopServes /\ Flags /\ Others /\ 0 \in 0 .. Timeout
  BY ListeningAssumption, TypeParts DEF Types
<1>1. SUFFICES Flags' /\ Others' /\ LoopServes'
  BY TypeParts DEF TypeOK, Types, Flags, Others
<1>2. ASSUME NEW u \in Replies, Transcribe(u) \/ GateDrops(u) \/ Answer(u)
      PROVE  Flags' /\ Others' /\ LoopServes'
  <2>1. /\ Finish(u) \/ (Step(u, "gate") /\ Stays)
        /\ UNCHANGED <<enabled, active, idle, cast, overheard, crossed, open, speech, shown, loop,
                       caught>>
    BY <1>2 DEF Transcribe, GateDrops, Answer, ThreadFrame
  <2>2. CASE Finish(u)
    BY <1>0, <2>1, <2>2, FinishTypes DEF Flags, Others, LoopServes
  <2>3. CASE Step(u, "gate") /\ Stays
    BY <1>0, <2>1, <2>3 DEF Step, Stays, Flags, Others, LoopServes
  <2>4. QED BY <2>1, <2>2, <2>3
<1>3. ASSUME NEW u \in Replies, GateWakes(u) \/ EndPhrase(u)
      PROVE  Flags' /\ Others' /\ LoopServes'
  <2>1. /\ Becomes(u, TRUE) \/ Becomes(u, FALSE)
        /\ idle' \in {idle, 0} /\ Step(u, "answer") /\ Stays
        /\ UNCHANGED <<enabled, open, speech, shown, loop, caught, overheard>>
    BY <1>3 DEF GateWakes, EndPhrase, ThreadFrame
  <2>2. /\ active' \in BOOLEAN /\ crossed' \in BOOLEAN
        /\ cast' \in [Procs -> [step : {"none", "read", "send"}, frame : BOOLEAN]]
    BY <1>0, <2>1, BecomesTypes DEF Procs
  <2>3. QED BY <1>0, <2>1, <2>2 DEF Step, Stays, Flags, Others, LoopServes
<1>4. ASSUME NEW u \in Replies, GateAwake(u) PROVE Flags' /\ Others' /\ LoopServes'
  <2>1. /\ \E s \in {"sleep", "touch", "answer"} : Step(u, s)
        /\ overheard' = (overheard \/ u \in quiet)
        /\ Stays
        /\ UNCHANGED <<enabled, active, idle, cast, crossed, open, speech, shown, loop, caught>>
    BY <1>4 DEF GateAwake, ThreadFrame
  <2>2. overheard' \in BOOLEAN
    BY <2>1, Zenon
  <2>3. QED BY <1>0, <2>1, <2>2 DEF Step, Stays, Flags, Others, LoopServes
<1>5. ASSUME NEW u \in Replies, Touch(u) PROVE Flags' /\ Others' /\ LoopServes'
  BY <1>0, <1>5 DEF Touch, Step, Stays, ThreadFrame, Flags, Others, LoopServes
<1>6. ASSUME NEW u \in Replies, NEW c \in Consoles, OtherReply(u, c)
      PROVE  Flags' /\ Others' /\ LoopServes'
  BY <1>0, <1>6 DEF OtherReply, Step, wake, history, Flags, Others, LoopServes
<1>7. ASSUME NEW p \in Procs, ReadState(p) PROVE Flags' /\ Others' /\ LoopServes'
  <2>1. /\ cast' = [cast EXCEPT ![p] = [step |-> "send", frame |-> active]]
        /\ crossed' = (crossed /\ \E q \in Procs \ {p} : UnderWay(q))
        /\ UNCHANGED <<enabled, active, idle, open, speech, reply, shown, loop, pc, at, asleep,
                       quiet, overheard, caught>>
    BY <1>7 DEF ReadState, wake, threads
  <2>2. crossed' \in BOOLEAN
    BY <2>1, Zenon
  <2>3. active \in BOOLEAN
    BY <1>0 DEF Flags
  <2>4. cast' \in [Procs -> [step : {"none", "read", "send"}, frame : BOOLEAN]]
    BY <1>0, <2>1, <2>3, CastTypes
  <2>5. QED BY <1>0, <2>1, <2>2, <2>4 DEF Flags, Others, LoopServes
<1>8. ASSUME NEW p \in Procs, SendFrames(p) PROVE Flags' /\ Others' /\ LoopServes'
  <2>1. /\ shown' = [c \in Consoles |-> IF c \in open THEN cast[p].frame ELSE shown[c]]
        /\ cast' = [cast EXCEPT ![p] = NoCast]
        /\ UNCHANGED <<enabled, active, idle, open, speech, reply, loop, pc, at, asleep,
                       quiet, overheard, caught, crossed>>
    BY <1>8 DEF SendFrames, wake, threads, history
  <2>2. cast[p].frame \in BOOLEAN
    BY <1>0 DEF Others
  <2>3. shown' \in [Consoles -> BOOLEAN]
    BY <1>0, <2>1, <2>2 DEF Others
  <2>4. cast' \in [Procs -> [step : {"none", "read", "send"}, frame : BOOLEAN]]
    BY <1>0, <2>1, CastTypes DEF NoCast
  <2>5. QED BY <1>0, <2>1, <2>3, <2>4 DEF Flags, Others, LoopServes
<1>9. QED BY <1>2, <1>3, <1>4, <1>5, <1>6, <1>7, <1>8 DEF Thread, Broadcast

LEMMA InitTypes == Init => Types
<1>1. SUFFICES ASSUME Init PROVE Flags /\ Others /\ LoopServes
  BY TypeParts DEF Types
<1>2. Flags
  BY <1>1 DEF Init, Flags
<1>3. Others
  BY <1>1, ListeningAssumption DEF Init, Others, NoCast
<1>4. LoopServes
  BY <1>1 DEF Init, LoopServes
<1>5. QED BY <1>2, <1>3, <1>4

LEMMA TypesStep == Types /\ [Next]_vars => Types'
<1>1. ASSUME Types, UNCHANGED vars PROVE Types'
  BY <1>1 DEF Types, TypeOK, LoopServes, vars, wake, threads, history
<1>2. ASSUME Types, Next PROVE Types'
  BY <1>2, LoopTypes, ThreadTypes DEF Next
<1>3. QED BY <1>1, <1>2

\* Every variable has its type, for any number of consoles and replies.
THEOREM ListeningTypes == Spec => []TypeOK
<1>1. Types => TypeOK
  BY DEF Types
<1>2. QED BY <1>1, InitTypes, TypesStep, PTL DEF Spec
-----------------------------------------------------------------------------
\* What is quiet has a snapshot that says asleep: a console that was closed when
\* the wake button was pressed had nothing in progress.
QuietSleeps ==
  /\ \A u \in quiet : asleep[u] /\ pc[u] # "new"
  /\ \A c \in Consoles : speech[c] # "early" /\ (c \notin open => speech[c] = "none")

\* While the loop is at the claim no utterance is being answered, and a reply that
\* has not begun has no console.
ClaimAlone ==
  /\ loop.step = "claim" => \A u \in Replies : ~Alive(u)
  /\ \A u \in Replies : pc[u] = "new" => at[u] = None

\* Unless a change crossed it, a broadcast under way carries the state, and the
\* consoles show it or are going to be told.
FramesTrue == ~crossed =>
  /\ \A p \in Procs : UnderWay(p) => cast[p].frame = active
  /\ (\A c \in open : shown[c] = active) \/ \E p \in Procs : Casting(p)

\* The invariant: it says where quiet utterances, claims and frames come from.
WakeInv == Types /\ QuietSleeps /\ OnlyWoken /\ ClaimAlone /\ NeverCaught /\ FramesTrue

LEMMA InitWake == Init => WakeInv
<1>1. SUFFICES ASSUME Init PROVE WakeInv
  OBVIOUS
<1>2. Types
  BY <1>1, InitTypes
<1>3. QuietSleeps /\ OnlyWoken /\ NeverCaught /\ ClaimAlone
  BY <1>1 DEF Init, QuietSleeps, OnlyWoken, NeverCaught, ClaimAlone
<1>4. FramesTrue
  BY <1>1 DEF Init, FramesTrue, UnderWay, NoCast
<1>5. QED BY <1>2, <1>3, <1>4 DEF WakeInv

LEMMA WakeImplies == WakeInv => WakeSound
BY DEF WakeInv, WakeSound, FramesTrue, ShownIsTrue, Types, TypeOK

\* A step that leaves the state and the broadcasts alone, and tells nobody anything
\* who stays connected.
LEMMA FramesKept ==
  ASSUME FramesTrue, UNCHANGED <<active, cast, crossed>>, open' \subseteq open,
         \A c \in open' : shown'[c] = shown[c]
  PROVE  FramesTrue'
BY DEF FramesTrue, UnderWay, Casting

\* A change of the state: a broadcast that is under way is crossed by it.
LEMMA FramesCrossed ==
  ASSUME Types, FramesTrue, NEW p \in Procs, NEW b \in BOOLEAN, Becomes(p, b)
  PROVE  FramesTrue'
<1>1. /\ active' = b /\ cast' = [cast EXCEPT ![p].step = "read"]
      /\ crossed' = (crossed \/ (active # b /\ \E q \in Procs \ {p} : UnderWay(q)))
  BY DEF Becomes
<1>2. cast \in [Procs -> [step : {"none", "read", "send"}, frame : BOOLEAN]]
  BY DEF Types, TypeOK
<1>3. SUFFICES ASSUME ~crossed'
               PROVE  /\ \A q \in Procs : UnderWay(q)' => cast'[q].frame = active'
                      /\ \E q \in Procs : Casting(q)'
  BY DEF FramesTrue
<1>4. ~crossed /\ (active # b => \A q \in Procs \ {p} : ~UnderWay(q))
  BY <1>1, <1>3, Zenon
<1>5. cast'[p].step = "read" /\ \A q \in Procs \ {p} : cast'[q] = cast[q]
  BY <1>1, <1>2
<1>6. ASSUME NEW q \in Procs, UnderWay(q)' PROVE cast'[q].frame = active'
  <2>1. q # p /\ cast'[q] = cast[q] /\ UnderWay(q)
    BY <1>5, <1>6 DEF UnderWay
  <2>2. cast[q].frame = active /\ active = b
    BY <1>4, <2>1 DEF FramesTrue
  <2>3. QED BY <1>1, <2>1, <2>2
<1>7. Casting(p)'
  BY <1>5 DEF Casting
<1>8. QED BY <1>6, <1>7

LEMMA FramesStep == ASSUME Types, FramesTrue, [Next]_vars PROVE FramesTrue'
<1> USE DEF Procs
<1>0. cast \in [Procs -> [step : {"none", "read", "send"}, frame : BOOLEAN]]
  BY DEF Types, TypeOK
<1>1. CASE UNCHANGED vars
  BY <1>1, FramesKept DEF vars, wake, history
<1>2. CASE Claim
  <2>1. CASE active /\ idle = Timeout
    BY <1>2, <2>1, FramesCrossed DEF Claim
  <2>2. CASE ~(active /\ idle = Timeout)
    BY <1>2, <2>2, FramesKept DEF Claim
  <2>3. QED BY <2>1, <2>2
<1>3. CASE Audio \/ Tick
  BY <1>3, FramesKept DEF Audio, Tick, wake, history
<1>4. CASE Update
  <2>1. /\ UNCHANGED <<active, crossed, open, shown>> /\ cast' = [cast EXCEPT ![Loop].step = "read"]
    BY <1>4 DEF Update, history
  <2>2. cast'[Loop].step = "read" /\ \A q \in Procs \ {Loop} : cast'[q] = cast[q]
    BY <1>0, <2>1
  <2>3. QED BY <2>1, <2>2 DEF FramesTrue, UnderWay, Casting
<1>5. ASSUME NEW c \in Consoles, Connect(c) PROVE FramesTrue'
  <2>1. /\ UNCHANGED <<active, cast, crossed>> /\ open' = open \cup {c}
        /\ shown' = [shown EXCEPT ![c] = active]
    BY <1>5 DEF Connect, wake, history
  <2>2. open \subseteq Consoles /\ shown \in [Consoles -> BOOLEAN]
    BY DEF Types, TypeOK
  <2>3. \A d \in open' : shown'[d] = shown[d] \/ shown'[d] = active
    BY <2>1, <2>2
  <2>4. (\A d \in open : shown[d] = active) => \A d \in open' : shown'[d] = active'
    BY <2>1, <2>2
  <2>5. QED BY <2>1, <2>4 DEF FramesTrue, UnderWay, Casting
<1>6. ASSUME NEW c \in Consoles, Disconnect(c) PROVE FramesTrue'
  <2>1. open \subseteq Consoles /\ shown \in [Consoles -> BOOLEAN]
    BY DEF Types, TypeOK
  <2>2. QED BY <1>6, <2>1, FramesKept DEF Disconnect, wake, history
<1>7. ASSUME NEW c \in Consoles, Frame(c) \/ FlushCommand(c) \/ BargeIn(c) PROVE FramesTrue'
  BY <1>7, FramesKept DEF Frame, FlushCommand, BargeIn, wake, history
<1>8. ASSUME NEW c \in Consoles, WakeButton(c) PROVE FramesTrue'
  BY <1>8, FramesCrossed DEF WakeButton
<1>9. ASSUME NEW u \in Replies, Thread(u) PROVE FramesTrue'
  <2>1. CASE GateWakes(u) \/ EndPhrase(u)
    BY <2>1, FramesCrossed DEF GateWakes, EndPhrase
  <2>2. CASE Transcribe(u) \/ GateDrops(u) \/ GateAwake(u) \/ Touch(u) \/ Answer(u)
    BY <2>2, FramesKept DEF Transcribe, GateDrops, GateAwake, Touch, Answer, ThreadFrame, Stays
  <2>3. QED BY <1>9, <2>1, <2>2 DEF Thread
<1>10. ASSUME NEW u \in Replies, NEW c \in Consoles, OtherReply(u, c) PROVE FramesTrue'
  BY <1>10, FramesKept DEF OtherReply, wake, history
<1>11. ASSUME NEW p \in Procs, ReadState(p) PROVE FramesTrue'
  <2>1. /\ cast' = [cast EXCEPT ![p] = [step |-> "send", frame |-> active]]
        /\ crossed' = (crossed /\ \E q \in Procs \ {p} : UnderWay(q))
        /\ UNCHANGED <<active, open, shown>>
    BY <1>11 DEF ReadState, wake
  <2>2. /\ cast'[p] = [step |-> "send", frame |-> active]
        /\ \A q \in Procs \ {p} : cast'[q] = cast[q]
    BY <1>0, <2>1
  <2>3. SUFFICES ASSUME ~crossed', NEW q \in Procs, UnderWay(q)', q # p
                 PROVE  cast'[q].frame = active'
    BY <2>1, <2>2 DEF FramesTrue, Casting
  <2>4. UnderWay(q)
    BY <2>2, <2>3 DEF UnderWay
  <2>5. ~crossed
    BY <2>1, <2>3, <2>4, Zenon
  <2>6. QED BY <2>1, <2>2, <2>3, <2>4, <2>5 DEF FramesTrue
<1>12. ASSUME NEW p \in Procs, SendFrames(p) PROVE FramesTrue'
  <2>1. /\ cast[p].step = "send"
        /\ shown' = [c \in Consoles |-> IF c \in open THEN cast[p].frame ELSE shown[c]]
        /\ cast' = [cast EXCEPT ![p] = NoCast]
        /\ UNCHANGED <<active, open, crossed>>
    BY <1>12 DEF SendFrames, wake, history
  <2>2. cast'[p].step = "none" /\ \A q \in Procs \ {p} : cast'[q] = cast[q]
    BY <1>0, <2>1 DEF NoCast
  <2>3. open \subseteq Consoles
    BY DEF Types, TypeOK
  <2>4. ~crossed => \A c \in open' : shown'[c] = active'
    BY <2>1, <2>3 DEF FramesTrue, UnderWay
  <2>5. ~crossed => \A q \in Procs : UnderWay(q)' => cast'[q].frame = active'
    BY <2>1, <2>2 DEF FramesTrue, UnderWay
  <2>6. QED BY <2>1, <2>4, <2>5 DEF FramesTrue
<1>13. QED
  BY <1>1, <1>2, <1>3, <1>4, <1>5, <1>6, <1>7, <1>8, <1>9, <1>10, <1>11, <1>12
  DEF Next, Broadcast

\* What the VAD does on an open console keeps QuietSleeps ...
LEMMA QuietHears ==
  ASSUME Types, QuietSleeps, NEW c \in open, Hears(c) \/ Capture(c), UNCHANGED open
  PROVE  QuietSleeps'
<1>0. /\ c \in Consoles /\ quiet \subseteq Replies
      /\ speech \in [Consoles -> {"none", "fresh", "early"}]
      /\ pc \in [Replies -> {"new", "stt", "gate", "sleep", "touch", "answer", "over"}]
      /\ asleep \in [Replies -> BOOLEAN]
  BY DEF Types, TypeOK
<1>1. \A d \in Consoles : speech'[d] # "early" /\ (d \notin open' => speech'[d] = "none")
  BY <1>0 DEF QuietSleeps, Hears, Capture
<1>2. CASE UNCHANGED <<pc, asleep, quiet>>
  BY <1>1, <1>2 DEF QuietSleeps
<1>3. CASE ~UNCHANGED <<pc, asleep, quiet>>
  <2>1. PICK u \in Replies :
          /\ pc[u] = "new" /\ pc' = [pc EXCEPT ![u] = "stt"]
          /\ asleep' = [asleep EXCEPT ![u] = Snapshot]
          /\ quiet' = IF Sleeping \/ speech[c] = "early" THEN quiet \cup {u} ELSE quiet
    BY <1>3, Zenon DEF Hears, Capture, IsNext, threads
  <2>2. u \notin quiet /\ speech[c] # "early"
    BY <1>0, <2>1 DEF QuietSleeps
  <2>3. u \in quiet' => asleep'[u]
    <3>1. asleep'[u] = Snapshot
      BY <1>0, <2>1
    <3>2. u \in quiet' => Sleeping
      BY <2>1, <2>2
    <3>3. QED BY <3>1, <3>2 DEF Snapshot
  <2>4. \A v \in quiet' : v # u => v \in quiet /\ asleep'[v] = asleep[v] /\ pc'[v] = pc[v]
    BY <1>0, <2>1
  <2>5. u \in quiet' => pc'[u] # "new"
    BY <1>0, <2>1
  <2>6. \A v \in quiet' : asleep'[v] /\ pc'[v] # "new"
    BY <2>3, <2>4, <2>5 DEF QuietSleeps
  <2>7. QED BY <1>1, <2>6 DEF QuietSleeps
<1>4. QED BY <1>2, <1>3

\* ... and so does the end of an utterance.
LEMMA QuietFinish ==
  ASSUME Types, QuietSleeps, NEW u \in Replies, Finish(u), UNCHANGED <<open, speech>>
  PROVE  QuietSleeps'
<1>1. /\ pc \in [Replies -> {"new", "stt", "gate", "sleep", "touch", "answer", "over"}]
      /\ asleep \in [Replies -> BOOLEAN] /\ quiet \subseteq Replies
  BY DEF Types, TypeOK
<1>2. quiet' = quiet \ {u} /\ \A v \in quiet' : asleep'[v] = asleep[v] /\ pc'[v] = pc[v]
  BY <1>1 DEF Finish, Step
<1>3. QED BY <1>2 DEF QuietSleeps

LEMMA QuietStep ==
  ASSUME Types, QuietSleeps, OnlyWoken, [Next]_vars
  PROVE  QuietSleeps' /\ OnlyWoken'
<1>0. /\ pc \in [Replies -> {"new", "stt", "gate", "sleep", "touch", "answer", "over"}]
      /\ speech \in [Consoles -> {"none", "fresh", "early"}]
      /\ quiet \subseteq Replies /\ open \subseteq Consoles
  BY DEF Types, TypeOK
<1>1. CASE UNCHANGED vars
  BY <1>1 DEF QuietSleeps, OnlyWoken, vars, threads, history
<1>2. CASE Claim
  <2>1. loop.c \in open /\ UNCHANGED <<open, overheard>>
    BY <1>2 DEF Claim, Types, LoopServes
  <2>2. CASE Hears(loop.c)
    BY <2>1, <2>2, QuietHears DEF OnlyWoken
  <2>3. CASE UNCHANGED <<speech, reply, threads, quiet>>
    BY <2>1, <2>3 DEF QuietSleeps, OnlyWoken, threads
  <2>4. QED BY <1>2, <2>2, <2>3 DEF Claim
<1>3. CASE Audio
  <2>1. loop.c \in open /\ UNCHANGED <<open, overheard>> /\ Hears(loop.c)
    BY <1>3 DEF Audio, Types, LoopServes
  <2>2. QED BY <2>1, QuietHears DEF OnlyWoken
<1>4. CASE Update \/ Tick
  BY <1>4 DEF Update, Tick, QuietSleeps, OnlyWoken, threads, history
<1>5. ASSUME NEW c \in Consoles, Connect(c) \/ Disconnect(c) \/ BargeIn(c) \/ WakeButton(c)
      PROVE  QuietSleeps' /\ OnlyWoken'
  <2>1. UNCHANGED <<pc, asleep, quiet, overheard>>
    BY <1>5 DEF Connect, Disconnect, BargeIn, WakeButton, threads, history
  <2>2. \A d \in Consoles : speech'[d] # "early" /\ (d \notin open' => speech'[d] = "none")
    BY <1>0, <1>5 DEF Connect, Disconnect, BargeIn, WakeButton, QuietSleeps
  <2>3. QED BY <2>1, <2>2 DEF QuietSleeps, OnlyWoken
<1>6. ASSUME NEW c \in Consoles, Frame(c) \/ FlushCommand(c) PROVE QuietSleeps' /\ OnlyWoken'
  <2>1. c \in open /\ UNCHANGED <<open, overheard>>
    BY <1>6 DEF Frame, FlushCommand
  <2>2. CASE Hears(c) \/ Capture(c)
    BY <2>1, <2>2, QuietHears DEF OnlyWoken
  <2>3. CASE UNCHANGED <<speech, reply, threads, quiet>>
    BY <2>1, <2>3 DEF QuietSleeps, OnlyWoken, threads
  <2>4. QED BY <1>6, <2>2, <2>3 DEF Frame, FlushCommand
<1>7. ASSUME NEW u \in Replies, Thread(u) PROVE QuietSleeps' /\ OnlyWoken'
  <2>1. UNCHANGED <<open, speech>>
    BY <1>7 DEF Thread, Transcribe, GateWakes, GateDrops, GateAwake, EndPhrase, Touch, Answer,
                ThreadFrame
  <2>2. OnlyWoken'
    <3>1. CASE GateAwake(u)
      BY <3>1 DEF GateAwake, QuietSleeps, OnlyWoken
    <3>2. CASE ~GateAwake(u)
      BY <1>7, <3>2 DEF Thread, Transcribe, GateWakes, GateDrops, EndPhrase, Touch, Answer, OnlyWoken
    <3>3. QED BY <3>1, <3>2
  <2>3. CASE Finish(u)
    BY <2>1, <2>2, <2>3, QuietFinish
  <2>4. CASE Stays /\ \E s \in {"gate", "sleep", "touch", "answer"} : Step(u, s)
    BY <1>0, <2>1, <2>2, <2>4 DEF Stays, Step, QuietSleeps
  <2>5. Finish(u) \/ (Stays /\ \E s \in {"gate", "sleep", "touch", "answer"} : Step(u, s))
    BY <1>7 DEF Thread, Transcribe, GateWakes, GateDrops, GateAwake, EndPhrase, Touch, Answer
  <2>6. QED BY <2>3, <2>4, <2>5
<1>8. ASSUME NEW u \in Replies, NEW c \in Consoles, OtherReply(u, c)
      PROVE  QuietSleeps' /\ OnlyWoken'
  BY <1>0, <1>8 DEF OtherReply, Step, QuietSleeps, OnlyWoken, history
<1>9. ASSUME NEW p \in Procs, Broadcast(p) PROVE QuietSleeps' /\ OnlyWoken'
  BY <1>9 DEF Broadcast, ReadState, SendFrames, QuietSleeps, OnlyWoken, threads, history
<1>10. QED BY <1>1, <1>2, <1>3, <1>4, <1>5, <1>6, <1>7, <1>8, <1>9 DEF Next

\* At a claim nobody is being answered, so that the timeout catches nobody.
LEMMA ClaimStep ==
  ASSUME Types, ClaimAlone, NeverCaught, [Next]_vars
  PROVE  ClaimAlone' /\ NeverCaught'
<1>0. /\ pc \in [Replies -> {"new", "stt", "gate", "sleep", "touch", "answer", "over"}]
      /\ at \in [Replies -> Consoles \cup {None}] /\ open \subseteq Consoles
      /\ reply \in [Consoles -> Replies \cup {None}]
      /\ None \notin Consoles /\ None \notin Replies
  BY ListeningAssumption DEF Types, TypeOK
<1>1. CASE UNCHANGED vars
  BY <1>1 DEF ClaimAlone, NeverCaught, Alive, vars, threads, history
<1>2. ASSUME NEW c, Hears(c) \/ Capture(c)
      PROVE  \A u \in Replies : pc'[u] = "new" => at'[u] = None
  BY <1>0, <1>2 DEF Hears, Capture, ClaimAlone, threads
<1>3. CASE Claim
  <2>1. loop'.step # "claim"
    <3>1. LoopAt("audio", loop.c) \/ LoopAt("idle", None)
      BY <1>3 DEF Claim
    <3>2. QED BY <3>1 DEF LoopAt
  <2>2. NeverCaught'
    BY <1>3 DEF Claim, ClaimAlone, NeverCaught
  <2>3. CASE Hears(loop.c)
    BY <1>2, <2>1, <2>2, <2>3 DEF ClaimAlone
  <2>4. CASE UNCHANGED <<speech, reply, threads, quiet>>
    BY <2>1, <2>2, <2>4 DEF ClaimAlone, threads
  <2>5. QED BY <1>3, <2>3, <2>4 DEF Claim
<1>4. CASE Audio
  BY <1>2, <1>4 DEF Audio, LoopAt, ClaimAlone, NeverCaught
<1>5. CASE Update \/ Tick
  BY <1>5 DEF Update, Tick, ClaimAlone, NeverCaught, Alive, threads, history
<1>6. ASSUME NEW c \in Consoles, Connect(c) \/ Disconnect(c) \/ BargeIn(c) \/ WakeButton(c)
      PROVE  ClaimAlone' /\ NeverCaught'
  <2>1. loop.step = "idle" /\ UNCHANGED <<loop, pc, at, caught>>
    BY <1>6 DEF Connect, Disconnect, BargeIn, WakeButton, LoopFree, threads, history
  <2>2. QED BY <2>1 DEF ClaimAlone, NeverCaught
<1>7. ASSUME NEW c \in Consoles, FlushCommand(c) PROVE ClaimAlone' /\ NeverCaught'
  BY <1>2, <1>7 DEF FlushCommand, LoopFree, ClaimAlone, NeverCaught
<1>8. ASSUME NEW c \in Consoles, Frame(c) PROVE ClaimAlone' /\ NeverCaught'
  <2>1. loop.step = "idle" /\ UNCHANGED <<open, caught>>
    BY <1>8 DEF Frame, LoopFree
  <2>2. CASE active /\ ~AnyReplyActive(c)
    <3>1. UNCHANGED <<reply, pc, at>>
      BY <1>8, <2>2 DEF Frame, threads
    <3>2. \A d \in open : reply[d] = None
      BY <2>2 DEF AnyReplyActive
    <3>3. \A u \in Replies : ~Alive(u)'
      BY <1>0, <2>1, <3>1, <3>2 DEF Alive
    <3>4. QED BY <2>1, <3>1, <3>3 DEF ClaimAlone, NeverCaught
  <2>3. CASE ~(active /\ ~AnyReplyActive(c))
    BY <1>2, <1>8, <2>1, <2>3 DEF Frame, ClaimAlone, NeverCaught
  <2>4. QED BY <2>2, <2>3
<1>9. ASSUME NEW u \in Replies, Thread(u) PROVE ClaimAlone' /\ NeverCaught'
  <2>1. UNCHANGED <<open, loop, caught>>
    BY <1>9 DEF Thread, Transcribe, GateWakes, GateDrops, GateAwake, EndPhrase, Touch, Answer,
                ThreadFrame
  <2>2. CASE Finish(u)
    <3>1. /\ pc' = [pc EXCEPT ![u] = "over"] /\ at' = [at EXCEPT ![u] = None]
          /\ reply' = [c \in Consoles |-> IF reply[c] = u THEN None ELSE reply[c]]
      BY <2>2 DEF Finish, Step, Freed
    <3>2. ASSUME NEW v \in Replies, Alive(v)' PROVE Alive(v)
      BY <1>0, <2>1, <3>1, <3>2 DEF Alive
    <3>3. QED BY <1>0, <2>1, <3>1, <3>2 DEF ClaimAlone, NeverCaught
  <2>3. CASE Stays /\ \E s \in {"gate", "sleep", "touch", "answer"} : Step(u, s)
    BY <1>0, <2>1, <2>3 DEF Stays, Step, Alive, ClaimAlone, NeverCaught
  <2>4. Finish(u) \/ (Stays /\ \E s \in {"gate", "sleep", "touch", "answer"} : Step(u, s))
    BY <1>9 DEF Thread, Transcribe, GateWakes, GateDrops, GateAwake, EndPhrase, Touch, Answer
  <2>5. QED BY <2>2, <2>3, <2>4
<1>10. ASSUME NEW u \in Replies, NEW c \in Consoles, OtherReply(u, c)
       PROVE  ClaimAlone' /\ NeverCaught'
  <2>1. /\ pc[u] = "new" /\ reply' = [reply EXCEPT ![c] = u] /\ pc' = [pc EXCEPT ![u] = "answer"]
        /\ UNCHANGED <<open, loop, at, caught>>
    BY <1>10 DEF OtherReply, IsNext, Step, history
  <2>2. at[u] = None
    BY <2>1 DEF ClaimAlone
  <2>3. ASSUME NEW v \in Replies, Alive(v)' PROVE Alive(v)
    BY <1>0, <2>1, <2>2, <2>3 DEF Alive
  <2>4. QED BY <1>0, <2>1, <2>3 DEF ClaimAlone, NeverCaught
<1>11. ASSUME NEW p \in Procs, Broadcast(p) PROVE ClaimAlone' /\ NeverCaught'
  BY <1>11 DEF Broadcast, ReadState, SendFrames, ClaimAlone, NeverCaught, Alive, threads, history
<1>12. QED BY <1>1, <1>3, <1>4, <1>5, <1>6, <1>7, <1>8, <1>9, <1>10, <1>11 DEF Next

\* However many consoles there are and however their threads, commands and
\* broadcasts interleave: nothing said while vivo slept is answered without the
\* phrase, the timeout never comes while an utterance is being answered, and the
\* consoles show the state.
THEOREM WakeIsSound == Spec => []WakeSound
<1>1. WakeInv /\ [Next]_vars => WakeInv'
  BY TypesStep, QuietStep, ClaimStep, FramesStep DEF WakeInv
<1>2. QED BY InitWake, <1>1, WakeImplies, PTL DEF Spec
=============================================================================
