------------------------- MODULE VoiceActivityProofs -------------------------
(***************************************************************************)
(* Proofs about VoiceActivity, for every size of a window, a pause, the    *)
(* padding and the ring, and any number of windows and breaks: the types,  *)
(* and that the utterances handed out are what was said.                   *)
(***************************************************************************)
EXTENDS VoiceActivity, TLAPS

(* Types *)

LEMMA InitType == Init => TypeOK
<1>1. Init => StreamType
  BY VoiceAssumption DEF Init, StreamType
<1>2. Init => HistoryType
  BY VoiceAssumption DEF Init, HistoryType
<1>3. Init => inSpeech \in BOOLEAN /\ broken \in BOOLEAN
  BY DEF Init
<1>4. QED BY <1>1, <1>2, <1>3 DEF TypeOK

\* The positions of a typed detector.
LEMMA Positions ==
  ASSUME TypeOK
  PROVE  total \in Nat /\ speechStart \in Nat /\ lastVoiced \in Nat /\ voiced \subseteq Nat
<1>1. total \in Nat /\ speechStart \in Nat /\ lastVoiced \in Nat
  BY DEF TypeOK, StreamType
<1>2. voiced \subseteq 0 .. total
  BY DEF TypeOK, HistoryType
<1>3. QED BY <1>1, <1>2

\* The ring with one more window is a ring.
LEMMA HeardType ==
  ASSUME TypeOK
  PROVE  /\ Heard \in Seq(Nat)
         /\ \A i \in DOMAIN Heard : Heard[i] <= total
         /\ Range(Heard) \subseteq 0 .. total
<1> DEFINE r == Append(ring, total)
<1>0. ring \in Seq(Nat) /\ total \in Nat /\ \A i \in DOMAIN ring : ring[i] <= total
  BY VoiceAssumption DEF TypeOK, StreamType, HistoryType
<1>1. r \in Seq(Nat) /\ r # <<>> /\ \A i \in DOMAIN r : r[i] <= total
  BY <1>0
<1>2. Tail(r) \in Seq(Nat) /\ \A i \in DOMAIN Tail(r) : Tail(r)[i] <= total
  BY <1>1
<1>3. Heard \in Seq(Nat) /\ \A i \in DOMAIN Heard : Heard[i] <= total
  BY <1>1, <1>2 DEF Heard
<1>4. QED BY <1>3 DEF Range

\* What _finish hands out.
LEMMA FinishType ==
  ASSUME TypeOK, NEW r \in Seq(Nat), Range(r) \subseteq 0 .. total,
         NEW from \in Nat, NEW to \in Nat, NEW why \in Why
  PROVE  /\ Finish(r, from, to, why) \in Utterance
         /\ Finish(r, from, to, why).made \subseteq 0 .. total
BY DEF Finish, Segment, Utterance, TypeOK, StreamType, HistoryType

\* One utterance more.
LEMMA CutType ==
  ASSUME TypeOK, NEW u \in Utterance, u.made \subseteq 0 .. total, cut' = Append(cut, u),
         total' \in Nat, total' >= total
  PROVE  cut' \in Seq(Utterance) /\ \A i \in DOMAIN cut' : cut'[i].made \subseteq 0 .. total'
<1>1. cut' \in Seq(Utterance) /\ total \in Nat
  BY DEF TypeOK, StreamType, HistoryType
<1>2. ASSUME NEW i \in DOMAIN cut' PROVE cut'[i].made \subseteq 0 .. total
  BY <1>2 DEF TypeOK, StreamType, HistoryType
<1>3. QED BY <1>1, <1>2

LEMMA TooLongType ==
  ASSUME TypeOK, total' = total + Window, NEW from \in Nat, NEW voice \in Nat,
         NEW open \in BOOLEAN, NEW pending, TooLong(from, voice, open, pending)
  PROVE  /\ cut' \in Seq(Utterance) /\ \A i \in DOMAIN cut' : cut'[i].made \subseteq 0 .. total'
         /\ speechStart' \in {from, voice} /\ broken' \in BOOLEAN
         /\ pendingEnd' \in {pending, None}
<1>1. total \in Nat /\ total' \in Nat /\ total' >= total
  BY VoiceAssumption DEF TypeOK, StreamType, HistoryType
<1>2. Finish(Heard, from, voice, "long") \in Utterance
      /\ Finish(Heard, from, voice, "long").made \subseteq 0 .. total
  BY HeardType, FinishType DEF Why
<1>3. CASE cut' = Append(cut, Finish(Heard, from, voice, "long"))
  BY <1>1, <1>2, <1>3, CutType DEF TooLong, TypeOK, StreamType, HistoryType
<1>4. CASE UNCHANGED cut
  BY <1>1, <1>4 DEF TooLong, TypeOK, StreamType, HistoryType
<1>5. QED BY <1>3, <1>4 DEF TooLong

LEMMA NextType == TypeOK /\ [Next]_vars => TypeOK'
<1> SUFFICES ASSUME TypeOK, [Next]_vars PROVE TypeOK'
  OBVIOUS
<1>0. /\ total \in Nat /\ speechStart \in Nat /\ lastVoiced \in Nat /\ windows \in Nat
      /\ breaks \in Nat /\ inSpeech \in BOOLEAN /\ lastVoiced <= total /\ Window \in Nat \ {0}
  BY VoiceAssumption DEF TypeOK, StreamType, HistoryType
<1>1. CASE Process
  <2>0. total' = total + Window /\ windows' = windows + 1 /\ UNCHANGED breaks
    BY <1>1 DEF Process
  <2>1. ASSUME ring' = Heard
        PROVE  ring' \in Seq(Nat) /\ \A i \in DOMAIN ring' : ring'[i] <= total' - Window
    BY <2>0, <2>1, <1>0, HeardType
  <2>2. CASE Voiced
    <3> DEFINE from == IF inSpeech THEN speechStart ELSE IF total > Pad THEN total - Pad ELSE 0
    <3>1. from \in Nat /\ from <= total + Window /\ total + Window \in Nat
      BY <1>0, VoiceAssumption DEF TypeOK, StreamType, HistoryType
    <3>2. TooLong(from, total + Window, TRUE, Resumed)
      BY <2>2 DEF Voiced
    <3>3. /\ cut' \in Seq(Utterance) /\ \A i \in DOMAIN cut' : cut'[i].made \subseteq 0 .. total'
          /\ speechStart' \in {from, total + Window} /\ broken' \in BOOLEAN
          /\ pendingEnd' \in {Resumed, None}
      <4> HIDE DEF from
      <4> QED BY <3>1, <3>2, <2>0, TooLongType
    <3>4. voiced' \subseteq 0 .. total' /\ dropped' \subseteq voiced'
      BY <2>2, <2>0, <1>0 DEF Voiced, TypeOK, StreamType, HistoryType
    <3>5. speechStart' \in Nat /\ speechStart' <= lastVoiced' /\ lastVoiced' = total'
      BY <3>1, <3>3, <2>0, <2>2 DEF Voiced
    <3>6. pendingEnd' = None /\ inSpeech' = TRUE
      BY <3>3, <2>2 DEF Resumed, Voiced
    <3>7. QED BY <1>0, <2>0, <2>1, <2>2, <3>3, <3>4, <3>5, <3>6
           DEF Voiced, TypeOK, StreamType, HistoryType
  <2>3. ASSUME NEW level \in {"silent", "unsure"}, Quiet(level) PROVE TypeOK'
    <3>0. UNCHANGED <<lastVoiced, voiced>> /\ ring' = Heard
      BY <2>3 DEF Quiet
    <3>1. CASE level = "silent" /\ Closes
      <4>1. Close(Heard, "pause")
        BY <2>3, <3>1 DEF Quiet
      <4>2. Finish(Heard, speechStart, lastVoiced, "pause") \in Utterance
            /\ Finish(Heard, speechStart, lastVoiced, "pause").made \subseteq 0 .. total
        BY <1>0, HeardType, FinishType DEF Why
      <4>3. cut' \in Seq(Utterance) /\ \A i \in DOMAIN cut' : cut'[i].made \subseteq 0 .. total'
        BY <4>1, <4>2, <1>0, <2>0, CutType DEF Close, TypeOK, StreamType, HistoryType
      <4>4. dropped' \subseteq voiced' /\ broken' \in BOOLEAN
        BY <4>1, <3>0 DEF Close, TypeOK, StreamType, HistoryType
      <4>5. StreamType'
        BY <1>0, <2>0, <2>1, <3>0, <4>1 DEF Close, TypeOK, StreamType
      <4>6. HistoryType'
        BY <1>0, <2>0, <3>0, <4>1, <4>3, <4>4 DEF Close, TypeOK, HistoryType, StreamType
      <4>7. inSpeech' \in BOOLEAN /\ broken' \in BOOLEAN
        BY <1>0, <4>1, <4>4 DEF Close
      <4>8. QED BY <4>5, <4>6, <4>7 DEF TypeOK
    <3>2. CASE ~(level = "silent" /\ Closes)
      <4> DEFINE pending == IF level = "silent" /\ GoesPending THEN lastVoiced ELSE pendingEnd
      <4>1. TooLong(speechStart, lastVoiced, inSpeech, pending)
            /\ UNCHANGED <<inSpeech, dropped>>
        BY <2>3, <3>2 DEF Quiet
      <4>2. pending # None => inSpeech /\ pending = lastVoiced
        BY DEF GoesPending, TypeOK, StreamType, HistoryType
      <4>3. pending \in Nat \cup {None}
        BY <1>0 DEF TypeOK, StreamType, HistoryType
      <4> HIDE DEF pending
      <4>4. /\ cut' \in Seq(Utterance) /\ \A i \in DOMAIN cut' : cut'[i].made \subseteq 0 .. total'
            /\ speechStart' \in {speechStart, lastVoiced} /\ broken' \in BOOLEAN
            /\ pendingEnd' \in {pending, None}
        BY <4>1, <2>0, <1>0, TooLongType
      <4>5. StreamType'
        BY <1>0, <2>0, <2>1, <3>0, <4>1, <4>2, <4>3, <4>4 DEF TypeOK, StreamType
      <4>6. HistoryType'
        BY <1>0, <2>0, <3>0, <4>1, <4>4 DEF TypeOK, HistoryType, StreamType
      <4>7. inSpeech' \in BOOLEAN /\ broken' \in BOOLEAN
        BY <1>0, <4>1, <4>4 DEF TypeOK
      <4>8. QED BY <4>5, <4>6, <4>7 DEF TypeOK
    <3>3. QED BY <3>1, <3>2
  <2>4. QED BY <1>1, <2>2, <2>3 DEF Process
<1>2. CASE Flush
  <2>1. Range(ring) \subseteq 0 .. total
    BY <1>0 DEF Range, TypeOK, StreamType, HistoryType
  <2>2. Finish(ring, speechStart, lastVoiced, "flush") \in Utterance
        /\ Finish(ring, speechStart, lastVoiced, "flush").made \subseteq 0 .. total
    BY <1>0, <2>1, FinishType DEF Why, TypeOK, StreamType, HistoryType
  <2>3. cut' \in Seq(Utterance) /\ \A i \in DOMAIN cut' : cut'[i].made \subseteq 0 .. total'
    BY <1>2, <2>2, <1>0, CutType DEF Flush, TypeOK, StreamType, HistoryType
  <2>4. dropped' \subseteq voiced' /\ UNCHANGED <<total, voiced, windows>> /\ breaks' = breaks + 1
    BY <1>2 DEF Flush, Breaks, TypeOK, StreamType, HistoryType
  <2>5. StreamType'
    BY <1>0, <1>2 DEF Flush, Breaks, TypeOK, StreamType
  <2>6. HistoryType'
    BY <1>0, <2>3, <2>4 DEF TypeOK, HistoryType
  <2>7. inSpeech' \in BOOLEAN /\ broken' \in BOOLEAN
    BY <1>2 DEF Flush
  <2>8. QED BY <2>5, <2>6, <2>7 DEF TypeOK
<1>3. ASSUME NEW tail \in 0 .. Window - 1, Discard(tail) PROVE TypeOK'
  <2>1. total' = total + tail /\ total' \in Nat /\ total' >= total
    BY <1>0, <1>3 DEF Discard
  <2>0. dropped' \subseteq voiced' /\ voiced' = voiced
    BY <1>3 DEF Discard, Breaks, TypeOK, HistoryType
  <2>2. voiced' \subseteq 0 .. total'
    BY <1>0, <2>0, <2>1 DEF TypeOK, HistoryType
  <2>3. \A i \in DOMAIN cut' : cut'[i].made \subseteq 0 .. total'
    BY <1>0, <1>3, <2>1 DEF Discard, TypeOK, StreamType, HistoryType
  <2>4. \A i \in DOMAIN ring' : ring'[i] <= total' - Window
    BY <1>0, <1>3, <2>1 DEF Discard, Breaks, TypeOK, StreamType, HistoryType
  <2>5. StreamType'
    BY <1>0, <1>3, <2>1, <2>4 DEF Discard, Breaks, TypeOK, StreamType
  <2>6. HistoryType'
    BY <1>0, <1>3, <2>0, <2>1, <2>2, <2>3 DEF Discard, Breaks, TypeOK, HistoryType
  <2>7. inSpeech' \in BOOLEAN /\ broken' \in BOOLEAN
    BY <1>3, <1>0 DEF Discard, TypeOK
  <2>8. QED BY <2>5, <2>6, <2>7 DEF TypeOK
<1>4. CASE UNCHANGED vars
  BY <1>4 DEF vars, vad, TypeOK, StreamType, HistoryType
<1>5. QED BY <1>1, <1>2, <1>3, <1>4 DEF Next

\* The positions of the stream and the utterances handed out keep their types (every
\* field of app/vad.py's VAD).
THEOREM TypeCorrect == Spec => []TypeOK
BY InitType, NextType, PTL DEF Spec

(* The ring *)

\* What n windows are in samples.
Back(n) == n * Window

LEMMA BackSteps ==
  /\ Back(0) = 0
  /\ \A n \in Nat : Back(n) \in Nat /\ Back(n + 1) = Back(n) + Window
<1>1. ASSUME NEW n \in Nat PROVE n * Window \in Nat /\ (n + 1) * Window = n * Window + Window
  BY VoiceAssumption
<1>2. 0 * Window = 0
  BY VoiceAssumption
<1>3. QED BY <1>1, <1>2 DEF Back

\* The ring spans the longest utterance.
LEMMA RingSpans == RingSize \in Nat \ {0} /\ Back(RingSize) >= MaxSpeech
<1> DEFINE q == MaxSpeech \div Window
<1>1. q \in Nat /\ (q + 1) * Window >= MaxSpeech
  BY VoiceAssumption
<1>2. RingSize = q + RingExtra /\ RingSize \in Nat \ {0} /\ RingSize >= q + 1
  BY <1>1, VoiceAssumption DEF RingSize
<1>3. \A m, n \in Nat : n >= m => n * Window >= m * Window
  BY VoiceAssumption
<1> HIDE DEF q
<1>4. RingSize * Window >= (q + 1) * Window
  BY <1>1, <1>2, <1>3
<1>5. RingSize * Window \in Nat /\ (q + 1) * Window \in Nat
  BY <1>1, <1>2, VoiceAssumption
<1>6. QED BY <1>1, <1>2, <1>4, <1>5, VoiceAssumption DEF Back

\* Every window of the ring is at least as far back as its place says, and a voiced
\* window that has left the ring is further back than the ring is long.
FarBack(r, end) == \A i \in DOMAIN r : r[i] + Back(Len(r) - i + 1) <= end
Remembered(w, r, end) == w \in Range(r) \/ w + Back(RingSize + 1) <= end

RingInv ==
  /\ FarBack(ring, total)
  /\ Len(ring) <= RingSize
  /\ \A w \in voiced : Remembered(w, ring, total) /\ w + Window <= lastVoiced

\* An utterance that is longer than the longest holds no voiced window: it was just
\* cut.
LengthInv == inSpeech => total - speechStart < MaxSpeech \/ \A w \in voiced : w < speechStart

\* After a cut, speech begins where the utterance ended or later, a pause and the
\* reopen window later when a pause ended it.
CutInv ==
  /\ cut # <<>> => cut[Len(cut)].to <= lastVoiced
  /\ cut # <<>> /\ ~broken /\ ~inSpeech => lastVoiced + MinSilence + Reopen <= total
  /\ cut # <<>> /\ ~broken /\ inSpeech => cut[Len(cut)].to <= speechStart
PauseInv == \A i \in DOMAIN cut : cut[i].why = "pause" =>
  /\ cut[i].to + MinSilence + Reopen <= total
  /\ \A w \in voiced : w >= cut[i].to => w >= cut[i].to + MinSilence + Reopen
ApartInv == \A i \in 2 .. Len(cut) : ~cut[i].apart => cut[i - 1].to <= cut[i].from

SpeechInv == RingInv /\ LengthInv /\ CutInv /\ PauseInv /\ ApartInv /\ NoneLost

\* The ring with one more window.
LEMMA HeardKeeps ==
  ASSUME TypeOK, RingInv
  PROVE  /\ FarBack(Heard, total + Window)
         /\ Len(Heard) <= RingSize
         /\ \A w \in voiced \cup {total} : Remembered(w, Heard, total + Window)
<1> DEFINE r == Append(ring, total)
<1>0. /\ ring \in Seq(Nat) /\ total \in Nat /\ voiced \subseteq Nat /\ Len(ring) \in Nat
      /\ Window \in Nat \ {0} /\ DOMAIN ring = 1 .. Len(ring)
      /\ \A i \in 1 .. Len(ring) : ring[i] \in Nat
  <2>1. ring \in Seq(Nat)
    BY DEF TypeOK, StreamType
  <2>2. Len(ring) \in Nat /\ DOMAIN ring = 1 .. Len(ring) /\ \A i \in 1 .. Len(ring) : ring[i] \in Nat
    BY <2>1
  <2>3. QED BY <2>1, <2>2, Positions, VoiceAssumption
<1>1. /\ r \in Seq(Nat) /\ Len(r) = Len(ring) + 1 /\ r[Len(ring) + 1] = total
      /\ \A i \in 1 .. Len(ring) : r[i] = ring[i]
  BY <1>0
<1>h. Heard = IF Len(r) > RingSize THEN Tail(r) ELSE r
  BY DEF Heard
<1> HIDE DEF r
<1>2. ASSUME NEW i \in 1 .. Len(r)
      PROVE  r[i] \in Nat /\ r[i] + Back(Len(r) - i + 1) <= total + Window
  <2>1. CASE i = Len(ring) + 1
    <3>1. Len(r) - i = 0 /\ Back(Len(r) - i + 1) = Window
      BY <1>0, <1>1, <2>1, BackSteps
    <3>2. QED BY <1>0, <1>1, <2>1, <3>1
  <2>2. CASE i \in 1 .. Len(ring)
    <3>1. Back(Len(r) - i + 1) = Back(Len(ring) - i + 1) + Window /\ Back(Len(ring) - i + 1) \in Nat
      <4> DEFINE n == Len(ring) - i + 1
      <4>1. n \in Nat /\ Len(r) - i + 1 = n + 1
        BY <1>0, <1>1, <2>2
      <4> HIDE DEF n
      <4>2. Back(n + 1) = Back(n) + Window /\ Back(n) \in Nat
        BY <4>1, BackSteps
      <4>3. QED BY <4>1, <4>2 DEF n
    <3>2. ring[i] + Back(Len(ring) - i + 1) <= total
      BY <1>0, <2>2 DEF RingInv, FarBack
    <3>3. r[i] = ring[i] /\ ring[i] \in Nat
      BY <1>0, <1>1, <2>2
    <3> DEFINE a == Back(Len(r) - i + 1)
               b == Back(Len(ring) - i + 1)
    <3>4. /\ a = b + Window /\ b \in Nat /\ ring[i] + b <= total
          /\ Window \in Nat /\ total \in Nat
      BY <1>0, <3>1, <3>2
    <3> HIDE DEF a, b
    <3>5. r[i] \in Nat /\ r[i] + a <= total + Window
      BY <3>3, <3>4
    <3>6. QED BY <3>5 DEF a
  <2>3. QED BY <1>0, <1>1, <2>1, <2>2
<1>3. ASSUME NEW w \in voiced \cup {total}
      PROVE  (\E i \in 1 .. Len(r) : r[i] = w) \/ w + Back(RingSize + 1) <= total + Window
  <2>1. CASE w = total
    BY <1>0, <1>1, <2>1
  <2>2. CASE w \in voiced /\ w \in Range(ring)
    BY <1>0, <1>1, <2>2 DEF Range
  <2>3. CASE w \in voiced /\ w + Back(RingSize + 1) <= total
    <3>1. RingSize + 1 \in Nat /\ Back(RingSize + 1) \in Nat
      BY RingSpans, BackSteps
    <3>2. QED BY <1>0, <2>3, <3>1
  <2>4. QED BY <2>1, <2>2, <2>3 DEF RingInv, Remembered
<1>4. CASE Len(r) <= RingSize
  <2>1. Heard = r
    <3>1. Len(r) \in Nat /\ RingSize \in Nat
      BY <1>1, RingSpans
    <3>2. ~(Len(r) > RingSize)
      BY <1>4, <3>1
    <3>3. QED BY ONLY <1>h, <3>2
  <2>2. DOMAIN r = 1 .. Len(r)
    BY <1>1
  <2>3. FarBack(r, total + Window)
    BY <1>2, <2>2 DEF FarBack
  <2>4. \A w \in voiced \cup {total} : Remembered(w, r, total + Window)
    BY <1>3, <2>2 DEF Remembered, Range
  <2>5. QED BY <1>4, <2>1, <2>3, <2>4
<1>5. CASE Len(r) > RingSize
  <2>1. Heard = Tail(r)
    BY <1>5, <1>h
  <2>t. /\ Len(Tail(r)) = Len(ring) /\ DOMAIN Tail(r) = 1 .. Len(ring)
        /\ \A i \in 1 .. Len(ring) : Tail(r)[i] = r[i + 1]
    <3>1. Len(Tail(r)) = Len(r) - 1 /\ DOMAIN Tail(r) = 1 .. Len(r) - 1
      BY <1>0, <1>1
    <3>2. \A i \in 1 .. Len(r) - 1 : Tail(r)[i] = r[i + 1]
      BY <1>0, <1>1
    <3>3. Len(r) - 1 = Len(ring)
      BY <1>0, <1>1
    <3>4. QED BY <3>1, <3>2, <3>3
  <2>s. Len(ring) = RingSize
    <3>1. Len(ring) <= RingSize /\ RingSize \in Nat
      BY RingSpans DEF RingInv
    <3>2. Len(r) = Len(ring) + 1 /\ Len(ring) \in Nat
      BY <1>0, <1>1
    <3>3. QED BY <1>5, <3>1, <3>2
  <2>2. /\ Len(Heard) = Len(ring) /\ DOMAIN Heard = 1 .. Len(ring) /\ Len(ring) = RingSize
        /\ \A i \in 1 .. Len(ring) : Heard[i] = r[i + 1]
    BY <2>1, <2>t, <2>s
  <2>3. FarBack(Heard, total + Window)
    <3>1. ASSUME NEW i \in 1 .. Len(ring) PROVE Heard[i] + Back(Len(ring) - i + 1) <= total + Window
      <4>1. i + 1 \in 1 .. Len(r) /\ Len(r) - (i + 1) + 1 = Len(ring) - i + 1
        BY <1>0, <1>1
      <4>2. r[i + 1] + Back(Len(r) - (i + 1) + 1) <= total + Window
        BY <1>2, <4>1
      <4>3. QED BY <2>2, <4>1, <4>2
    <3>2. QED BY <2>2, <3>1 DEF FarBack
  <2>4. ASSUME NEW w \in voiced \cup {total} PROVE Remembered(w, Heard, total + Window)
    <3>1. ASSUME NEW i \in 1 .. Len(r), r[i] = w, i # 1 PROVE w \in Range(Heard)
      <4>1. i - 1 \in 1 .. Len(ring) /\ Heard[i - 1] = w
        BY <1>0, <1>1, <2>2, <3>1
      <4>2. QED BY <2>2, <4>1 DEF Range
    <3>2. r[1] + Back(RingSize + 1) <= total + Window
      BY <1>0, <1>1, <1>2, <2>2
    <3>3. QED BY <1>3, <3>1, <3>2 DEF Remembered
  <2>5. QED BY <2>2, <2>3, <2>4
<1>6. QED BY <1>0, <1>1, <1>4, <1>5, RingSpans

\* A voiced window no further back than the longest utterance is in the ring.
LEMMA InRing ==
  ASSUME TypeOK, NEW r, NEW w \in Nat, NEW end \in Nat, Remembered(w, r, end),
         end - w < MaxSpeech + Window
  PROVE  w \in Range(r)
<1>1. Back(RingSize + 1) = Back(RingSize) + Window /\ Back(RingSize) \in Nat
  BY RingSpans, BackSteps
<1>2. QED BY <1>1, RingSpans, VoiceAssumption DEF Remembered

(* The utterances *)

\* A voiced window that needs no utterance any more.
Accounted(w) ==
  \/ w \in dropped
  \/ \E i \in DOMAIN cut : w \in cut[i].made /\ cut[i].from <= w /\ w + Window <= cut[i].to

\* An utterance holds the voiced windows since its start.
LEMMA CutHolds ==
  ASSUME TypeOK, NEW r, NEW w \in Nat, NEW from \in Nat, NEW to \in Nat, NEW why,
         NEW end \in Nat, Remembered(w, r, end), end - w < MaxSpeech + Window,
         w >= from, w + Window <= to
  PROVE  /\ w \in Finish(r, from, to, why).made
         /\ Finish(r, from, to, why).from <= w /\ w + Window <= Finish(r, from, to, why).to
<1>1. w \in Range(r)
  BY InRing
<1>2. w + Window > from /\ w < to
  BY VoiceAssumption
<1>3. QED BY <1>1, <1>2 DEF Finish, Segment

\* A voiced window of the utterance in progress is no further back than the longest
\* utterance.
LEMMA InProgress ==
  ASSUME TypeOK, SpeechInv, inSpeech, NEW w \in voiced
  PROVE  /\ Accounted(w) \/ w >= speechStart
         /\ w >= speechStart => total - w < MaxSpeech
<1>0. w \in Nat /\ speechStart \in Nat /\ total \in Nat
  BY Positions
<1>1. Accounted(w) \/ w >= speechStart
  BY DEF SpeechInv, NoneLost, Accounted
<1>2. total - speechStart < MaxSpeech \/ w < speechStart
  BY DEF SpeechInv, LengthInv
<1>3. QED BY <1>0, <1>1, <1>2, VoiceAssumption

\* What was accounted for stays so when an utterance is added.
LEMMA AccountedStays ==
  ASSUME TypeOK, NEW w, Accounted(w), dropped \subseteq dropped',
         cut' = cut \/ \E u : cut' = Append(cut, u)
  PROVE  Accounted(w)'
<1>1. cut \in Seq(Utterance)
  BY DEF TypeOK, HistoryType
<1>2. ASSUME NEW i \in DOMAIN cut PROVE i \in DOMAIN cut' /\ cut'[i] = cut[i]
  BY <1>1
<1>3. QED BY <1>2 DEF Accounted

\* The last of the utterances after one more was added.
LEMMA CutAdded ==
  ASSUME TypeOK, NEW u, cut' = Append(cut, u)
  PROVE  /\ cut' # <<>> /\ cut'[Len(cut')] = u /\ Len(cut') = Len(cut) + 1 /\ Len(cut) \in Nat
         /\ DOMAIN cut' = 1 .. Len(cut) + 1 /\ DOMAIN cut = 1 .. Len(cut)
         /\ \A i \in 1 .. Len(cut) : cut'[i] = cut[i]
         /\ cut = <<>> <=> Len(cut) = 0
         /\ cut'[Len(cut) + 1] = u
<1>1. cut \in Seq(Utterance)
  BY DEF TypeOK, HistoryType
<1>2. /\ Len(cut') = Len(cut) + 1 /\ Len(cut) \in Nat
      /\ DOMAIN cut' = 1 .. Len(cut) + 1 /\ DOMAIN cut = 1 .. Len(cut)
  BY <1>1
<1>3. cut'[Len(cut) + 1] = u /\ \A i \in 1 .. Len(cut) : cut'[i] = cut[i]
  BY <1>1
<1>4. cut' # <<>> /\ (cut = <<>> <=> Len(cut) = 0)
  BY <1>1
<1>5. QED BY <1>2, <1>3, <1>4

LEMMA UtteranceFields ==
  ASSUME TypeOK, NEW i \in DOMAIN cut
  PROVE  cut[i].from \in Nat /\ cut[i].to \in Nat
<1>1. cut \in Seq(Utterance)
  BY DEF TypeOK, HistoryType
<1>2. cut[i] \in Utterance
  BY <1>1
<1>3. QED BY <1>2 DEF Utterance

LEMMA CutDomain ==
  ASSUME TypeOK
  PROVE  /\ Len(cut) \in Nat /\ DOMAIN cut = 1 .. Len(cut)
         /\ cut # <<>> => Len(cut) \in DOMAIN cut
BY DEF TypeOK, HistoryType

LEMMA Numbers ==
  ASSUME TypeOK
  PROVE  /\ total \in Nat /\ speechStart \in Nat /\ lastVoiced \in Nat /\ voiced \subseteq Nat
         /\ lastVoiced <= total /\ dropped \subseteq voiced
BY DEF TypeOK, StreamType, HistoryType

\* Voiced windows come a pause and the reopen window after an utterance that a pause
\* ended.
LEMMA PauseStays ==
  ASSUME TypeOK, PauseInv, total' \in Nat, total' >= total, voiced' \subseteq voiced \cup {total},
         \/ cut' = cut
         \/ \E u : /\ cut' = Append(cut, u)
                   /\ u.why = "pause" => /\ u.to + MinSilence + Reopen <= total'
                                         /\ \A w \in voiced' : w < u.to
                   /\ u.to \in Nat
  PROVE  PauseInv'
<1>1. ASSUME NEW i \in DOMAIN cut, cut[i].why = "pause"
      PROVE  /\ cut[i].to + MinSilence + Reopen <= total'
             /\ \A w \in voiced' : w >= cut[i].to => w >= cut[i].to + MinSilence + Reopen
  <2>1. cut[i].to \in Nat /\ total \in Nat
    BY UtteranceFields, Numbers
  <2>2. /\ cut[i].to + MinSilence + Reopen <= total
        /\ \A w \in voiced : w >= cut[i].to => w >= cut[i].to + MinSilence + Reopen
    BY <1>1 DEF PauseInv
  <2>3. QED BY <2>1, <2>2, VoiceAssumption
<1>2. CASE cut' = cut
  BY <1>1, <1>2 DEF PauseInv
<1>3. ASSUME NEW u, cut' = Append(cut, u), u.to \in Nat,
             u.why = "pause" => /\ u.to + MinSilence + Reopen <= total'
                                /\ \A w \in voiced' : w < u.to
      PROVE  PauseInv'
  <2>1. \A w \in voiced' : w \in Nat
    BY Numbers
  <2>2. u.why = "pause" =>
          /\ u.to + MinSilence + Reopen <= total'
          /\ \A w \in voiced' : w >= u.to => w >= u.to + MinSilence + Reopen
    BY <1>3, <2>1
  <2>3. ASSUME NEW i \in DOMAIN cut' PROVE (i \in DOMAIN cut /\ cut'[i] = cut[i]) \/ cut'[i] = u
    BY <1>3, CutAdded
  <2>4. QED BY <1>1, <2>2, <2>3 DEF PauseInv
<1>4. QED BY <1>2, <1>3

\* An utterance added begins where the one before it ended, or later.
LEMMA ApartStays ==
  ASSUME TypeOK, ApartInv,
         \/ cut' = cut
         \/ \E u : /\ cut' = Append(cut, u)
                   /\ cut # <<>> /\ ~u.apart => cut[Len(cut)].to <= u.from
  PROVE  ApartInv'
<1>1. CASE cut' = cut
  BY <1>1 DEF ApartInv
<1>2. ASSUME NEW u, cut' = Append(cut, u), cut # <<>> /\ ~u.apart => cut[Len(cut)].to <= u.from
      PROVE  ApartInv'
  <2>1. ASSUME NEW i \in 2 .. Len(cut'), ~cut'[i].apart PROVE cut'[i - 1].to <= cut'[i].from
    <3>1. CASE i \in 2 .. Len(cut)
      <4>1. i - 1 \in 1 .. Len(cut) /\ i \in 1 .. Len(cut)
        BY <3>1, CutDomain
      <4>2. cut'[i - 1] = cut[i - 1] /\ cut'[i] = cut[i]
        BY <1>2, <4>1, CutAdded
      <4>3. QED BY <2>1, <3>1, <4>2 DEF ApartInv
    <3>2. CASE i = Len(cut) + 1
      <4>1. Len(cut) \in 1 .. Len(cut) /\ cut # <<>> /\ i - 1 = Len(cut)
        BY <1>2, <2>1, <3>2, CutAdded
      <4>2. cut'[i - 1] = cut[Len(cut)] /\ cut'[i] = u
        BY <1>2, <3>2, <4>1, CutAdded
      <4>3. QED BY <1>2, <2>1, <4>1, <4>2
    <3>3. i \in 2 .. Len(cut) \/ i = Len(cut) + 1
      BY <1>2, CutAdded
    <3>4. QED BY <3>1, <3>2, <3>3
  <2>2. QED BY <2>1 DEF ApartInv
<1>3. QED BY <1>1, <1>2

\* Speech goes on, or silence does; the longest utterance may be cut.
LEMMA GoesOn ==
  ASSUME TypeOK, SpeechInv, RingInv', total' = total + Window, ring' = Heard,
         NEW from \in Nat, NEW pending, TooLong(from, lastVoiced', inSpeech', pending),
         lastVoiced' \in Nat, lastVoiced' >= lastVoiced,
         voiced' \subseteq voiced \cup {total}, dropped' = dropped,
         \A w \in voiced' :
           Accounted(w) \/ (inSpeech' /\ w >= from /\ total' - w < MaxSpeech + Window),
         inSpeech' /\ cut # <<>> /\ ~broken => cut[Len(cut)].to <= from,
         ~inSpeech' => ~inSpeech /\ lastVoiced' = lastVoiced
  PROVE  LengthInv' /\ CutInv' /\ PauseInv' /\ ApartInv' /\ NoneLost'
<1> DEFINE u == Finish(Heard, from, lastVoiced', "long")
<1>0. /\ total \in Nat /\ total' \in Nat /\ total' >= total /\ lastVoiced \in Nat
      /\ voiced \subseteq Nat /\ voiced' \subseteq Nat /\ Window \in Nat \ {0}
  BY Numbers, VoiceAssumption
<1>1. u.from = from /\ u.to = lastVoiced' /\ u.why = "long" /\ u.apart = broken
  BY DEF Finish
<1>2. \A w \in voiced' : Remembered(w, Heard, total') /\ w + Window <= lastVoiced'
  BY DEF RingInv
<1>3. \A w \in voiced' :
        \/ Accounted(w)
        \/ /\ inSpeech' /\ w >= from
           /\ w \in u.made /\ u.from <= w /\ w + Window <= u.to
  <2>1. ASSUME NEW w \in voiced', w >= from, total' - w < MaxSpeech + Window
        PROVE  w \in u.made /\ u.from <= w /\ w + Window <= u.to
    BY <1>0, <1>2, <2>1, CutHolds
  <2>2. QED BY <2>1
<1> HIDE DEF u
<1>4. CASE cut' = Append(cut, u) /\ speechStart' = lastVoiced' /\ broken' = FALSE /\ inSpeech'
  <2>1. LengthInv'
    <3>1. \A w \in voiced' : w < speechStart'
      BY <1>0, <1>2, <1>4
    <3>2. QED BY <3>1 DEF LengthInv
  <2>2. CutInv'
    <3>1. cut'[Len(cut')].to = lastVoiced' /\ lastVoiced' <= speechStart' /\ inSpeech'
      BY <1>1, <1>4, CutAdded
    <3>2. QED BY <3>1 DEF CutInv
  <2>3. PauseInv'
    BY <1>0, <1>1, <1>4, PauseStays DEF SpeechInv
  <2>4. ApartInv'
    BY <1>1, <1>4, ApartStays DEF SpeechInv
  <2>5. NoneLost'
    <3>1. ASSUME NEW w \in voiced', Accounted(w) PROVE Accounted(w)'
      BY <1>4, <3>1, AccountedStays
    <3>2. ASSUME NEW w \in voiced', w \in u.made, u.from <= w, w + Window <= u.to
          PROVE  Accounted(w)'
      BY <1>4, <3>2, CutAdded DEF Accounted
    <3>3. QED BY <1>3, <3>1, <3>2 DEF NoneLost, Accounted
  <2>6. QED BY <2>1, <2>2, <2>3, <2>4, <2>5
<1>5. CASE cut' = cut /\ speechStart' = from /\ broken' = broken
           /\ (inSpeech' => total' - from < MaxSpeech)
  <2>1. LengthInv'
    BY <1>5 DEF LengthInv
  <2>2. CutInv'
    <3>1. cut # <<>> => cut[Len(cut)].to \in Nat /\ cut[Len(cut)].to <= lastVoiced
      BY CutDomain, UtteranceFields DEF SpeechInv, CutInv
    <3>2. cut # <<>> => cut'[Len(cut')].to <= lastVoiced'
      BY <1>0, <1>5, <3>1
    <3>3. ~inSpeech' /\ cut # <<>> /\ ~broken => lastVoiced' + MinSilence + Reopen <= total'
      BY <1>0, VoiceAssumption DEF SpeechInv, CutInv
    <3>4. QED BY <1>5, <3>2, <3>3 DEF CutInv
  <2>3. PauseInv'
    BY <1>0, <1>5, PauseStays DEF SpeechInv
  <2>4. ApartInv'
    BY <1>5, ApartStays DEF SpeechInv
  <2>5. NoneLost'
    <3>1. ASSUME NEW w \in voiced', Accounted(w) PROVE Accounted(w)'
      BY <1>5, <3>1, AccountedStays
    <3>2. QED BY <1>3, <1>5, <3>1 DEF NoneLost, Accounted
  <2>6. QED BY <2>1, <2>2, <2>3, <2>4, <2>5
<1>6. QED
  <2>1. CASE inSpeech' /\ total + Window - from >= MaxSpeech
    BY <1>4, <2>1 DEF TooLong, u
  <2>2. CASE ~(inSpeech' /\ total + Window - from >= MaxSpeech)
    <3>1. cut' = cut /\ speechStart' = from /\ broken' = broken
      BY <2>2 DEF TooLong
    <3>2. inSpeech' => total' - from < MaxSpeech
      BY <1>0, <2>2, VoiceAssumption
    <3>3. QED BY <1>5, <3>1, <3>2
  <2>3. QED BY <2>1, <2>2

\* Speech ends: the utterance is handed out, or its windows are dropped.
LEMMA SpeechEnds ==
  ASSUME TypeOK, SpeechInv, RingInv', inSpeech, ~inSpeech',
         UNCHANGED <<speechStart, lastVoiced, voiced>>,
         total' \in Nat, total' >= total, NEW why,
         why = "pause" => lastVoiced + MinSilence + Reopen <= total',
         broken' \/ lastVoiced + MinSilence + Reopen <= total',
         \/ /\ cut' = Append(cut, Finish(ring', speechStart, lastVoiced, why))
            /\ UNCHANGED dropped
            /\ \A w \in voiced : w >= speechStart => total' - w < MaxSpeech + Window
         \/ dropped' = dropped \cup {w \in voiced : w >= speechStart} /\ UNCHANGED cut
  PROVE  LengthInv' /\ CutInv' /\ PauseInv' /\ ApartInv' /\ NoneLost'
<1> DEFINE u == Finish(ring', speechStart, lastVoiced, why)
<1>0. /\ total \in Nat /\ lastVoiced \in Nat /\ speechStart \in Nat
      /\ voiced \subseteq Nat /\ Window \in Nat \ {0} /\ voiced' \subseteq voiced \cup {total}
  BY Numbers, VoiceAssumption
<1>1. u.from = speechStart /\ u.to = lastVoiced /\ u.why = why /\ u.apart = broken
  BY DEF Finish
<1>2. \A w \in voiced : Remembered(w, ring', total') /\ w + Window <= lastVoiced
  BY DEF RingInv
<1>3. LengthInv'
  BY DEF LengthInv
<1>4. \A w \in voiced : Accounted(w) \/ w >= speechStart
  BY DEF SpeechInv, NoneLost, Accounted
<1>5. CASE /\ cut' = Append(cut, u) /\ UNCHANGED dropped
           /\ \A w \in voiced : w >= speechStart => total' - w < MaxSpeech + Window
  <2>1. ASSUME NEW w \in voiced, w >= speechStart
        PROVE  w \in u.made /\ u.from <= w /\ w + Window <= u.to
    BY <1>0, <1>2, <1>5, <2>1, CutHolds
  <2> HIDE DEF u
  <2>2. CutInv'
    <3>1. cut'[Len(cut')].to = lastVoiced'
      BY <1>1, <1>5, CutAdded
    <3>2. QED BY <1>0, <3>1 DEF CutInv
  <2>3. PauseInv'
    <3>1. \A w \in voiced' : w < u.to
      BY <1>0, <1>1, <1>2
    <3>2. QED BY <1>0, <1>1, <1>5, <3>1, PauseStays DEF SpeechInv
  <2>4. ApartInv'
    <3>1. cut # <<>> /\ ~u.apart => cut[Len(cut)].to <= u.from
      BY <1>1 DEF SpeechInv, CutInv
    <3>2. QED BY <1>5, <3>1, ApartStays DEF SpeechInv
  <2>5. NoneLost'
    <3>1. ASSUME NEW w \in voiced, Accounted(w) PROVE Accounted(w)'
      BY <1>5, <3>1, AccountedStays
    <3>2. ASSUME NEW w \in voiced, w >= speechStart PROVE Accounted(w)'
      BY <1>5, <2>1, <3>2, CutAdded DEF Accounted
    <3>3. QED BY <1>4, <3>1, <3>2 DEF NoneLost, Accounted
  <2>6. QED BY <1>3, <2>2, <2>3, <2>4, <2>5
<1>6. CASE dropped' = dropped \cup {w \in voiced : w >= speechStart} /\ UNCHANGED cut
  <2>2. CutInv'
    BY <1>0, <1>6 DEF SpeechInv, CutInv
  <2>3. PauseInv'
    BY <1>0, <1>6, PauseStays DEF SpeechInv
  <2>4. ApartInv'
    BY <1>6, ApartStays DEF SpeechInv
  <2>5. NoneLost'
    <3>1. ASSUME NEW w \in voiced, Accounted(w) PROVE Accounted(w)'
      BY <1>6, <3>1, AccountedStays
    <3>2. ASSUME NEW w \in voiced, w >= speechStart PROVE w \in dropped'
      BY <1>6, <3>2
    <3>3. QED BY <1>4, <3>1, <3>2 DEF NoneLost, Accounted
  <2>6. QED BY <1>3, <2>2, <2>3, <2>4, <2>5
<1>7. QED BY <1>5, <1>6

LEMMA InitSpeech == Init => SpeechInv
<1> SUFFICES ASSUME Init PROVE SpeechInv
  OBVIOUS
<1>1. RingInv
  BY RingSpans DEF Init, RingInv, FarBack
<1>2. LengthInv /\ NoneLost /\ PauseInv /\ ApartInv
  BY DEF Init, LengthInv, NoneLost, PauseInv, ApartInv
<1>3. CutInv
  BY DEF Init, CutInv
<1>4. QED BY <1>1, <1>2, <1>3 DEF SpeechInv

\* A window that is processed.
LEMMA ProcessSpeech == ASSUME TypeOK, SpeechInv, Process PROVE SpeechInv'
<1>0. /\ total \in Nat /\ total' = total + Window /\ speechStart \in Nat /\ lastVoiced \in Nat
      /\ voiced \subseteq Nat /\ Window \in Nat \ {0} /\ lastVoiced <= total
      /\ MaxSpeech \in Nat \ {0}
  BY Numbers, VoiceAssumption DEF Process
<1>1. CASE Voiced
  <2> DEFINE from == IF inSpeech THEN speechStart ELSE IF total > Pad THEN total - Pad ELSE 0
  <2>0. /\ ring' = Heard /\ lastVoiced' = total + Window /\ voiced' = voiced \cup {total}
        /\ dropped' = dropped /\ inSpeech' = TRUE
        /\ TooLong(from, lastVoiced', inSpeech', Resumed)
    BY <1>1 DEF Voiced
  <2>f. from \in Nat /\ from <= total
    BY <1>0, VoiceAssumption DEF TypeOK, StreamType
  <2>1. RingInv'
    <3>1. \A w \in voiced' : w + Window <= lastVoiced'
      BY <1>0, <2>0 DEF SpeechInv, RingInv
    <3>2. QED BY <1>0, <2>0, <3>1, HeardKeeps DEF SpeechInv, RingInv
  <2>2. \A w \in voiced' : Accounted(w) \/ (w >= from /\ total' - w < MaxSpeech + Window)
    <3>1. total >= from /\ total' - total < MaxSpeech + Window
      BY <1>0, <2>f
    <3>2. ASSUME NEW w \in voiced, inSpeech, ~Accounted(w)
          PROVE  w >= from /\ total' - w < MaxSpeech + Window
      <4>1. w >= speechStart /\ total - w < MaxSpeech
        BY <3>2, InProgress
      <4>2. QED BY <1>0, <3>2, <4>1
    <3>3. ASSUME NEW w \in voiced, ~inSpeech PROVE Accounted(w)
      BY <3>3 DEF SpeechInv, NoneLost, Accounted
    <3> HIDE DEF from
    <3>4. \A w \in voiced' : w \in voiced \/ w = total
      BY <2>0
    <3>5. ASSUME NEW w \in voiced'
          PROVE  Accounted(w) \/ (w >= from /\ total' - w < MaxSpeech + Window)
      <4>1. CASE w = total
        BY <3>1, <4>1
      <4>2. CASE w \in voiced
        BY <3>2, <3>3, <4>2, Zenon
      <4>3. QED BY <3>4, <4>1, <4>2
    <3>6. QED BY <3>5
  <2>3. cut # <<>> /\ ~broken => cut[Len(cut)].to <= from
    <3>1. CASE inSpeech
      BY <3>1 DEF SpeechInv, CutInv
    <3>2. CASE ~inSpeech
      <4>1. SUFFICES ASSUME cut # <<>>, ~broken PROVE cut[Len(cut)].to <= from
        OBVIOUS
      <4>2. /\ cut[Len(cut)].to \in Nat /\ cut[Len(cut)].to <= lastVoiced
            /\ lastVoiced + MinSilence + Reopen <= total
        BY <3>2, <4>1, CutDomain, UtteranceFields DEF SpeechInv, CutInv
      <4>3. QED BY <1>0, <3>2, <4>2, VoiceAssumption
    <3>3. QED BY <3>1, <3>2
  <2> HIDE DEF from
  <2>4. LengthInv' /\ CutInv' /\ PauseInv' /\ ApartInv' /\ NoneLost'
    <3>1. /\ lastVoiced' \in Nat /\ lastVoiced' >= lastVoiced
          /\ voiced' \subseteq voiced \cup {total}
      BY <1>0, <2>0
    <3>2. inSpeech'
      BY <2>0
    <3>3. \A w \in voiced' :
            Accounted(w) \/ (inSpeech' /\ w >= from /\ total' - w < MaxSpeech + Window)
      BY <2>2, <3>2, Zenon
    <3>4. inSpeech' /\ cut # <<>> /\ ~broken => cut[Len(cut)].to <= from
      BY <2>3
    <3>5. QED BY <1>0, <2>0, <2>f, <2>1, <3>1, <3>2, <3>3, <3>4, GoesOn, ZenonT(30)
  <2>5. QED BY <2>1, <2>4 DEF SpeechInv
<1>2. ASSUME NEW level \in {"silent", "unsure"}, Quiet(level) PROVE SpeechInv'
  <2>0. ring' = Heard /\ UNCHANGED <<lastVoiced, voiced>>
    BY <1>2 DEF Quiet
  <2>1. RingInv'
    BY <1>0, <2>0, HeardKeeps DEF SpeechInv, RingInv
  <2>2. ASSUME inSpeech, NEW w \in voiced
        PROVE  /\ Accounted(w) \/ w >= speechStart
               /\ w >= speechStart => total' - w < MaxSpeech + Window
    <3>1. /\ Accounted(w) \/ w >= speechStart
          /\ w >= speechStart => total - w < MaxSpeech
      BY <2>2, InProgress
    <3>2. QED BY <1>0, <3>1
  <2>3. CASE level = "silent" /\ Closes
    <3>1. Close(Heard, "pause")
      BY <1>2, <2>3 DEF Quiet
    <3>2. inSpeech /\ lastVoiced + MinSilence + Reopen <= total'
      BY <1>0, <2>3, VoiceAssumption DEF Closes, HeldOn, GoesPending, Silence
    <3>3. /\ inSpeech' = FALSE /\ UNCHANGED speechStart
          /\ \/ /\ cut' = Append(cut, Finish(ring', speechStart, lastVoiced, "pause"))
                /\ UNCHANGED dropped
             \/ dropped' = dropped \cup {w \in voiced : w >= speechStart} /\ UNCHANGED cut
      BY <2>0, <3>1 DEF Close
    <3>4. \A w \in voiced : w >= speechStart => total' - w < MaxSpeech + Window
      BY <2>2, <3>2
    <3>5. total' \in Nat /\ total' >= total
      BY <1>0
    <3>6. LengthInv' /\ CutInv' /\ PauseInv' /\ ApartInv' /\ NoneLost'
      BY <2>0, <2>1, <3>2, <3>3, <3>4, <3>5, SpeechEnds
    <3>7. QED BY <2>1, <3>6 DEF SpeechInv
  <2>4. CASE ~(level = "silent" /\ Closes)
    <3> DEFINE pending == IF level = "silent" /\ GoesPending THEN lastVoiced ELSE pendingEnd
    <3>1. /\ TooLong(speechStart, lastVoiced', inSpeech, pending)
          /\ UNCHANGED <<inSpeech, dropped>>
      BY <1>2, <2>0, <2>4 DEF Quiet
    <3> HIDE DEF pending
    <3>2. /\ TooLong(speechStart, lastVoiced', inSpeech', pending) /\ inSpeech' = inSpeech
          /\ dropped' = dropped /\ lastVoiced' = lastVoiced /\ voiced' = voiced
      BY <2>0, <3>1
    <3>3. \A w \in voiced' :
            Accounted(w) \/ (inSpeech' /\ w >= speechStart /\ total' - w < MaxSpeech + Window)
      <4>1. ASSUME ~inSpeech, NEW w \in voiced PROVE Accounted(w)
        BY <4>1 DEF SpeechInv, NoneLost, Accounted
      <4>2. QED BY <2>2, <3>2, <4>1, Zenon
    <3>4. inSpeech /\ cut # <<>> /\ ~broken => cut[Len(cut)].to <= speechStart
      BY DEF SpeechInv, CutInv
    <3>5. LengthInv' /\ CutInv' /\ PauseInv' /\ ApartInv' /\ NoneLost'
      <4>1. lastVoiced' \in Nat /\ lastVoiced' >= lastVoiced
        BY <1>0, <3>2
      <4>2. QED BY <1>0, <2>0, <2>1, <3>2, <3>3, <3>4, <4>1, GoesOn
    <3>6. QED BY <2>1, <3>5 DEF SpeechInv
  <2>5. QED BY <2>3, <2>4
<1>3. QED BY <1>1, <1>2 DEF Process

LEMMA NextSpeech == TypeOK /\ SpeechInv /\ [Next]_vars => SpeechInv'
<1> SUFFICES ASSUME TypeOK, SpeechInv, [Next]_vars PROVE SpeechInv'
  OBVIOUS
<1>0. /\ total \in Nat /\ speechStart \in Nat /\ lastVoiced \in Nat
      /\ voiced \subseteq Nat /\ Window \in Nat \ {0} /\ MaxSpeech \in Nat \ {0}
  BY Numbers, VoiceAssumption
<1>1. CASE Flush
  <2>1. inSpeech /\ inSpeech' = FALSE /\ broken' = TRUE
        /\ UNCHANGED <<total, speechStart, lastVoiced, ring, voiced>>
    BY <1>1 DEF Flush, Breaks
  <2>2. RingInv'
    BY <2>1 DEF SpeechInv, RingInv, FarBack, Remembered
  <2>3. ASSUME NEW w \in voiced, w >= speechStart PROVE total' - w < MaxSpeech + Window
    <3>1. total - w < MaxSpeech
      BY <2>1, <2>3, InProgress
    <3>2. QED BY <1>0, <2>1, <3>1
  <2>4. \/ /\ cut' = Append(cut, Finish(ring', speechStart, lastVoiced, "flush"))
           /\ UNCHANGED dropped
        \/ dropped' = dropped \cup {w \in voiced : w >= speechStart} /\ UNCHANGED cut
    BY <1>1, <2>1 DEF Flush
  <2>5. LengthInv' /\ CutInv' /\ PauseInv' /\ ApartInv' /\ NoneLost'
    <3>1. total' \in Nat /\ total' >= total /\ broken' /\ ~inSpeech'
      BY <1>0, <2>1
    <3>2. /\ UNCHANGED <<speechStart, lastVoiced, voiced>>
          /\ \A w \in voiced : w >= speechStart => total' - w < MaxSpeech + Window
      BY <2>1, <2>3, Zenon
    <3>3. "flush" = "pause" => lastVoiced + MinSilence + Reopen <= total'
      OBVIOUS
    <3>4. QED BY <2>1, <2>2, <2>4, <3>1, <3>2, <3>3, SpeechEnds
  <2>6. QED BY <2>2, <2>5 DEF SpeechInv
<1>2. ASSUME NEW tail \in 0 .. Window - 1, Discard(tail) PROVE SpeechInv'
  <2>1. /\ inSpeech /\ inSpeech' = FALSE /\ broken' = TRUE
        /\ UNCHANGED <<speechStart, lastVoiced, ring, voiced, cut>>
        /\ dropped' = dropped \cup {w \in voiced : w >= speechStart}
    BY <1>2 DEF Discard, Breaks
  <2>2. total' \in Nat /\ total' >= total
    BY <1>0, <1>2 DEF Discard
  <2>3. RingInv'
    <3>1. FarBack(ring, total)'
      <4>1. ASSUME NEW i \in DOMAIN ring PROVE ring[i] + Back(Len(ring) - i + 1) <= total'
        <5>1. ring[i] \in Nat /\ Len(ring) - i + 1 \in Nat
          BY DEF TypeOK, StreamType
        <5>2. Back(Len(ring) - i + 1) \in Nat
          BY <5>1, BackSteps
        <5>3. ring[i] + Back(Len(ring) - i + 1) <= total
          BY DEF SpeechInv, RingInv, FarBack
        <5>4. QED BY <1>0, <2>2, <5>1, <5>2, <5>3
      <4>2. QED BY <2>1, <4>1 DEF FarBack
    <3>2. \A w \in voiced : Remembered(w, ring, total')
      <4>1. Back(RingSize + 1) \in Nat
        BY RingSpans, BackSteps
      <4>2. QED BY <1>0, <2>2, <4>1 DEF SpeechInv, RingInv, Remembered
    <3>3. QED BY <2>1, <3>1, <3>2 DEF SpeechInv, RingInv, FarBack, Remembered
  <2>4. LengthInv' /\ CutInv' /\ PauseInv' /\ ApartInv' /\ NoneLost'
    <3>1. broken' /\ ~inSpeech'
      BY <2>1
    <3>2. QED BY <2>1, <2>2, <2>3, <3>1, SpeechEnds
  <2>5. QED BY <2>3, <2>4 DEF SpeechInv
<1>3. CASE UNCHANGED vars
  BY <1>3 DEF vars, vad, SpeechInv, RingInv, FarBack, Remembered, LengthInv, CutInv, PauseInv,
              ApartInv, NoneLost
<1>4. QED BY <1>1, <1>2, <1>3, ProcessSpeech DEF Next

\* Every voiced window is in an utterance that was handed out, whole, or in the one in
\* progress, or was dropped, and two utterances share no audio unless a flush or a
\* manual wake came between them: for every length of the windows, pauses, padding and
\* ring that VoiceAssumption admits (VAD._on_window, flush, discard_in_progress).
THEOREM NothingLostOrTwice == Spec => []SpeechSound
<1>1. Init => SpeechInv
  BY InitSpeech
<1>2. TypeOK /\ SpeechInv /\ [Next]_vars => SpeechInv'
  BY NextSpeech
<1>3. TypeOK /\ SpeechInv => SpeechSound
  <2> SUFFICES ASSUME TypeOK, SpeechInv PROVE SpeechSound
    OBVIOUS
  <2>1. ASSUME NEW i \in 2 .. Len(cut), ~cut[i].apart
        PROVE  /\ cut[i - 1].to <= cut[i].from
               /\ cut[i - 1].why = "pause" => \A w \in voiced :
                    w >= cut[i - 1].to => w >= cut[i - 1].to + MinSilence + Reopen
    <3>1. i - 1 \in DOMAIN cut
      BY CutDomain
    <3>2. QED BY <2>1, <3>1 DEF SpeechInv, ApartInv, PauseInv
  <2>2. QED BY <2>1 DEF SpeechInv, SpeechSound, NoneTwice
<1>4. QED BY <1>1, <1>2, <1>3, TypeCorrect, PTL DEF Spec
=============================================================================
