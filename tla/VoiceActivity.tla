---------------------------- MODULE VoiceActivity ----------------------------
(***************************************************************************)
(* The endpointing of app/vad.py: where an utterance starts and ends in    *)
(* the stream of one microphone, and which audio it is made of.  Positions *)
(* are counts of samples since the stream began.  The neural network is    *)
(* left open: every window is "voiced" (at the threshold or above),        *)
(* "silent" (below neg_threshold) or "unsure" (between the two).           *)
(***************************************************************************)
EXTENDS Integers, Sequences, FiniteSets, SequencesExt

CONSTANTS Window,        \* WINDOW_SAMPLES
          Pad, MinSpeech, MinSilence, Reopen, MaxSpeech,   \* in samples
          RingExtra,     \* windows the ring holds beyond MaxSpeech
          MaxWindows,    \* windows of one run
          MaxBreaks,     \* flushes and discards of one run
          None

\* Without the bound on Pad the padding would reach into the utterance before, and
\* without the one on RingExtra the longest utterance would have left the ring.
ASSUME VoiceAssumption ==
  /\ Window \in Nat \ {0} /\ Pad \in Nat /\ Pad <= MinSilence + Reopen
  /\ MinSpeech \in Nat /\ MinSilence \in Nat \ {0} /\ Reopen \in Nat
  /\ MaxSpeech \in Nat \ {0} /\ RingExtra \in Nat \ {0}
  /\ MaxWindows \in Nat /\ MaxBreaks \in Nat

VARIABLES
  total,       \* samples processed
  inSpeech, speechStart, lastVoiced, pendingEnd,
  ring,        \* the starts of the last windows
  windows, breaks,
  \* history
  voiced,      \* the starts of all voiced windows
  cut,         \* the utterances handed out: where each starts and ends, what it is
               \* made of, and why it ended
  dropped,     \* the voiced windows dropped as too short or by a manual wake
  broken       \* a flush or a discard came since the last utterance

vad == <<total, inSpeech, speechStart, lastVoiced, pendingEnd, ring>>
vars == <<vad, windows, breaks, voiced, cut, dropped, broken>>

Why == {"pause", "flush", "long"}
Utterance == [from : Nat, to : Nat, made : SUBSET Nat, why : Why, apart : BOOLEAN]

\* The detector's own fields, the positions in their order.
StreamType ==
  /\ total \in Nat /\ speechStart \in Nat /\ lastVoiced \in Nat
  /\ pendingEnd \in Nat \cup {None}
  /\ ring \in Seq(Nat) /\ \A i \in DOMAIN ring : ring[i] <= total - Window
  /\ inSpeech => speechStart <= lastVoiced
  /\ lastVoiced <= total
  /\ pendingEnd # None => inSpeech /\ pendingEnd = lastVoiced

HistoryType ==
  /\ windows \in Nat /\ breaks \in Nat
  /\ voiced \subseteq 0 .. total /\ dropped \subseteq voiced
  /\ cut \in Seq(Utterance) /\ \A i \in DOMAIN cut : cut[i].made \subseteq 0 .. total

\* Every variable has its type, and the positions are in their order.
TypeOK == StreamType /\ HistoryType /\ inSpeech \in BOOLEAN /\ broken \in BOOLEAN

Init ==
  /\ total = 0 /\ inSpeech = FALSE /\ speechStart = 0 /\ lastVoiced = 0 /\ pendingEnd = None
  /\ ring = <<>> /\ windows = 0 /\ breaks = 0
  /\ voiced = {} /\ cut = <<>> /\ dropped = {} /\ broken = FALSE
-----------------------------------------------------------------------------
\* Mutant: the ring holds the longest utterance and no more.
RingSize_Exact == MaxSpeech \div Window

RingSize == MaxSpeech \div Window + RingExtra

\* The ring with the window that is being processed.
Heard == LET r == Append(ring, total)
         IN IF Len(r) > RingSize THEN Tail(r) ELSE r

\* _segment: the windows of the ring between two positions.
Segment(r, from, to) == {w \in Range(r) : w + Window > from /\ w < to}

\* _finish
Finish(r, from, to, why) ==
  [from |-> from, to |-> to, made |-> Segment(r, from, to), why |-> why, apart |-> broken]

\* Mutant: speech that is resumed leaves the endpoint pending.
Resumed_StillPending == pendingEnd

\* Speech within the reopen window makes the breath a pause.
Resumed == None

Silence == total + Window - lastVoiced

\* Stage 1: the endpoint goes pending.
GoesPending == inSpeech /\ pendingEnd = None /\ Silence >= MinSilence

\* Stage 2: the silence held through the reopen window.
HeldOn == inSpeech /\ pendingEnd # None /\ Silence >= MinSilence + Reopen

Closes == HeldOn \/ (GoesPending /\ Reopen = 0)

\* The longest utterance is handed out and speech goes on.
TooLong(from, voice, open, pending) ==
  IF open /\ total + Window - from >= MaxSpeech
  THEN /\ cut' = Append(cut, Finish(Heard, from, voice, "long"))
       /\ speechStart' = voice /\ pendingEnd' = None /\ broken' = FALSE
  ELSE /\ speechStart' = from /\ pendingEnd' = pending
       /\ UNCHANGED <<cut, broken>>

\* _on_window, of a voiced window.
Voiced ==
  /\ ring' = Heard
  /\ LET from == IF inSpeech THEN speechStart ELSE IF total > Pad THEN total - Pad ELSE 0
     IN TooLong(from, total + Window, TRUE, Resumed)
  /\ inSpeech' = TRUE
  /\ lastVoiced' = total + Window
  /\ voiced' = voiced \cup {total}
  /\ UNCHANGED dropped

\* _close_utterance
Close(r, why) ==
  /\ inSpeech' = FALSE /\ pendingEnd' = None
  /\ IF lastVoiced - speechStart >= MinSpeech
     THEN /\ cut' = Append(cut, Finish(r, speechStart, lastVoiced, why))
          /\ broken' = FALSE
          /\ UNCHANGED dropped
     ELSE /\ dropped' = dropped \cup {w \in voiced : w >= speechStart}
          /\ UNCHANGED <<cut, broken>>
  /\ UNCHANGED speechStart

\* _on_window, of a silent or unsure window.
Quiet(level) ==
  /\ ring' = Heard
  /\ IF level = "silent" /\ Closes
     THEN Close(Heard, "pause")
     ELSE /\ TooLong(speechStart, lastVoiced, inSpeech,
                     IF level = "silent" /\ GoesPending THEN lastVoiced ELSE pendingEnd)
          /\ UNCHANGED <<inSpeech, dropped>>
  /\ UNCHANGED <<lastVoiced, voiced>>

\* process: the windows of a chunk one after the other; what is left of it waits
\* for the next.
Process ==
  /\ windows < MaxWindows
  /\ windows' = windows + 1
  /\ total' = total + Window
  /\ Voiced \/ \E level \in {"silent", "unsure"} : Quiet(level)
  /\ UNCHANGED breaks

\* A flush or a discard.
Breaks ==
  /\ breaks < MaxBreaks
  /\ breaks' = breaks + 1
  /\ UNCHANGED <<ring, windows, voiced>>

\* flush: the stream stops.  What is not a full window yet stays.
Flush ==
  /\ inSpeech
  /\ inSpeech' = FALSE /\ pendingEnd' = None
  /\ IF lastVoiced - speechStart >= MinSpeech
     THEN cut' = Append(cut, Finish(ring, speechStart, lastVoiced, "flush")) /\ UNCHANGED dropped
     ELSE dropped' = dropped \cup {w \in voiced : w >= speechStart} /\ UNCHANGED cut
  /\ broken' = TRUE
  /\ UNCHANGED <<total, speechStart, lastVoiced>>
  /\ Breaks

\* discard_in_progress, at a manual wake: the utterance goes, and the tail, what
\* is not a full window yet, is skipped.
Discard(tail) ==
  /\ inSpeech
  /\ inSpeech' = FALSE /\ pendingEnd' = None
  /\ total' = total + tail
  /\ dropped' = dropped \cup {w \in voiced : w >= speechStart}
  /\ broken' = TRUE
  /\ UNCHANGED <<speechStart, lastVoiced, cut>>
  /\ Breaks

Next == Process \/ Flush \/ \E tail \in 0 .. Window - 1 : Discard(tail)

Spec == Init /\ [][Next]_vars
-----------------------------------------------------------------------------
\* Every voiced window is in an utterance that was handed out, whole, or in the
\* one in progress, or it was dropped as too short or at a manual wake: the ring
\* is long enough, and a cut at the longest utterance loses nothing.
NoneLost == \A w \in voiced :
  \/ w \in dropped
  \/ inSpeech /\ w >= speechStart
  \/ \E i \in DOMAIN cut : w \in cut[i].made /\ cut[i].from <= w /\ w + Window <= cut[i].to

\* Two utterances have no audio in common, except that padding may reach back
\* over a flush or a manual wake; two that a pause ended are that pause and the
\* reopen window apart ("a breath pause doesn't split a sentence").
NoneTwice == \A i \in 2 .. Len(cut) : ~cut[i].apart =>
  /\ cut[i - 1].to <= cut[i].from
  /\ cut[i - 1].why = "pause" =>
       \A w \in voiced : w >= cut[i - 1].to => w >= cut[i - 1].to + MinSilence + Reopen

\* The utterances handed out are what was said: nothing lost, nothing twice.
SpeechSound == NoneLost /\ NoneTwice
=============================================================================
