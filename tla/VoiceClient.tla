---------------------------- MODULE VoiceClient ----------------------------
(***************************************************************************)
(* The browser console's reaction to the frames of one voice connection    *)
(* (static/app.js).  Only what decides whether audio is played and what    *)
(* the status line shows is kept: `drop` is S.dropAudio and `ui` is        *)
(* S.pipeline.  Transcript, captions and the other dialogs are left out.   *)
(***************************************************************************)

\* "listening" comes from the VAD's `start` event, sent only while no reply is
\* active; it is treated as "idle" here.
UiStates == {"idle", "thinking", "speaking"}

ClientStates == [drop : BOOLEAN, ui : UiStates]

InitialClient == [drop |-> FALSE, ui |-> "idle"]

\* The frames that change the state above.  "endAsleep" is an `end` frame that
\* arrives while the console shows vivo asleep: the status line does not move.
Frames == {"end", "endAsleep", "transcript", "audio", "barge_ack",
           "reply_done", "error"}

\* Mutant: an `end` frame does not lift the audio drop of an earlier barge-in.
OnFrame_KeepsDrop(c, f) ==
  CASE f \in {"end", "transcript"}    -> [c EXCEPT !.ui = "thinking"]
    [] f = "endAsleep"               -> c
    [] f = "audio"                   -> IF c.drop THEN c ELSE [c EXCEPT !.ui = "speaking"]
    [] f = "barge_ack"               -> [drop |-> TRUE, ui |-> "idle"]
    [] f \in {"reply_done", "error"} -> [c EXCEPT !.ui = "idle"]

\* handleServerJson for text frames, enqueueTTS for an audio frame.
OnFrame(c, f) ==
  CASE f = "end"                     -> [drop |-> FALSE, ui |-> "thinking"]
    [] f = "endAsleep"               -> [c EXCEPT !.drop = FALSE]
    [] f = "transcript"              -> [c EXCEPT !.ui = "thinking"]
    [] f = "audio"                   -> IF c.drop THEN c ELSE [c EXCEPT !.ui = "speaking"]
    [] f = "barge_ack"               -> [drop |-> TRUE, ui |-> "idle"]
    [] f \in {"reply_done", "error"} -> [c EXCEPT !.ui = "idle"]

\* The barge-in button, or the auto barge-in on a loud microphone: the frames
\* still in flight must not be played.  stopPlayback leaves S.pipeline alone.
OnBargeIn(c) == [c EXCEPT !.drop = TRUE]
=============================================================================
