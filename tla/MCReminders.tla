---------------------------- MODULE MCReminders ----------------------------
(***************************************************************************)
(* Reminders with the requests of a few clients: days of two ticks, weeks  *)
(* of two days.                                                            *)
(***************************************************************************)
EXTENDS Reminders

\* One of every kind; the instant is over when it is asked for late, and one
\* client names no weekday.
UsualRequests == {Once(2), Interval(2), Daily(1), Weekly(0, {1}), Weekly(0, {})}
=============================================================================
