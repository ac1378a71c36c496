---------------------------- MODULE MCPollDesc ----------------------------
(* A reader or a writer, one caller, deadlines in the past and two to come *)
(* so that the timers of both modes are one or two; seq up to 4 lets a     *)
(* descriptor be closed and opened again under a timer of its former life. *)
EXTENDS PollDesc

MCDeadlines == {-1, 1, 2}
MCUsers == {{"r"}, {"w"}}
===========================================================================
