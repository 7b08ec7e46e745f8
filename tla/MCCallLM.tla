------------------------------- MODULE MCCallLM -------------------------------
(* Instances of CallLM for TLC.                                              *)
EXTENDS CallLM
MCWords == {[kind |-> "finish", text |-> "answer"], [kind |-> "message", text |-> "answer"],
            [kind |-> "message", text |-> "done"]}
Plain(mode) == [mode |-> mode, no_wait |-> FALSE, stop_after_first_message |-> FALSE,
                ignore_done_status |-> FALSE]
MCRequests ==
  {Plain("new"), Plain("continue"), Plain("read_only"),
   [Plain("new") EXCEPT !.no_wait = TRUE], [Plain("continue") EXCEPT !.no_wait = TRUE],
   [Plain("continue") EXCEPT !.stop_after_first_message = TRUE],
   [Plain("continue") EXCEPT !.ignore_done_status = TRUE]}
===============================================================================
