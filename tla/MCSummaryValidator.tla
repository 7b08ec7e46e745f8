-------------------------- MODULE MCSummaryValidator --------------------------
(* Instances of SummaryValidator for TLC: a summary has one unknown value at *)
(* most; a report is its verdict and one more mention of an action at most.  *)
EXTENDS SummaryValidator
MCPlain ==
  [status : {"blocked"}, role : Roles, blocking : {"yes", "no"}, risk_level : {"HIGH"},
   action : {"PASS", "BLOCKER", "NONE"}, blocking_summary : {<<>>, <<"b1", "b2">>}]
MCUnknown ==
  LET d == [status |-> "completed", role |-> "reviewer", blocking |-> "no",
            risk_level |-> "NONE", action |-> "PASS", blocking_summary |-> <<"b1">>]
  IN {d, [d EXCEPT !.status = "?"], [d EXCEPT !.blocking = "?"], [d EXCEPT !.risk_level = "?"],
      [d EXCEPT !.action = "?"], [d EXCEPT !.role = "coder", !.action = "?"],
      [d EXCEPT !.role = "coder", !.action = "NONE"]}
MCData == MCPlain \cup MCUnknown
MCActions == {"PASS", "BLOCKER", "NEEDS_FIX", "BLOCKED"}
MCReports == {<<>>} \cup {<<a>> : a \in MCActions} \cup (MCActions \X MCActions)
===============================================================================
