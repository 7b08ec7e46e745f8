----------------------------- MODULE MCRoleWait -----------------------------
(* Instances of RoleWait for TLC: a reviewer's run, whose summary decides   *)
(* the route, and the run of another role.                                  *)
EXTENDS RoleWait, TLC

(* Main reports of a reviewer: with a PASS line, a BLOCKER line or neither. *)
MCMain == {"report_pass", "report_blocker", "report_plain"}
MCSummary == {"sum_pass", "sum_blocker", "sum_junk"}

MCParsed == [t \in Answers |-> CASE t = "sum_pass"    -> "PASS"
                                 [] t = "sum_blocker" -> "BLOCKER"
                                 [] OTHER             -> "invalid"]
MCDerived == [t \in Answers |-> CASE t = "report_pass"    -> "PASS"
                                  [] t = "report_blocker" -> "BLOCKER"
                                  [] OTHER                -> "none"]

(* Fewer texts where two calls run at once: none says PASS, so a PASS in    *)
(* the record could only be made up.                                        *)
MCMainSmall == {"report_plain"}
MCSummarySmall == {"sum_blocker"}

(* A role other than the reviewer.                                          *)
MCParsedOther == [t \in Answers |-> IF t = "sum_pass" THEN "none" ELSE "invalid"]

(* Calls are interchangeable.                                               *)
MCSymmetry == Permutations(Waiters)

(* No step reads the responses already given, and the runs that use this    *)
(* view check no property of them.                                          *)
MCView == <<rec, primary, summary, conv, w, faults>>
==============================================================================
