---------------------------- MODULE MCFinalAnswer ----------------------------
(* Instances of FinalAnswer for TLC.                                        *)
EXTENDS FinalAnswer
MCAnswers == {[kind |-> "finish", text |-> "answer"], [kind |-> "message", text |-> "answer"]}
MCWords == MCAnswers \cup {[kind |-> "message", text |-> "done"]}
==============================================================================
