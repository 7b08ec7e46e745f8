------------------------------- MODULE RoleRun -------------------------------
(***************************************************************************)
(* What a role run promises to the orchestrator, without the calls, files  *)
(* and polls that bring it about: a run is decided at most once, a         *)
(* decision is final, a completed run has a non-empty report that never    *)
(* changes again, and PASS is only ever decided on the agent's own word.   *)
(* This is the contract of the module docstring of                         *)
(* mcp_agent/role_lifecycle.py (its state machine) and of the responses    *)
(* role_wait documents.                                                    *)
(***************************************************************************)
CONSTANTS Actions,   \* what a control summary may tell the orchestrator to do
          Answers,   \* what the agent can say
          Empty,     \* the report of a run that has none
          Passing    \* the answers that say PASS

VARIABLES outcome,   \* "open", "failed", or the action of a completed run
          report,    \* the run's primary artifact, once it is completed
          said       \* what the agent has said so far

Init == outcome = "open" /\ report = Empty /\ said = {}

(* The agent says something more.                                          *)
Speak ==
  /\ \E t \in Answers : said' = said \cup {t}
  /\ UNCHANGED <<outcome, report>>

(* The run completes with an action and a report it was given.             *)
Complete ==
  /\ outcome = "open"
  /\ \E a \in Actions, t \in said :
       /\ a = "PASS" => said \cap Passing # {}
       /\ outcome' = a /\ report' = t
  /\ UNCHANGED said

Fail ==
  /\ outcome = "open"
  /\ outcome' = "failed"
  /\ UNCHANGED <<report, said>>

Next == Speak \/ Complete \/ Fail

Spec == Init /\ [][Next]_<<outcome, report, said>>
===============================================================================
