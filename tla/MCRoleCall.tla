----------------------------- MODULE MCRoleCall -----------------------------
(* Instances of RoleCall for TLC: the scout and the architect, who needs    *)
(* the scout's report, called with the same key, without a key and with an  *)
(* artifact left out or not resolving.                                      *)
EXTENDS RoleCall, TLC

MCRequires == [r \in Roles |-> IF r = "architect" THEN {"scout_report"} ELSE {}]
MCOutput == [r \in Roles |-> IF r = "architect" THEN "architect_plan" ELSE "scout_report"]
MCSummary == [r \in Roles |-> IF r = "architect" THEN "architect_summary" ELSE "scout_summary"]

Request(role, key, given) == [role |-> role, key |-> key, task |-> "task", given |-> given]
NoIds == [s \in {} |-> "none"]
In(id) == [s \in {"scout_report"} |-> id]
MCRequests ==
  {Request("scout", "key", NoIds), Request("scout", NoKey, NoIds),
   Request("architect", "key", In("scout_report")), Request("architect", "key", NoIds),
   Request("publsher", NoKey, NoIds)}

(* Two calls at once: two scopes are enough to lose one of them; the id of  *)
(* the scout's summary in the slot of its report.                           *)
MCRequestsPair ==
  {Request("scout", "key", NoIds), Request("scout", NoKey, NoIds),
   Request("architect", "key", In("scout_report")),
   Request("architect", "key", In("scout_summary"))}

MCSymmetry == Permutations(Callers) \cup Permutations(RunIds)
MCRunSymmetry == Permutations(RunIds)
==============================================================================
