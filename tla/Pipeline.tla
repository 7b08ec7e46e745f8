------------------------------- MODULE Pipeline -------------------------------
(***************************************************************************)
(* The pipeline of roles as its orchestrator meets it: the role catalogue  *)
(* (config/roles.yaml), the tools role_call and role_wait of               *)
(* mcp_agent/server.py with the advice they add to their answers, and an   *)
(* orchestrator that follows this advice, or its prompt.                   *)
(*                                                                         *)
(* A tool call is one step here; modules RoleCall and RoleWait take it     *)
(* apart.  All calls are for one task and carry the key "feature-<role>"   *)
(* that README.md and prompts/head_of_it.md prescribe.  So a role has at   *)
(* most one run that its key leads to, and an artifact id is told by the   *)
(* role whose report it names.  A start may fail, or die before the key is *)
(* saved, with a conversation begun all the same: no key leads to it and   *)
(* nobody will wait for it, but its agent is at work.                      *)
(***************************************************************************)
EXTENDS Naturals, Sequences, Functions

CONSTANTS
  Starts,     \* the roles an orchestrator may begin with
  Routings,   \* what it goes by: "next_action", "loop", "head_of_it"
  Verdicts,   \* what a review may say
  None,       \* an empty field, no action
  Invented,   \* an artifact id that no artifact has
  MaxSlips,   \* bounds: ids forgotten or garbled by the orchestrator,
  MaxLost,    \* answers lost on their way to it,
  MaxFailed   \* and starts that fail

(* config/roles.yaml, and role_list's fields: every report but that of     *)
(* coder_fix has a field of role_call.                                     *)
requires_artifacts ==
  [scout     |-> <<>>,
   architect |-> <<"scout_report">>,
   coder     |-> <<"scout_report", "architect_plan">>,
   reviewer  |-> <<"scout_report", "architect_plan", "coder_report">>,
   publisher |-> <<"reviewer_report">>,
   coder_fix |-> <<"architect_plan", "coder_report", "reviewer_report">>]
output_artifact ==
  [scout    |-> "scout_report",    architect |-> "architect_plan",
   coder    |-> "coder_report",    reviewer  |-> "reviewer_report",
   publisher |-> "publisher_instructions", coder_fix |-> "coder_fix_result"]
Roles == DOMAIN output_artifact
Fields == {output_artifact[r] : r \in Roles \ {"coder_fix"}}

ASSUME PipelineAssumption ==
  /\ Starts \subseteq Roles
  /\ Routings \subseteq {"next_action", "loop", "head_of_it"}
  /\ "PASS" \in Verdicts
  /\ None \notin Roles \cup Verdicts /\ Invented \notin Roles \cup {None}
  /\ MaxSlips \in Nat /\ MaxLost \in Nat /\ MaxFailed \in Nat

VARIABLES
  runs,      \* the run that each role's key leads to
  strays,    \* how many agents of each role are at work in other conversations
  started,   \* the roles in the order in which their runs were started
  routing,   \* what the orchestrator goes by
  known,     \* the artifact id it remembers for each field
  todo,      \* the tool call it makes next
  slips, lost, failed

vars == <<runs, strays, started, routing, known, todo, slips, lost, failed>>

-------------------------------------------------------------------------------
Ids == Roles \cup {None, Invented}
Givens == [Fields -> Ids]
NoIds == [f \in Fields |-> None]

NoRun == [status |-> "none", ended |-> FALSE, action |-> None, given |-> NoIds]
Status(s) == {r \in Roles : runs[r].status = s}

Call(role, given) == [tool |-> "role_call", role |-> role, given |-> given]
Wait(role) == [tool |-> "role_wait", role |-> role, given |-> NoIds]
Stop(role) == [tool |-> "none", role |-> role, given |-> NoIds]

(* An answer reaches the orchestrator, or is lost: it repeats its call.    *)
Answer(next, ids) ==
  \/ todo' = next /\ known' = ids /\ UNCHANGED lost
  \/ lost < MaxLost /\ lost' = lost + 1 /\ UNCHANGED <<todo, known>>

-------------------------------------------------------------------------------
(* The orchestrator fills the fields a role requires with what it knows.   *)
Filled(role, ids) ==
  [f \in Fields |-> IF f \in Range(requires_artifacts[role]) THEN ids[f] ELSE None]

(* The report of a completed run is known from artifacts.primary.          *)
Learned(role) ==
  [f \in Fields |-> IF f = output_artifact[role] THEN role ELSE known[f]]

(* The field that role_wait's hint for the next role fills in.             *)
WrongField(role) ==        \* mutant: the hint names another role's field
  IF role = "coder" THEN "reviewer_report" ELSE output_artifact[role]
_ROLE_OUTPUT_HINT_MAP(role) == output_artifact[role]
Hinted(role, next) ==
  [Filled(next, Learned(role)) EXCEPT ![_ROLE_OUTPUT_HINT_MAP(role)] = role]

next_role_map ==
  [scout |-> "architect", architect |-> "coder", coder |-> "reviewer", reviewer |-> "publisher"]

(* role_wait's next_action on a completed run.                             *)
NextAction(role) ==
  IF role \in DOMAIN next_role_map
    THEN Call(next_role_map[role], Hinted(role, next_role_map[role]))
    ELSE Stop(role)

(* The loop of prompts/head_of_it.md: a review that asks for it goes to    *)
(* coder_fix, once, and the fix is reviewed.                               *)
ReviewLoop(role, action) ==
  CASE role = "reviewer" /\ action = "NEEDS_FIX" /\ runs["coder_fix"] = NoRun
         -> Call("coder_fix", Filled("coder_fix", Learned(role)))
    [] role = "reviewer" /\ action # "PASS"
         -> Stop(role)
    [] role = "coder_fix"
         -> Call("reviewer", Filled("reviewer", known))
    [] OTHER
         -> NextAction(role)

(* Its calls give the reviewer the plan alone.                             *)
PlanOnly(call) ==
  IF call.tool = "role_call" /\ call.role = "reviewer"
    THEN [call EXCEPT !.given = [NoIds EXCEPT !["architect_plan"] = call.given["architect_plan"]]]
    ELSE call

Route(role, action) ==
  CASE routing = "next_action" -> NextAction(role)
    [] routing = "loop"        -> ReviewLoop(role, action)
    [] routing = "head_of_it"  -> PlanOnly(ReviewLoop(role, action))

-------------------------------------------------------------------------------
(* role_call, in the order of its checks: the artifacts it requires, their *)
(* ids, an earlier run of the same key, a new run.                         *)
Missing(role, given) ==
  {n \in DOMAIN requires_artifacts[role] : given[requires_artifacts[role][n]] = None}
Readable == {r \in Roles : runs[r].ended /\ runs[r].status # "failed"}
Unreadable(given) == \E f \in Fields : given[f] # None /\ given[f] \notin Readable

_MISSING_ARTIFACT_TO_ROLE ==
  [scout_report |-> "scout", architect_plan |-> "architect", coder_report |-> "coder",
   reviewer_report |-> "reviewer", publisher_instructions |-> "publisher"]
CalledRole(role, given) ==     \* mutant: the advice names the role that was called
  role
ProducerOfMissing(role, given) ==
  LET first == CHOOSE n \in Missing(role, given) : \A m \in Missing(role, given) : n <= m
  IN _MISSING_ARTIFACT_TO_ROLE[requires_artifacts[role][first]]

Asked == todo.tool = "role_call"
Complete == Asked /\ Missing(todo.role, todo.given) = {}
Valid == Complete /\ ~Unreadable(todo.given)

MissingRequiredArtifact ==
  /\ Asked /\ ~Complete
  /\ LET producer == ProducerOfMissing(todo.role, todo.given)
     IN Answer(Call(producer, Filled(producer, known)), known)
  /\ UNCHANGED <<runs, started>>

(* Not retryable.                                                          *)
ArtifactReadError ==
  /\ Complete /\ ~Valid
  /\ Answer(Stop(todo.role), known)
  /\ UNCHANGED <<runs, started>>

(* The artifacts of a completed run come with it; "after role_call returns *)
(* role_run_id, call role_wait with the same role_run_id".                 *)
ExistingRun ==
  /\ Valid /\ runs[todo.role] # NoRun
  /\ Answer(Wait(todo.role),
            IF todo.role \in Status("completed") THEN Learned(todo.role) ELSE known)
  /\ UNCHANGED <<runs, started>>

New == Valid /\ runs[todo.role] = NoRun

StartRun ==
  /\ New
  /\ runs' = [runs EXCEPT ![todo.role] = [NoRun EXCEPT !.status = "running", !.given = todo.given]]
  /\ started' = Append(started, todo.role)
  /\ Answer(Wait(todo.role), known)

(* An error or an answer without an id, or the server dies before the key  *)
(* is saved; the conversation may have begun.  Retryable, as is no answer: *)
(* the call is repeated; but not the want of an id.                        *)
StartFails ==
  /\ New /\ failed < MaxFailed /\ failed' = failed + 1
  /\ \/ strays' = [strays EXCEPT ![todo.role] = @ + 1]
     \/ UNCHANGED strays
  /\ todo' \in {todo, Stop(todo.role)}
  /\ UNCHANGED <<runs, started, known, lost>>

-------------------------------------------------------------------------------
(* role_wait.                                                              *)
StoredAsSeen(role) ==          \* mutant: the job's status is stored as it came
  {[status |-> s, action |-> None] : s \in {"failed", "not_found"}} \cup
  {[status |-> "completed", action |-> a] : a \in IF role = "reviewer" THEN Verdicts ELSE {None}}
Outcomes(role) ==
  {[status |-> "failed", action |-> None]} \cup
  {[status |-> "completed", action |-> a] : a \in IF role = "reviewer" THEN Verdicts ELSE {None}}

Told(role, outcome) ==
  IF outcome.status = "completed" THEN Answer(Route(role, outcome.action), Learned(role))
                                  ELSE Answer(Stop(role), known)

StillRunning ==
  /\ todo.tool = "role_wait" /\ todo.role \in Status("running") /\ ~runs[todo.role].ended
  /\ Answer(Wait(todo.role), known)
  /\ UNCHANGED <<runs, started>>

RecordUntouched ==             \* mutant: the answer is given, the record stays "running"
  /\ todo.tool = "role_wait" /\ todo.role \in Status("running") /\ runs[todo.role].ended
  /\ \E o \in Outcomes(todo.role) : Told(todo.role, o)
  /\ UNCHANGED <<runs, started>>
Decide ==
  /\ todo.tool = "role_wait" /\ todo.role \in Status("running") /\ runs[todo.role].ended
  /\ \E o \in Outcomes(todo.role) :
       /\ runs' = [runs EXCEPT ![todo.role] = [@ EXCEPT !.status = o.status, !.action = o.action]]
       /\ Told(todo.role, o)
  /\ UNCHANGED started

Decided ==
  /\ todo.tool = "role_wait" /\ todo.role \notin Status("running")
  /\ Told(todo.role, runs[todo.role])
  /\ UNCHANGED <<runs, started>>

-------------------------------------------------------------------------------
(* The report that role_wait then saves is taken to be there at once.      *)
AgentEnds(role) ==
  /\ role \in Status("running") /\ ~runs[role].ended
  /\ runs' = [runs EXCEPT ![role].ended = TRUE]
  /\ UNCHANGED <<strays, started, routing, known, todo, slips, lost, failed>>

StrayEnds(role) ==
  /\ strays[role] > 0
  /\ strays' = [strays EXCEPT ![role] = @ - 1]
  /\ UNCHANGED <<runs, started, routing, known, todo, slips, lost, failed>>

(* The orchestrator is a language model: it forgets or garbles an id.      *)
Slip ==
  /\ slips < MaxSlips /\ slips' = slips + 1
  /\ \E f \in Fields, id \in {None, Invented} :
       known[f] \in Roles /\ known' = [known EXCEPT ![f] = id]
  /\ UNCHANGED <<runs, strays, started, routing, todo, lost, failed>>

Init ==
  /\ runs = [r \in Roles |-> NoRun] /\ started = <<>>
  /\ strays = [r \in Roles |-> 0]
  /\ routing \in Routings
  /\ known = NoIds
  /\ todo \in {Call(r, NoIds) : r \in Starts}
  /\ slips = 0 /\ lost = 0 /\ failed = 0

Tool ==
  /\ \/ /\ \/ MissingRequiredArtifact \/ ArtifactReadError \/ ExistingRun \/ StartRun
           \/ StillRunning \/ Decide \/ Decided
        /\ UNCHANGED <<strays, failed>>
     \/ StartFails
  /\ UNCHANGED <<routing, slips>>

Next == Tool \/ Slip \/ \E r \in Roles : AgentEnds(r) \/ StrayEnds(r)

Spec == Init /\ [][Next]_vars

(* The orchestrator makes the call it was told to make, and agents end.    *)
FairSpec == Spec /\ WF_vars(Tool) /\ \A r \in Roles : WF_vars(AgentEnds(r))

-------------------------------------------------------------------------------
(* Properties.                                                             *)

TypeOK ==
  /\ runs \in [Roles -> [status : {"none", "running", "completed", "failed"}, ended : BOOLEAN,
                         action : Verdicts \cup {None}, given : Givens]]
  /\ strays \in [Roles -> 0..MaxFailed]
  /\ started \in Seq(Roles)
  /\ routing \in Routings
  /\ known \in Givens
  /\ todo \in [tool : {"role_call", "role_wait", "none"}, role : Roles, given : Givens]
  /\ slips \in 0..MaxSlips /\ lost \in 0..MaxLost /\ failed \in 0..MaxFailed

AtWork == {r \in Roles : strays[r] > 0 \/ (r \in Status("running") /\ ~runs[r].ended)}

(* "Only one role may run at a time": role_call has no guard for it, but   *)
(* of the runs that keys lead to, the advice never lets two be undecided,  *)
(* whatever is forgotten, lost or fails; and until a start fails, no other *)
(* agents are at work either.                                              *)
OneRoleAtATime ==
  /\ \A r, s \in Status("running") : r = s
  /\ failed = 0 => \A r, s \in AtWork : r = s

(* Every field a role was started with holds the completed report it is    *)
(* named for, and no report it requires is missing: ids learned from       *)
(* answers, hints and repeated calls are never mixed up.                   *)
OwnReports ==
  \A r \in Roles : runs[r] # NoRun =>
    /\ Missing(r, runs[r].given) = {}
    /\ \A f \in Fields : LET id == runs[r].given[f] IN
         id # None => id \in Status("completed") /\ output_artifact[id] = f

(* Wherever it begins, whatever it forgets and whichever starts fail, an   *)
(* orchestrator that only follows next_action gets the publisher's         *)
(* instructions if the review passes: unless a run fails, an id is garbled *)
(* or a start is refused as not retryable.                                 *)
Published ==
  routing = "next_action" =>
    <>(\/ "publisher" \in Status("completed")
       \/ runs["reviewer"].action \in Verdicts \ {"PASS"}
       \/ /\ todo.tool = "none"
          /\ Status("failed") # {} \/ Unreadable(known) \/ (failed > 0 /\ runs[todo.role] = NoRun))

(* README.md: "The server prevents parallel role execution".               *)
NoParallelRoles == \A r, s \in AtWork : r = s

(* README.md: the publisher is called if the review's action is PASS.      *)
PublisherAfterPass == runs["publisher"] # NoRun => runs["reviewer"].action = "PASS"

(* prompts/head_of_it.md: Reviewer ACTION: NEEDS_FIX -> coder_fix ->       *)
(* reviewer.  The fix is reviewed before the loop is given up.             *)
FixReviewed ==
  todo.tool = "none" /\ "coder_fix" \in Status("completed") /\ Status("failed") = {} =>
    \E m, n \in DOMAIN started : m < n /\ started[m] = "coder_fix" /\ started[n] = "reviewer"

(* An orchestrator that follows prompts/head_of_it.md gets a review.       *)
Reviewed == <>(runs["reviewer"] # NoRun \/ todo.tool = "none")
===============================================================================
