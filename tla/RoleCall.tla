------------------------------- MODULE RoleCall -------------------------------
(***************************************************************************)
(* role_call: role_call_start_impl of mcp_agent/role_lifecycle.py with the *)
(* run records and the idempotency index of mcp_agent/role_store.py and    *)
(* the conversations it starts through POST /v1/call_lm.                   *)
(*                                                                         *)
(* A tool call is an element of Callers.  One MCP server executes one call *)
(* at a time (Callers with one element); more elements are more servers on *)
(* the same OPENHANDS_ROLE_STATE_DIR.  What role_wait does to a started    *)
(* run (module RoleWait) is reduced to the actions SaveArtifact and Decide.  *)
(***************************************************************************)
EXTENDS Naturals

CONSTANTS
  Callers,    \* role_call calls that may be in progress at the same time
  RunIds,     \* role run ids; a new one is drawn for every run
  Roles,      \* the roles of config/roles.yaml
  Requires,   \* the artifacts each role needs
  Output,     \* the artifact each role produces, and that of its summary
  Summary,
  Requests,   \* the calls that may be made: [role, key, task, given]
  NoKey,      \* the key of a call without idempotency_key
  None,       \* no run, no request
  MaxCalls,   \* bound on the number of calls
  Faults,     \* which of "crash" and "http" happen
  MaxFaults   \* bound on their number

(* The name under which a call is found again: the caller's key, or one    *)
(* made from role, task, repository and feature (the last three in `task').*)
KeyAlone(q) ==         \* mutant: the key without the role
  IF q.key = NoKey THEN <<"fallback", q.role, q.task>> ELSE <<q.key>>
idempotency_scope(q) ==
  IF q.key = NoKey THEN <<"fallback", q.role, q.task>> ELSE <<q.role, q.key>>

Scopes == {idempotency_scope(q) : q \in Requests}

(* An artifact id is told apart by what it is an id of: the report or the  *)
(* summary of a role.  A request gives ids for slots; a slot is named like *)
(* the report it is meant for, and the id in it may be of anything.        *)
Products(role) == {Output[role], Summary[role]}
Artifacts == UNION {Products(r) : r \in Roles}
Givens == {q.given : q \in Requests}
Ids(given) == {given[s] : s \in DOMAIN given}

ASSUME RoleCallAssumption ==
  /\ MaxCalls \in Nat /\ MaxFaults \in Nat
  /\ Faults \subseteq {"crash", "http"}
  /\ None \notin RunIds /\ None \notin Requests
  /\ Requires \in [Roles -> SUBSET {Output[r] : r \in Roles}]

VARIABLES
  records,    \* role run records by id, as far as role_call reads them
  index,      \* idempotency_index.json
  convs,      \* conversations the backend has begun: the run, its scope and
              \* the artifacts whose content is in its prompt
  artifacts,  \* artifacts that resolve to non-empty content
  c,          \* the local variables of each call
  resp,       \* the last response each caller got
  calls,      \* calls made so far
  faults      \* crashes and HTTP errors so far

vars == <<records, index, convs, artifacts, c, resp, calls, faults>>

-------------------------------------------------------------------------------
Statuses == {"starting", "running", "completed", "failed", "cancelled", "timeout"}
Records == [status : Statuses, role : Roles, job : BOOLEAN]
NoRecord == [status |-> "none", role |-> "none", job |-> FALSE]

Indices == [Scopes -> RunIds \cup {None}]
EmptyIndex == [s \in Scopes |-> None]

Points == {"idle", "lookup", "reuse", "create", "mark_starting", "post", "mark_failed",
           "mark_running", "load_index", "save_index"}
Locals == [pc : Points, req : Requests \cup {None}, run : RunIds \cup {None}, copy : Indices]
Idle == [pc |-> "idle", req |-> None, run |-> None, copy |-> EmptyIndex]

Replies == [status : Statuses \cup {"none", "error"}, run : RunIds \cup {None},
            req : Requests \cup {None}, reused : BOOLEAN]
NoReply == [status |-> "none", run |-> None, req |-> None, reused |-> FALSE]

At(p, point) == c[p].pc = point
Goto(p, point) == c' = [c EXCEPT ![p].pc = point]
Return(p, status, run, reused) ==
  /\ c' = [c EXCEPT ![p] = Idle]
  /\ resp' = [resp EXCEPT ![p] = [status |-> status, run |-> run, req |-> c[p].req,
                                  reused |-> reused]]

(* Steps 1 to 5: the role exists, its artifacts are given, and what is     *)
(* given resolves to content; nothing is written before that is certain.   *)
AnyArtifactId(q) ==    \* mutant: ids are not resolved
  q.role \in Roles /\ Requires[q.role] \subseteq DOMAIN q.given
Valid(q) ==
  /\ q.role \in Roles
  /\ Requires[q.role] \subseteq DOMAIN q.given
  /\ Ids(q.given) \subseteq artifacts

-------------------------------------------------------------------------------
Call(p) ==
  /\ At(p, "idle") /\ calls < MaxCalls
  /\ calls' = calls + 1
  /\ \E q \in Requests :
       \/ /\ Valid(q)
          /\ c' = [c EXCEPT ![p] = [@ EXCEPT !.pc = "lookup", !.req = q]]
          /\ UNCHANGED resp
       \/ /\ ~Valid(q)
          /\ Return(p, "failed", None, FALSE)
  /\ UNCHANGED <<records, index, convs, artifacts, faults>>

(* Step 6: a run saved under the same scope is returned as it is.          *)
FindRun(p) ==
  /\ At(p, "lookup")
  /\ LET run == index[idempotency_scope(c[p].req)] IN
     c' = [c EXCEPT ![p] =
          [@ EXCEPT !.run = run, !.pc = IF run = None THEN "create" ELSE "reuse"]]
  /\ UNCHANGED <<records, index, convs, artifacts, resp, calls, faults>>

Reuse(p) ==
  /\ At(p, "reuse")
  /\ Return(p, records[c[p].run].status, c[p].run, TRUE)
  /\ UNCHANGED <<records, index, convs, artifacts, calls, faults>>

(* Step 7: create_role_run writes "running", an update makes it "starting".*)
Create(p) ==
  /\ At(p, "create")
  /\ \E r \in RunIds :
       /\ records[r] = NoRecord
       /\ records' = [records EXCEPT ![r] = [status |-> "running", role |-> c[p].req.role,
                                             job |-> FALSE]]
       /\ c' = [c EXCEPT ![p] = [@ EXCEPT !.run = r, !.pc = "mark_starting"]]
  /\ UNCHANGED <<index, convs, artifacts, resp, calls, faults>>

CreatedAsStatus(p) ==  \* mutant: the lifecycle's word written as the status
  /\ At(p, "mark_starting")
  /\ records' = [records EXCEPT ![c[p].run].status = "created"]
  /\ Goto(p, "post")
  /\ UNCHANGED <<index, convs, artifacts, resp, calls, faults>>
MarkStarting(p) ==
  /\ At(p, "mark_starting")
  /\ records' = [records EXCEPT ![c[p].run].status = "starting"]
  /\ Goto(p, "post")
  /\ UNCHANGED <<index, convs, artifacts, resp, calls, faults>>

(* Step 8: POST /v1/call_lm.                                               *)
Begun(p) ==
  convs \cup {[run |-> c[p].run, scope |-> idempotency_scope(c[p].req), given |-> c[p].req.given]}

StartConversation(p) ==
  /\ At(p, "post")
  /\ convs' = Begun(p)
  /\ Goto(p, "mark_running")
  /\ UNCHANGED <<records, index, artifacts, resp, calls, faults>>

(* An exception, or an answer without an id: the conversation may have     *)
(* begun all the same.                                                     *)
FailureIgnored(p) ==   \* mutant: the run goes on as if it had been started
  /\ At(p, "post") /\ "http" \in Faults /\ faults < MaxFaults
  /\ faults' = faults + 1
  /\ convs' \in {convs, Begun(p)}
  /\ Goto(p, "mark_running")
  /\ UNCHANGED <<records, index, artifacts, resp, calls>>
StartFails(p) ==
  /\ At(p, "post") /\ "http" \in Faults /\ faults < MaxFaults
  /\ faults' = faults + 1
  /\ convs' \in {convs, Begun(p)}
  /\ Goto(p, "mark_failed")
  /\ UNCHANGED <<records, index, artifacts, resp, calls>>

MarkFailed(p) ==
  /\ At(p, "mark_failed")
  /\ records' = [records EXCEPT ![c[p].run].status = "failed"]
  /\ Return(p, "failed", None, FALSE)
  /\ UNCHANGED <<index, convs, artifacts, calls, faults>>

MarkRunning(p) ==
  /\ At(p, "mark_running")
  /\ records' = [records EXCEPT ![c[p].run] = [@ EXCEPT !.status = "running", !.job = TRUE]]
  /\ Goto(p, "load_index")
  /\ UNCHANGED <<index, convs, artifacts, resp, calls, faults>>

(* save_idempotency_record reads the whole index and renames a new one in  *)
(* its place, under no lock.                                               *)
LoadIndex(p) ==
  /\ At(p, "load_index")
  /\ c' = [c EXCEPT ![p] = [@ EXCEPT !.copy = index, !.pc = "save_index"]]
  /\ UNCHANGED <<records, index, convs, artifacts, resp, calls, faults>>

FreshIndex(p) ==       \* mutant: the index starts anew with every save
  /\ At(p, "save_index")
  /\ index' = [EmptyIndex EXCEPT ![idempotency_scope(c[p].req)] = c[p].run]
  /\ Return(p, "running", c[p].run, FALSE)
  /\ UNCHANGED <<records, convs, artifacts, calls, faults>>
SaveIndex(p) ==
  /\ At(p, "save_index")
  /\ index' = [c[p].copy EXCEPT ![idempotency_scope(c[p].req)] = c[p].run]
  /\ Return(p, "running", c[p].run, FALSE)
  /\ UNCHANGED <<records, convs, artifacts, calls, faults>>

Crash(p) ==
  /\ "crash" \in Faults /\ ~At(p, "idle") /\ faults < MaxFaults
  /\ faults' = faults + 1
  /\ Return(p, "error", None, FALSE)
  /\ UNCHANGED <<records, index, convs, artifacts, calls>>

-------------------------------------------------------------------------------
(* role_wait on a started run that is not decided: it saves the report     *)
(* before the summary and before it completes the run, and a run recorded  *)
(* as cancelled or timed out is polled again by the next role_wait.        *)
Undecided(r) == records[r].job /\ records[r].status \in {"running", "cancelled", "timeout"}

SaveArtifact(r) ==
  /\ Undecided(r)
  /\ \E a \in Products(records[r].role) :
       /\ a # Output[records[r].role] => Output[records[r].role] \in artifacts
       /\ artifacts' = artifacts \cup {a}
  /\ UNCHANGED <<records, index, convs, c, resp, calls, faults>>

Decide(r) ==
  /\ Undecided(r)
  /\ \E s \in {"completed", "failed", "cancelled", "timeout"} :
       /\ s = "completed" => Output[records[r].role] \in artifacts
       /\ records' = [records EXCEPT ![r].status = s]
  /\ UNCHANGED <<index, convs, artifacts, c, resp, calls, faults>>

-------------------------------------------------------------------------------
Init ==
  /\ records = [r \in RunIds |-> NoRecord]
  /\ index = EmptyIndex
  /\ convs = {} /\ artifacts = {}
  /\ c = [p \in Callers |-> Idle]
  /\ resp = [p \in Callers |-> NoReply]
  /\ calls = 0 /\ faults = 0

Step(p) ==
  \/ Call(p) \/ FindRun(p) \/ Reuse(p) \/ Create(p) \/ MarkStarting(p)
  \/ StartConversation(p) \/ StartFails(p) \/ MarkFailed(p) \/ MarkRunning(p)
  \/ LoadIndex(p) \/ SaveIndex(p) \/ Crash(p)

Next ==
  \/ \E p \in Callers : Step(p)
  \/ \E r \in RunIds : SaveArtifact(r) \/ Decide(r)

Spec == Init /\ [][Next]_vars

-------------------------------------------------------------------------------
(* Properties.  "One call at a time" below is Callers with one element.    *)

TypeOK ==
  /\ records \in [RunIds -> Records \cup {NoRecord}]
  /\ index \in Indices
  /\ convs \subseteq [run : RunIds, scope : Scopes, given : Givens]
  /\ artifacts \subseteq Artifacts
  /\ c \in [Callers -> Locals]
  /\ resp \in [Callers -> Replies]
  /\ calls \in 0..MaxCalls /\ faults \in 0..MaxFaults

BegunFor(run, scope) == \E v \in convs : v.run = run /\ v.scope = scope

(* What the index holds under a scope is a run whose conversation was      *)
(* begun for that very scope and whose id is in the record, so that a      *)
(* deduplicated call always names a run role_wait can poll.  For every     *)
(* interleaving, crash and HTTP error.                                     *)
IndexedRunStarted ==
  \A s \in Scopes : index[s] # None => BegunFor(index[s], s) /\ records[index[s]].job

(* A call that is answered with a run, new or found again, can wait for it *)
(* and gets what it asked for: the run is of the caller's role and was     *)
(* started under its scope.  For every interleaving, crash and HTTP error. *)
AnsweredRunStarted ==
  \A p \in Callers : LET a == resp[p] IN a.run # None =>
    /\ records[a.run].role = a.req.role /\ records[a.run].job
    /\ BegunFor(a.run, idempotency_scope(a.req))

(* A role is never started with a slot it needs left empty, nor with the   *)
(* content of an artifact that no role was started for: an invented id     *)
(* does not pass.                                                          *)
PrerequisiteStarted ==
  \A v \in convs :
    /\ Requires[records[v.run].role] \subseteq DOMAIN v.given
    /\ \A a \in Ids(v.given) : \E u \in convs : a \in Products(records[u.run].role)

(* Each slot holds the artifact it is named for, as the check behind       *)
(* ArtifactNameMismatch demands of an artifact that is given by its path.  *)
SlotHoldsItsArtifact == \A v \in convs : \A s \in DOMAIN v.given : v.given[s] = s

(* Once a call has been answered with a run, every later call with the     *)
(* same scope is: no later save, of this scope or another, loses or        *)
(* redirects its entry.  One call at a time, whatever fails.               *)
ScopeKeepsItsRun ==
  [][\A s \in Scopes : index[s] # None => index'[s] = index[s]]_vars

(* No scope has two conversations: a retried call is deduplicated and      *)
(* starts nothing.                                                         *)
RetriesDeduplicated ==
  \A u \in convs, v \in convs : u.scope = v.scope => u.run = v.run

(* One call at a time and without faults; after an error that arrives when *)
(* the conversation has begun, the retry does begin a second one.          *)
OneConversationWithoutFaults == faults = 0 => RetriesDeduplicated
===============================================================================
