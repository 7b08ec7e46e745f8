------------------------------ MODULE JobStatus ------------------------------
(***************************************************************************)
(* How the two servers turn the state of an OpenHands conversation into    *)
(* the one word on which role_wait acts:                                   *)
(*   _get_job_status       openhands_llm/server.py  (GET /v1/jobs/{uid})   *)
(*   conversation_is_done  openhands_llm/openhands_llm_call.py             *)
(*   _get_task_status_once mcp_agent/role_lifecycle.py                     *)
(* Pure operators: a conversation is what the OpenHands API reports of it. *)
(***************************************************************************)

(* The text whose strip() is empty; every other answer is another value.   *)
CONSTANT NoText

(* execution_status values that end a conversation's turn.                 *)
TerminalWithoutStuck ==   \* mutant: a stuck turn is not over
  {"finished", "completed", "success", "failed", "error", "waiting_for_confirmation"}
TERMINAL_EXECUTION_STATES ==
  {"finished", "completed", "success", "failed", "error",
   "stuck", "waiting_for_confirmation"}

(* The values of `status' that _get_task_status_once returns as they are.  *)
TerminalJobStates ==
  {"completed", "failed", "cancelled", "timeout", "canceled", "timed_out",
   "error", "completed_empty_result"}

(* Any of three fields may say that the conversation is over.  "none"      *)
(* stands for a field that is absent (None).                               *)
conversation_is_done(c) ==
  \/ c.execution_status \in TERMINAL_EXECUTION_STATES
  \/ c.status \in {"finished", "completed", "stopped", "failed", "error"}
  \/ c.runtime_status \in {"stopped", "finished", "completed", "failed", "error"}

(* GET /v1/jobs/{uid}.  A conversation the API does not return is          *)
(* "not_found": get_v1_conversation answers {} for an unknown id and for   *)
(* every HTTP error alike.                                                 *)
JobReport(c, answer) ==
  CASE ~c.found ->
         [status |-> "not_found", execution_status |-> "none", answer |-> NoText]
    [] c.found /\ ~conversation_is_done(c) ->
         [status |-> "running", execution_status |-> c.execution_status,
          answer |-> NoText]
    [] c.found /\ conversation_is_done(c) ->
         [status |-> IF c.execution_status \in {"failed", "error"} THEN "failed"
                     ELSE IF answer = NoText THEN "completed_empty_result"
                     ELSE "completed",
          execution_status |-> c.execution_status, answer |-> answer]

(* The private _normalized_status that role_wait's loops look at.          *)
Normalized(report) ==
  LET exec == report.execution_status IN
  CASE report.status \in TerminalJobStates -> report.status
    [] report.status \notin TerminalJobStates ->
         CASE exec \in {"finished", "success"}     -> "completed"
           [] exec \in {"failed", "error"}         -> "failed"
           [] exec \in {"cancelled", "canceled"}   -> "cancelled"
           [] exec \in {"timeout", "timed_out"}    -> "timeout"
           [] OTHER                                -> "running"
==============================================================================
