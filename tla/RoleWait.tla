------------------------------- MODULE RoleWait -------------------------------
(***************************************************************************)
(* role_wait on one role run: role_lifecycle_wait_impl of                  *)
(* mcp_agent/role_lifecycle.py, with the run's record (role_store.py), its *)
(* primary artifact (artifact_store.py) and the OpenHands conversation it  *)
(* polls.  Runs share no state with one another, so one run is modelled.   *)
(*                                                                         *)
(* One tool call is a waiter.  The MCP server executes one call at a time, *)
(* which is Waiters with one element; several elements are several server  *)
(* processes (or threads) on the same OPENHANDS_ROLE_STATE_DIR.            *)
(***************************************************************************)
EXTENDS JobStatus, Naturals

CONSTANTS
  Waiters,         \* role_wait calls that may be in progress at the same time
  IsReviewer,      \* is the run's role the reviewer, whose action routes the pipeline
  MainTexts,       \* non-empty answers the agent may give to the role's prompt
  SummaryTexts,    \* non-empty answers it may give to the summary prompt
  FallbackText,    \* the JSON text of a fallback summary
  Parsed,          \* what validate_summary makes of a text: an action or "invalid"
  Derived,         \* what derive_reviewer_action_from_main_artifact finds in a text
  PromptRestarts,  \* does a new prompt set the conversation running before it returns
  Faults,          \* which of "crash" and "http" happen
  MaxFaults        \* bound on their number

Texts   == MainTexts \cup SummaryTexts
Answers == Texts \cup {NoText}
Actions == {"PASS", "BLOCKER", "none"}

ASSUME RoleWaitAssumption ==
  /\ NoText \notin Texts
  /\ FallbackText \notin Answers
  /\ IsReviewer \in BOOLEAN
  /\ PromptRestarts \in BOOLEAN
  /\ Faults \subseteq {"crash", "http"}
  /\ MaxFaults \in Nat
  /\ Parsed \in [Answers -> Actions \cup {"invalid"}]
  /\ Derived \in [Answers -> Actions]
  /\ Parsed[NoText] = "invalid" /\ Derived[NoText] = "none"
  /\ \A t \in Texts : Parsed[t] \in IF IsReviewer THEN {"PASS", "BLOCKER", "invalid"}
                                                  ELSE {"none", "invalid"}

VARIABLES
  rec,      \* the role run's JSON record
  primary,  \* its primary artifact on disk
  summary,  \* the content of its summary artifact
  conv,     \* the OpenHands conversation
  w,        \* the local variables of each role_wait call
  resp,     \* the last response each caller got
  faults    \* crashes and HTTP errors so far

vars == <<rec, primary, summary, conv, w, resp, faults>>

-------------------------------------------------------------------------------
(* The record.  Its `artifacts' field is written by the same updates as    *)
(* result_summary and stands or falls with it.                             *)
Statuses == {"starting", "running", "completed", "failed", "cancelled", "timeout"}
Lifecycles ==
  {"created", "main_prompt_sent", "main_response_received", "empty_main_response",
   "empty_primary_artifact", "error", "summary_prompt_sent",
   "summary_response_received", "summary_parse_failed", "summary_artifact_saved",
   "completed"}
Results == Actions \cup {"absent"}

Records == [status : Statuses, lifecycle : Lifecycles, result : Results, job : BOOLEAN]
NoRecord == [status |-> "none", lifecycle |-> "none", result |-> "absent", job |-> FALSE]

(* What role_call leaves behind: a started run, or one whose role_call     *)
(* ended before the conversation's id was stored.                          *)
StartedRun   == [status |-> "running", lifecycle |-> "main_prompt_sent",
                 result |-> "absent", job |-> TRUE]
UnstartedRuns == {[status |-> s, lifecycle |-> "created", result |-> "absent",
                   job |-> FALSE] : s \in {"running", "starting"}}

(* get_content_by_id finds the artifact through its metadata file, and     *)
(* _validate_primary_artifact_nonempty wants its content non-empty.        *)
Readable == primary.meta /\ primary.content # NoText

(* safe_fallback_summary: a reviewer without a verdict blocks.             *)
FallbackPasses(main) ==     \* mutant: no verdict counts as consent
  IF ~IsReviewer THEN "none"
  ELSE IF Derived[main] = "none" THEN "PASS" ELSE Derived[main]
FallbackNeedsFix(main) ==   \* mutant: a verdict of the prompt, not of the schema
  IF ~IsReviewer THEN "none"
  ELSE IF Derived[main] = "none" THEN "NEEDS_FIX" ELSE Derived[main]
Fallback(main) ==
  IF ~IsReviewer THEN "none"
  ELSE IF Derived[main] = "none" THEN "BLOCKER" ELSE Derived[main]

-------------------------------------------------------------------------------
(* The conversation, external: what the code relies on.                    *)
ExecutionStatuses == {"running", "finished", "stuck", "failed", "cancelled", "timeout"}

Conversations == [exec : ExecutionStatuses, turn : {"main", "summary"},
                  answer : Answers, pending : BOOLEAN, said : SUBSET Texts]
NewConversation == [exec |-> "running", turn |-> "main", answer |-> NoText,
                    pending |-> FALSE, said |-> {}]

Seen == [found |-> TRUE, execution_status |-> conv.exec,
         status |-> "none", runtime_status |-> "none"]
Report == JobReport(Seen, conv.answer)

Deliver(c) ==
  IF PromptRestarts THEN [c EXCEPT !.exec = "running", !.turn = "summary"]
                    ELSE [c EXCEPT !.pending = TRUE]

(* A turn ends, with a new answer or without one; the events of earlier    *)
(* turns stay, so the newest answer is then an old one.                    *)
AgentEndsTurn ==
  /\ conv.exec = "running"
  /\ \E e \in {"finished", "stuck"},
        t \in (IF conv.turn = "main" THEN MainTexts ELSE SummaryTexts) \cup {conv.answer} :
       conv' = [conv EXCEPT !.exec = e, !.answer = t,
                            !.said = @ \cup ({t} \ {NoText})]
  /\ UNCHANGED <<rec, primary, summary, w, resp, faults>>

AgentStops ==
  /\ conv.exec = "running"
  /\ \E e \in {"failed", "cancelled", "timeout"} : conv' = [conv EXCEPT !.exec = e]
  /\ UNCHANGED <<rec, primary, summary, w, resp, faults>>

(* A queued prompt is taken up some time after send-message returned.      *)
AgentTakesPrompt ==
  /\ conv.pending /\ conv.exec # "running"
  /\ conv' = [conv EXCEPT !.exec = "running", !.turn = "summary", !.pending = FALSE]
  /\ UNCHANGED <<rec, primary, summary, w, resp, faults>>

-------------------------------------------------------------------------------
(* The local state of a call and the helpers of its steps.  A variable the *)
(* rest of the call does not read is set back to its initial value.        *)
UpdatePoints == {"stale", "emptied", "ended", "received", "prompting", "answered",
                 "unparsed", "stored", "finishing"}
PCs == {"idle", "revalidate", "poll", "open", "write", "open_meta", "write_meta",
        "check", "send", "fallback", "summary_poll", "save_summary", "reply"}
       \cup UpdatePoints

NoReply == [status |-> "none", result |-> "absent"]
Replies == [status : {"none", "completed", "failed", "running", "error"}, result : Results]

Calls == [pc : PCs, snap : Records \cup {NoRecord}, tmp : Records \cup {NoRecord},
          main : Answers, status : {"none", "failed", "cancelled", "timeout"},
          text : Answers, ctl : Results, polled : BOOLEAN, reply : Replies]
Idle == [pc |-> "idle", snap |-> NoRecord, tmp |-> NoRecord, main |-> NoText,
         status |-> "none", text |-> NoText, ctl |-> "absent", polled |-> FALSE,
         reply |-> NoReply]

At(p, point) == w[p].pc = point
Goto(p, point) == w' = [w EXCEPT ![p].pc = point]
Returning(status, result) ==
  [Idle EXCEPT !.pc = "reply", !.reply = [status |-> status, result |-> result]]
Return(p, status, result) == w' = [w EXCEPT ![p] = Returning(status, result)]

(* update_role_run loads the record, changes the given fields and saves    *)
(* the whole of it: two steps, and the lock between them is the store      *)
(* object's own, which no other call shares.                               *)
LoadRecord(p) ==
  /\ w[p].pc \in UpdatePoints
  /\ w[p].tmp = NoRecord
  /\ w' = [w EXCEPT ![p].tmp = rec]
  /\ UNCHANGED <<rec, primary, summary, conv, resp, faults>>

Loaded(p, point) == At(p, point) /\ w[p].tmp # NoRecord
update_role_run(new) ==
  /\ rec' = new
  /\ UNCHANGED <<primary, summary, conv, resp, faults>>

(* The update at a point that ends the call with "failed".                 *)
FailWith(p, point, status, lifecycle) ==
  /\ Loaded(p, point)
  /\ update_role_run([w[p].tmp EXCEPT !.status = status, !.lifecycle = lifecycle])
  /\ Return(p, "failed", "absent")

(* The update at a point that only moves lifecycle_state on.               *)
Advance(p, point, lifecycle, next) ==
  /\ Loaded(p, point)
  /\ update_role_run([w[p].tmp EXCEPT !.lifecycle = lifecycle])
  /\ w' = [w EXCEPT ![p] = [@ EXCEPT !.tmp = NoRecord, !.pc = next]]

-------------------------------------------------------------------------------
(* Entry: the record is read once; its copy decides and is used later.     *)
NeverCompleted(r) == FALSE                  \* mutant: completed runs are run again
AlreadyCompleted(r) == r.status = "completed" /\ r.result # "absent"
OnlyWithoutJob(r) == ~r.job                 \* mutant: failed runs are polled again
NotRunnable(r) == r.status = "failed" \/ ~r.job

Enter(p) ==
  /\ At(p, "idle")
  /\ LET call == [Idle EXCEPT !.snap = rec]
         done == AlreadyCompleted(rec) IN
     \/ /\ done
        /\ w' = [w EXCEPT ![p] = [call EXCEPT !.pc = "revalidate"]]
     \/ /\ ~done /\ NotRunnable(rec)
        /\ Return(p, "failed", "absent")
     \/ /\ ~done /\ ~NotRunnable(rec)
        /\ w' = [w EXCEPT ![p] = [call EXCEPT !.pc = "poll"]]
  /\ UNCHANGED <<rec, primary, summary, conv, resp, faults>>

(* A completed run is returned as stored if its artifact still reads.      *)
Revalidate(p) ==
  /\ At(p, "revalidate")
  /\ IF Readable THEN Return(p, "completed", w[p].snap.result) ELSE Goto(p, "stale")
  /\ UNCHANGED <<rec, primary, summary, conv, resp, faults>>

MarkStale(p) == FailWith(p, "stale", "failed", "empty_primary_artifact")

(* One poll of the main job.  The loop polls at least once: the deadline   *)
(* is at least a second away when it starts.                               *)
Poll(p) ==
  /\ At(p, "poll")
  /\ LET status == Normalized(Report) IN
     \/ /\ status = "completed"
        /\ w' = [w EXCEPT ![p] = [@ EXCEPT !.pc = "received", !.main = Report.answer,
                                          !.polled = FALSE]]
     \/ /\ status = "completed_empty_result"
        /\ w' = [w EXCEPT ![p] = [@ EXCEPT !.pc = "emptied", !.polled = FALSE]]
     \/ /\ status \notin {"completed", "completed_empty_result", "running"}
        /\ w' = [w EXCEPT ![p] = [@ EXCEPT !.pc = "ended", !.status = status,
                                          !.polled = FALSE]]
     \/ /\ status = "running"
        /\ w' = [w EXCEPT ![p].polled = TRUE]
  /\ UNCHANGED <<rec, primary, summary, conv, resp, faults>>

Deadline(p) ==
  /\ At(p, "poll") /\ w[p].polled
  /\ Return(p, "running", "absent")
  /\ UNCHANGED <<rec, primary, summary, conv, resp, faults>>

MarkEmptied(p) == FailWith(p, "emptied", "failed", "empty_main_response")
MarkEnded(p)   == FailWith(p, "ended", w[p].status, "error")

MarkReceivedPromptFirst(p) ==   \* mutant: summary asked for before the report is saved
  Advance(p, "received", "main_response_received",
          IF w[p].main = NoText THEN "emptied" ELSE "prompting")
MarkReceived(p) ==
  Advance(p, "received", "main_response_received",
          IF w[p].main = NoText THEN "emptied" ELSE "open")

(* ArtifactStore.save: write_text truncates, then writes; content first,   *)
(* metadata second.                                                        *)
OpenArtifact(p) ==
  /\ At(p, "open")
  /\ primary' = [primary EXCEPT !.content = NoText]
  /\ Goto(p, "write")
  /\ UNCHANGED <<rec, summary, conv, resp, faults>>

WriteArtifact(p) ==
  /\ At(p, "write")
  /\ primary' = [primary EXCEPT !.content = w[p].main]
  /\ Goto(p, "open_meta")
  /\ UNCHANGED <<rec, summary, conv, resp, faults>>

OpenMeta(p) ==
  /\ At(p, "open_meta")
  /\ primary' = [primary EXCEPT !.meta = FALSE]
  /\ Goto(p, "write_meta")
  /\ UNCHANGED <<rec, summary, conv, resp, faults>>

WriteMeta(p) ==
  /\ At(p, "write_meta")
  /\ primary' = [primary EXCEPT !.meta = TRUE]
  /\ Goto(p, "check")
  /\ UNCHANGED <<rec, summary, conv, resp, faults>>

AlreadyAsked(lifecycle) ==      \* mutant: a prompt sent counts as a summary saved
  lifecycle \in {"completed", "summary_artifact_saved", "summary_prompt_sent"}
AlreadySummarised(lifecycle) == lifecycle \in {"completed", "summary_artifact_saved"}

(* The artifact is read back; then the copy of the record taken at entry   *)
(* says whether an earlier call had already saved a summary.               *)
CheckPrimary(p) ==
  /\ At(p, "check")
  /\ \/ /\ ~Readable
        /\ Goto(p, "stale")
     \/ /\ Readable
        /\ AlreadySummarised(w[p].snap.lifecycle)
        /\ Return(p, "completed", w[p].snap.result)
     \/ /\ Readable
        /\ ~AlreadySummarised(w[p].snap.lifecycle)
        /\ w' = [w EXCEPT ![p] = [@ EXCEPT !.pc = "prompting", !.snap = NoRecord]]
  /\ UNCHANGED <<rec, primary, summary, conv, resp, faults>>

MarkPrompting(p) == Advance(p, "prompting", "summary_prompt_sent", "send")

-------------------------------------------------------------------------------
(* The summary turn in the same conversation.                              *)
SendSummaryPrompt(p) ==
  /\ At(p, "send")
  /\ conv' = Deliver(conv)
  /\ Goto(p, "summary_poll")
  /\ UNCHANGED <<rec, primary, summary, resp, faults>>

(* Any exception of the POST: the prompt may have been delivered.          *)
SendFails(p) ==
  /\ At(p, "send") /\ "http" \in Faults /\ faults < MaxFaults
  /\ conv' \in {conv, Deliver(conv)}
  /\ Goto(p, "fallback")
  /\ faults' = faults + 1
  /\ UNCHANGED <<rec, primary, summary, resp>>

SaveFallback(p) ==
  /\ At(p, "fallback")
  /\ summary' = FallbackText
  /\ w' = [w EXCEPT ![p] = [@ EXCEPT !.pc = "finishing", !.ctl = Fallback(w[p].main)]]
  /\ UNCHANGED <<rec, primary, conv, resp, faults>>

(* wait_job_until_terminal: any terminal status, or the call's deadline,   *)
(* which may already have passed before the first poll.                    *)
SummaryPoll(p) ==
  /\ At(p, "summary_poll")
  /\ LET status == Normalized(Report) IN
     /\ status # "running"
     /\ w' = [w EXCEPT ![p] =
             [@ EXCEPT !.pc = "answered",
                       !.text = IF status \in {"timeout", "timed_out", "canceled"}
                                THEN NoText ELSE Report.answer]]
  /\ UNCHANGED <<rec, primary, summary, conv, resp, faults>>

SummaryDeadline(p) ==
  /\ At(p, "summary_poll")
  /\ w' = [w EXCEPT ![p] = [@ EXCEPT !.pc = "answered", !.text = NoText]]
  /\ UNCHANGED <<rec, primary, summary, conv, resp, faults>>

(* The text is validated after this update; an invalid one is recorded,    *)
(* then replaced by the fallback.                                          *)
MarkAnsweredNoFallback(p) ==    \* mutant: no action is derived for an invalid text
  /\ Loaded(p, "answered")
  /\ update_role_run([w[p].tmp EXCEPT !.lifecycle = "summary_response_received"])
  /\ LET action == Parsed[w[p].text] IN
     w' = [w EXCEPT ![p] =
          [@ EXCEPT !.tmp = NoRecord,
                    !.pc  = IF action = "invalid" THEN "unparsed" ELSE "save_summary",
                    !.ctl = IF action = "invalid" THEN @ ELSE action]]
MarkAnswered(p) ==
  /\ Loaded(p, "answered")
  /\ update_role_run([w[p].tmp EXCEPT !.lifecycle = "summary_response_received"])
  /\ LET action == Parsed[w[p].text] IN
     w' = [w EXCEPT ![p] =
          [@ EXCEPT !.tmp = NoRecord,
                    !.pc  = IF action = "invalid" THEN "unparsed" ELSE "save_summary",
                    !.ctl = IF action = "invalid" THEN Fallback(w[p].main) ELSE action]]

MarkUnparsed(p) == Advance(p, "unparsed", "summary_parse_failed", "save_summary")

SaveSummary(p) ==
  /\ At(p, "save_summary")
  /\ summary' = w[p].text
  /\ Goto(p, "stored")
  /\ UNCHANGED <<rec, primary, conv, resp, faults>>

MarkStored(p) == Advance(p, "stored", "summary_artifact_saved", "finishing")

MarkCompleted(p) ==
  /\ Loaded(p, "finishing")
  /\ update_role_run([w[p].tmp EXCEPT !.status = "completed", !.lifecycle = "completed",
                                      !.result = w[p].ctl])
  /\ Return(p, "completed", w[p].ctl)

-------------------------------------------------------------------------------
(* How a call ends.                                                        *)
Reply(p) ==
  /\ At(p, "reply")
  /\ resp' = [resp EXCEPT ![p] = w[p].reply]
  /\ w' = [w EXCEPT ![p] = Idle]
  /\ UNCHANGED <<rec, primary, summary, conv, faults>>

Abort(p) ==
  /\ faults < MaxFaults /\ faults' = faults + 1
  /\ resp' = [resp EXCEPT ![p] = [status |-> "error", result |-> "absent"]]
  /\ w' = [w EXCEPT ![p] = Idle]
  /\ UNCHANGED <<rec, primary, summary, conv>>

(* GET /v1/jobs fails or times out: neither loop catches the exception.    *)
PollFails(p) ==
  /\ "http" \in Faults /\ w[p].pc \in {"poll", "summary_poll"}
  /\ Abort(p)

(* OpenHands does not answer the backend, which reports "not_found", and   *)
(* that is "running" to both loops.                                        *)
PollFindsNothing(p) ==
  /\ "http" \in Faults /\ At(p, "poll") /\ faults < MaxFaults
  /\ Normalized(JobReport([Seen EXCEPT !.found = FALSE], NoText)) = "running"
  /\ faults' = faults + 1
  /\ w' = [w EXCEPT ![p].polled = TRUE]
  /\ UNCHANGED <<rec, primary, summary, conv, resp>>

Crash(p) ==
  /\ "crash" \in Faults /\ ~At(p, "idle")
  /\ Abort(p)

-------------------------------------------------------------------------------
Init ==
  /\ rec \in {StartedRun} \cup UnstartedRuns
  /\ primary = [content |-> NoText, meta |-> FALSE]
  /\ summary = NoText
  /\ conv = NewConversation
  /\ w = [p \in Waiters |-> Idle]
  /\ resp = [p \in Waiters |-> NoReply]
  /\ faults = 0

(* The steps of a call once it has started, apart from its failures.       *)
Step(p) ==
  \/ LoadRecord(p) \/ Revalidate(p) \/ MarkStale(p)
  \/ Poll(p) \/ Deadline(p) \/ MarkEmptied(p) \/ MarkEnded(p) \/ MarkReceived(p)
  \/ OpenArtifact(p) \/ WriteArtifact(p) \/ OpenMeta(p) \/ WriteMeta(p)
  \/ CheckPrimary(p) \/ MarkPrompting(p) \/ SendSummaryPrompt(p) \/ SaveFallback(p)
  \/ SummaryPoll(p) \/ SummaryDeadline(p) \/ MarkAnswered(p) \/ MarkUnparsed(p)
  \/ SaveSummary(p) \/ MarkStored(p) \/ MarkCompleted(p) \/ Reply(p)

Fault(p) == SendFails(p) \/ PollFails(p) \/ PollFindsNothing(p) \/ Crash(p)

Agent == AgentEndsTurn \/ AgentStops \/ AgentTakesPrompt

Next == Agent \/ \E p \in Waiters : Enter(p) \/ Step(p) \/ Fault(p)

Spec == Init /\ [][Next]_vars

(* The server runs a call it has begun; the caller repeats role_wait until *)
(* it is told that the run completed or failed (prompts/head_of_it.md).    *)
Unsettled(p) == resp[p].status \in {"none", "running", "error"}
CallsProgress ==
  \A p \in Waiters : WF_vars(Step(p)) /\ WF_vars(Enter(p) /\ Unsettled(p))

(* Every turn of the agent ends.                                           *)
TurnsEnd == WF_vars(AgentEndsTurn \/ AgentStops) /\ WF_vars(AgentTakesPrompt)

FairCalls == Spec /\ CallsProgress
FairSpec == FairCalls /\ TurnsEnd

-------------------------------------------------------------------------------
(* Properties.  "One call at a time" below is Waiters with one element.    *)

(* Every variable keeps its type; a saved copy of the record is one.       *)
TypeOK ==
  /\ rec \in Records
  /\ primary \in [content : Answers, meta : BOOLEAN]
  /\ summary \in Answers \cup {FallbackText}
  /\ conv \in Conversations
  /\ w \in [Waiters -> Calls]
  /\ resp \in [Waiters -> Replies]
  /\ faults \in 0..MaxFaults

(* A record that says "completed" carries a control summary, whatever the  *)
(* interleaving of the calls' load-change-save updates, crashes and HTTP   *)
(* errors: role_call hands the stored summary on as the result.            *)
CompletedHasResult == rec.status = "completed" => rec.result # "absent"

(* The reviewer's PASS, which lets the publisher start, is in the record   *)
(* only if the agent said so in some answer: no path that lost, timed out  *)
(* or could not parse the summary makes it up.                             *)
Passing == {t \in Texts : Parsed[t] = "PASS" \/ Derived[t] = "PASS"}
PassOnlyFromAgent == rec.result = "PASS" => conv.said \cap Passing # {}

(* The artifact of a completed run can be resolved and is not empty: it is *)
(* what the next role is started with.  One call at a time.                *)
CompletedReadable == rec.status = "completed" => Readable

(* A decided run is never reopened, failed after completion, or completed  *)
(* twice with another summary, however calls are aborted and repeated.     *)
(* One call at a time.                                                     *)
DecisionFinal == [][rec.status \in {"completed", "failed"} => rec' = rec]_vars

(* What a caller was told stays true: after a "completed" response the     *)
(* record is completed with the very summary that was reported.  One call  *)
(* at a time, no crash.                                                    *)
ReportedCompletionHolds ==
  \A p \in Waiters : resp[p].status = "completed" =>
    rec.status = "completed" /\ rec.result = resp[p].result /\ rec.result # "absent"

(* The primary artifact holds the answer to the role's own prompt, never   *)
(* the answer to the summary prompt: a repeated role_wait does not poll    *)
(* the conversation again after the summary turn.  One call at a time;     *)
(* without faults it holds, after an HTTP error it does not.               *)
PrimaryIsMainAnswer == Readable => primary.content \in MainTexts
PrimaryIsMainWithoutFaults == faults = 0 => PrimaryIsMainAnswer

(* A summary prompt goes out only when the primary artifact is on disk and *)
(* readable, so the answer it overlays is not lost.  One call at a time.   *)
PromptAfterArtifact == [][conv'.pending /\ ~conv.pending => Readable]_vars

(* The text parsed for the control summary is not the answer to the role's *)
(* own prompt.                                                             *)
SummaryFromSummaryTurn == summary \in SummaryTexts \cup {NoText, FallbackText}

(* A started run is eventually decided or recorded as cancelled/timed out, *)
(* given that the agent's turns end: role_wait itself sets them no limit,  *)
(* though every role has its timeout_minutes.                              *)
Settled == rec.status \in {"completed", "failed", "cancelled", "timeout"}
EventuallySettled == rec.job ~> Settled

(* The abstract run this call sequence implements, one call at a time.     *)
Run == INSTANCE RoleRun WITH
  outcome <- IF rec.status = "completed" THEN rec.result
             ELSE IF rec.status = "failed" THEN "failed" ELSE "open",
  report  <- IF rec.status = "completed" THEN primary.content ELSE NoText,
  said    <- conv.said,
  Actions <- Actions, Answers <- Texts, Empty <- NoText, Passing <- Passing
ImplementsRoleRun == Run!Spec
===============================================================================
