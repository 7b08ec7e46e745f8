----------------------------- MODULE FinalAnswer -----------------------------
(***************************************************************************)
(* GET /v1/jobs/{uid} of openhands_llm/server.py against a conversation    *)
(* that goes on: the status is read once, then the event log page by page, *)
(* newest event first, until an answer is found or the retry time is over. *)
(***************************************************************************)
EXTENDS Conversation

CONSTANTS
  retry_total,     \* retry time and the pause between two looks, in ticks
  retry_interval

ASSUME FinalAnswerAssumption == retry_total \in Nat /\ retry_interval \in Nat \ {0}

VARIABLES
  job,       \* the request in progress
  reply,     \* what GET /v1/jobs answered, until anything happens after that
  faults     \* HTTP errors so far

vars == <<conversation, job, reply, faults>>

-------------------------------------------------------------------------------
Jobs == [pc : {"idle", "page", "judge", "sleep"}, status : {"none", "finished", "error"},
         turn : 0..MaxTurns, left : 0..retry_total, search : Searches]
Idle == [pc |-> "idle", status |-> "none", turn |-> 0, left |-> 0, search |-> NoSearch]

NoReply == [report |-> [status |-> "none"], answer |-> NoEvent, turn |-> 0, left |-> 0,
            search |-> NoSearch]
Reply(conv, answer) ==
  [report |-> JobReport(conv, Text(answer)), answer |-> answer, turn |-> job.turn,
   left |-> job.left, search |-> [job.search EXCEPT !.events = <<>>]]

-------------------------------------------------------------------------------
(* A failed turn is looked at once, without retry time.                    *)
Look(status, begun, left) ==
  job' = [pc |-> "page", status |-> status, turn |-> begun, left |-> left,
          search |-> NewSearch]

GetConversation ==
  /\ job.pc = "idle"
  /\ IF conversation_is_done(Found(execution_status))
       THEN /\ Look(execution_status, turn,
                    IF execution_status = "error" THEN 0 ELSE retry_total)
            /\ reply' = NoReply
       ELSE /\ reply' = Reply(Found(execution_status), NoEvent)
            /\ UNCHANGED job
  /\ UNCHANGED <<conversation, faults>>

GetConversationFails ==
  /\ job.pc = "idle" /\ faults < MaxFaults
  /\ faults' = faults + 1
  /\ reply' = Reply(NotFound, NoEvent)
  /\ UNCHANGED <<conversation, job>>

ReadPage ==
  /\ job.pc = "page"
  /\ \E new \in NewItems(job.search) :
       job' = [job EXCEPT !.pc = IF LastPage(job.search) THEN "judge" ELSE "page",
                          !.search = AfterPage(@, new)]
  /\ UNCHANGED <<conversation, reply, faults>>

(* A page that cannot be read ends the search with what there is.          *)
ReadFails ==
  /\ job.pc = "page" /\ faults < MaxFaults
  /\ faults' = faults + 1
  /\ job' = [job EXCEPT !.pc = "judge", !.search.cut = TRUE]
  /\ UNCHANGED <<conversation, reply>>

(* A request that raises ends the whole of it: HTTP 502, no status.        *)
ReadRaises ==
  /\ job.pc = "page" /\ faults < MaxFaults
  /\ faults' = faults + 1
  /\ job' = Idle
  /\ UNCHANGED <<conversation, reply>>

(* Requests take time.                                                     *)
Tick ==
  /\ job.pc = "page" /\ job.left > 0
  /\ job' = [job EXCEPT !.left = @ - 1]
  /\ UNCHANGED <<conversation, reply, faults>>

Answer ==
  LET e == collect_final_text_from_events(job.search.events)
  IN IF Text(e) = "answer" THEN e ELSE NoEvent

OneIntervalEarly ==    \* mutant: no look at the deadline itself
  Answer # NoEvent \/ job.left <= retry_interval
Over == Answer # NoEvent \/ job.left = 0

Judge ==
  /\ job.pc = "judge"
  /\ IF Over THEN /\ reply' = Reply(Found(job.status), Answer)
                  /\ job' = Idle
             ELSE /\ job' = [job EXCEPT !.pc = "sleep", !.search = NoSearch]
                  /\ UNCHANGED reply
  /\ UNCHANGED <<conversation, faults>>

DeadlineRestarts ==    \* mutant: the deadline is computed anew for every look
  /\ job.pc = "sleep"
  /\ Look(job.status, job.turn, retry_total)
  /\ UNCHANGED <<conversation, reply, faults>>
Sleep ==
  /\ job.pc = "sleep"
  /\ Look(job.status, job.turn,
          IF job.left < retry_interval THEN 0 ELSE job.left - retry_interval)
  /\ UNCHANGED <<conversation, reply, faults>>

-------------------------------------------------------------------------------
Init ==
  /\ log = <<>> /\ visible = 0
  /\ turn = 1 /\ execution_status = "running"
  /\ job = Idle
  /\ reply = NoReply
  /\ faults = 0

Backend == (Agent \/ Prompt) /\ reply' = NoReply /\ UNCHANGED <<job, faults>>
Request == ReadPage \/ ReadFails \/ ReadRaises \/ Judge \/ Sleep
Next == Backend \/ GetConversation \/ GetConversationFails \/ Tick \/ Request

Spec == Init /\ [][Next]_vars

(* A request that was begun goes on.                                       *)
FairSpec == Spec /\ WF_vars(Request)

-------------------------------------------------------------------------------
(* Properties.                                                             *)

TypeOK ==
  /\ ConversationOK
  /\ job \in Jobs
  /\ reply.answer \in 0..Len(log)
  /\ faults \in 0..MaxFaults

(* Whatever appears between two pages, a search collects every event at    *)
(* most once; and newest first, which collect_final_text_from_events       *)
(* relies on, unless more events appeared than a page holds: they come     *)
(* after older ones then.                                                  *)
NewestFirst ==
  \A m, n \in DOMAIN job.search.events :
    m < n => /\ job.search.events[m] # job.search.events[n]
             /\ job.search.overtaken \/ job.search.events[m] > job.search.events[n]

(* Every event that was visible when a complete search began and that its  *)
(* pages could reach is collected, however the pages moved meanwhile.      *)
NothingSkipped ==
  job.pc = "judge" /\ ~job.search.cut =>
    \A e \in MetSince(job.search.seen) : \E n \in DOMAIN job.search.events : job.search.events[n] = e

(* "completed_empty_result" is never false: the retry time is over and the *)
(* last look, if no page failed, met no answer but one that a "done" hides *)
(* (a finish action, or a text among newer events).                        *)
NoAnswerMissed ==
  reply.report.status = "completed_empty_result" =>
    /\ reply.left = 0
    /\ \/ reply.search.cut \/ reply.search.overtaken
       \/ \A e \in MetSince(reply.search.seen) : log[e].text = "answer" =>
            \E d \in DOMAIN log : log[d].text = "done" /\ (log[d].kind = "finish" \/ d > e)

(* An answer is never older than a finish action that the last turn ended  *)
(* with and the search met: the main turn's report does not come back as   *)
(* the answer of the summary turn.                                         *)
AnswerOfFinishedTurn ==
  reply.answer # NoEvent /\ ~reply.search.cut /\ ~reply.search.overtaken =>
    \A e \in MetSince(reply.search.seen) : log[e].kind = "finish" => reply.answer >= e

(* A request is answered: the retry loop ends.                             *)
RequestEnds == job.pc # "idle" ~> job.pc = "idle"

(* What is left of the request at most: the looks that the retry time      *)
(* allows, each with its pages, its judgement and its pause.               *)
Rest == CASE job.pc = "page"  -> max_pages - job.search.pages + 2
          [] job.pc = "judge" -> 1
          [] OTHER            -> 0
Remaining == job.left * (max_pages + 3) + Rest

(* Nothing that happens meanwhile, neither new events that move the pages  *)
(* nor a prompt, an error or the passing of time, makes a request longer   *)
(* than it was going to be: all it does brings it nearer to its end.       *)
RequestAdvances ==
  [][job.pc # "idle" /\ job' # job => Remaining' \in 0..(Remaining - 1)]_vars

(* An answer is never older than the answer, of whatever kind, that the    *)
(* last turn had given when the last look began.                           *)
AnswerOfLastTurn ==
  reply.answer # NoEvent =>
    \A e \in MetSince(reply.search.seen) : log[e].turn = reply.turn /\ log[e].text = "answer" =>
      log[reply.answer].turn >= reply.turn
===============================================================================
