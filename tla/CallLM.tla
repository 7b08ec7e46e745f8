-------------------------------- MODULE CallLM --------------------------------
(***************************************************************************)
(* POST /v1/call_lm of openhands_llm/server.py: a prompt to a new or to an *)
(* existing conversation, then (unless no_wait) the loop that collects the *)
(* texts of the agent poll by poll until the conversation is over; or only *)
(* a look at an existing conversation (read_only).                         *)
(***************************************************************************)
EXTENDS Conversation

CONSTANTS
  Requests,        \* what a caller may ask: records of mode and flags
  max_polls,
  start_attempts,  \* looks at a start task
  final_retries    \* looks after the end of the conversation

ASSUME CallLMAssumption ==
  /\ Requests \subseteq [mode : {"new", "continue", "read_only"}, no_wait : BOOLEAN,
                         stop_after_first_message : BOOLEAN, ignore_done_status : BOOLEAN]
  /\ max_polls \in Nat \ {0} /\ start_attempts \in Nat \ {0} /\ final_retries \in Nat \ {0}

VARIABLES
  task,      \* the start task of a new conversation, at OpenHands
  call,      \* the request in progress
  reply,     \* what call_lm answered
  faults     \* errors so far

vars == <<conversation, task, call, reply, faults>>

-------------------------------------------------------------------------------
(* `attempt' counts the looks of the current phase; `collected' are the    *)
(* texts in the order they were met, `ids' seen_event_ids, `late' how many *)
(* texts the last look brought; `over' is the newest event when the        *)
(* conversation was seen to be over; `whole': has no page been lost.       *)
NoCall == [pc |-> "idle", request |-> [mode |-> "none"], final |-> FALSE, attempt |-> 0, over |-> 0,
           collected |-> <<>>, ids |-> {}, late |-> 0, whole |-> TRUE, search |-> NoSearch]
NoReply == [status |-> "none", answer |-> NoEvent, call |-> NoCall]

Answered(status, answer) ==
  /\ reply' = [status |-> status, answer |-> answer,
               call |-> [call EXCEPT !.search.events = <<>>, !.ids = {}]]
  /\ call' = NoCall
Failed == Answered("error", NoEvent)
Fault == faults < MaxFaults /\ faults' = faults + 1

-------------------------------------------------------------------------------
(* OpenHands: a start task gets its conversation and the first prompt, or  *)
(* fails, whether anyone asks for it or not.                               *)
TaskIsReady ==
  /\ task = "working"
  /\ task' = "READY" /\ turn' = 1 /\ execution_status' = "running"
  /\ UNCHANGED <<log, visible, call, reply, faults>>

TaskFails ==
  /\ task = "working"
  /\ task' = "ERROR"
  /\ UNCHANGED <<conversation, call, reply, faults>>

OpenHands ==
  \/ Agent /\ reply' = NoReply /\ UNCHANGED <<task, call, faults>>
  \/ TaskIsReady \/ TaskFails

-------------------------------------------------------------------------------
(* The beginning of a request, by its mode.                                *)
CallLM(request) ==
  /\ call.pc = "idle"
  /\ CASE request.mode = "new"       -> turn = 0 /\ task # "working"
       [] request.mode = "continue"  -> turn \in 1..(MaxTurns - 1)
       [] request.mode = "read_only" -> turn > 0
  /\ call' = [NoCall EXCEPT !.request = request,
                            !.pc = CASE request.mode = "new"       -> "start"
                                     [] request.mode = "continue"  -> "send"
                                     [] request.mode = "read_only" -> "poll"]
  /\ reply' = NoReply
  /\ UNCHANGED <<conversation, task, faults>>

(* The response has the conversation's id, or only that of a start task.   *)
StartConversation ==
  /\ call.pc = "start"
  /\ \/ /\ task' = "working" /\ call' = [call EXCEPT !.pc = "task"]
        /\ UNCHANGED <<turn, execution_status, reply>>
     \/ /\ task' = "READY" /\ turn' = 1 /\ execution_status' = "running"
        /\ IF call.request.no_wait THEN Answered("no_wait", NoEvent)
                                   ELSE call' = [call EXCEPT !.pc = "poll"] /\ UNCHANGED reply
  /\ UNCHANGED <<log, visible, faults>>

(* poll_v1_start_task.                                                     *)
PollStartTask ==
  /\ call.pc = "task"
  /\ \/ /\ task = "READY"
        /\ IF call.request.no_wait THEN Answered("no_wait", NoEvent)
             ELSE call' = [call EXCEPT !.pc = "poll", !.attempt = 0] /\ UNCHANGED reply
     \/ task = "ERROR" /\ Failed
     \/ /\ task = "working" /\ call.attempt + 1 < start_attempts
        /\ call' = [call EXCEPT !.attempt = @ + 1]
        /\ UNCHANGED reply
     \/ task = "working" /\ call.attempt + 1 >= start_attempts /\ Failed
  /\ UNCHANGED <<conversation, task, faults>>

SendMessage ==
  /\ call.pc = "send"
  /\ turn' = turn + 1 /\ execution_status' = "running"
  /\ IF call.request.no_wait THEN Answered("running", NoEvent)
                             ELSE call' = [call EXCEPT !.pc = "poll"] /\ UNCHANGED reply
  /\ UNCHANGED <<log, visible, task, faults>>

(* The request to OpenHands fails, possibly after it took the prompt.      *)
PromptFails ==
  /\ call.pc \in {"start", "send"} /\ Fault /\ Failed
  /\ \/ UNCHANGED <<conversation, task>>
     \/ /\ call.pc = "start" /\ task' = "working"
        /\ UNCHANGED conversation
     \/ /\ call.pc = "send" /\ turn' = turn + 1 /\ execution_status' = "running"
        /\ UNCHANGED <<log, visible, task>>

-------------------------------------------------------------------------------
(* run_and_collect_message_events and collect_existing_conversation_answer *)
(* A look at the events: page after page, then what is new of them.        *)
BeginSearch ==
  /\ call.pc = "poll"
  /\ call' = [call EXCEPT !.pc = "page", !.search = NewSearch, !.attempt = @ + 1]
  /\ UNCHANGED <<conversation, task, reply, faults>>

ReadPage ==
  /\ call.pc = "page"
  /\ \E new \in NewItems(call.search) :
       call' = [call EXCEPT !.pc = IF LastPage(call.search) THEN "collect" ELSE "page",
                            !.search = AfterPage(@, new)]
  /\ UNCHANGED <<conversation, task, reply, faults>>

PageFails ==
  /\ call.pc = "page" /\ Fault
  /\ call' = [call EXCEPT !.pc = "collect", !.search.cut = TRUE, !.whole = FALSE]
  /\ UNCHANGED <<conversation, task, reply>>

(* Any request that raises, or meets HTML or no JSON, ends the call.       *)
RequestRaises ==
  /\ call.pc \in {"task", "page", "status"} /\ Fault /\ Failed
  /\ UNCHANGED <<conversation, task>>

(* print_new_message_events: the events not seen before that have a text.  *)
NoneSeen(events) ==       \* mutant: seen_event_ids is not kept
  SelectSeq(events, LAMBDA e : Text(e) # NoText)
NewTexts(events) ==
  LET new[n \in 0..Len(events)] ==
        IF n = 0 THEN <<>>
        ELSE IF events[n] \notin call.ids /\ Text(events[n]) # NoText
               THEN Append(new[n - 1], events[n])
        ELSE new[n - 1]
  IN new[Len(events)]
Ids(events) == {events[n] : n \in DOMAIN events}

(* The last text that is more than a filler.                               *)
FirstAnswer(collected) == \* mutant: the first one
  LET answers == {n \in DOMAIN collected : Text(collected[n]) = "answer"}
  IN IF answers = {} THEN NoEvent
     ELSE collected[CHOOSE n \in answers : \A m \in answers : n <= m]
extract_final_answer(collected) ==
  LET answers == {n \in DOMAIN collected : Text(collected[n]) = "answer"}
  IN IF answers = {} THEN NoEvent
     ELSE collected[CHOOSE n \in answers : \A m \in answers : m <= n]

completed_result(looked) ==
  LET answer == extract_final_answer(looked.collected)
  IN /\ reply' = [status |-> IF answer = NoEvent THEN "completed_empty_result" ELSE "completed",
                  answer |-> answer,
                  call |-> [looked EXCEPT !.search.events = <<>>, !.ids = {}]]
     /\ call' = NoCall

Looked ==
  LET events == call.search.events
      new == NewTexts(events)
      final == collect_final_text_from_events(events)
  IN [call EXCEPT
        !.ids = @ \cup Ids(events), !.late = Len(new),
        !.collected =
           CASE call.request.mode = "read_only" -> IF final = NoEvent THEN <<>> ELSE <<final>>
             [] call.request.mode # "read_only" /\ call.final /\ new = <<>> /\ final # NoEvent ->
                  Append(@, final)
             [] OTHER -> @ \o new]

(* Which looks are the last: the only one, the first with any text at all  *)
(* if that is asked for, a final one that brought something, the last of   *)
(* the final ones.                                                         *)
NoFinalRetries(looked) == \* mutant: one look after the end
  \/ looked.request.mode = "read_only"
  \/ looked.request.stop_after_first_message /\ looked.collected # <<>>
  \/ looked.final
Enough(looked) ==
  \/ looked.request.mode = "read_only"
  \/ looked.request.stop_after_first_message /\ looked.collected # <<>>
  \/ looked.final /\ \/ looked.collected # call.collected
                     \/ looked.attempt >= final_retries

Collect ==
  /\ call.pc = "collect"
  /\ IF Enough(Looked) THEN completed_result(Looked)
     ELSE /\ call' = [Looked EXCEPT !.pc = IF call.final THEN "poll" ELSE "status"]
          /\ UNCHANGED reply
  /\ UNCHANGED <<conversation, task, faults>>

(* get_v1_conversation: an HTTP error reads as a conversation that is not  *)
(* over.  After it the final looks begin, or the next poll, or none is     *)
(* left.                                                                   *)
NoFinalLook(conv) ==      \* mutant: the end is the end
  IF ~call.request.ignore_done_status /\ conversation_is_done(conv)
    THEN completed_result([call EXCEPT !.over = visible])
  ELSE IF call.attempt < max_polls
    THEN call' = [call EXCEPT !.pc = "poll"] /\ UNCHANGED reply
  ELSE completed_result(call)
PollsNotCounted(conv) ==  \* mutant: polling goes on until the end
  IF ~call.request.ignore_done_status /\ conversation_is_done(conv)
    THEN /\ call' = [call EXCEPT !.pc = "poll", !.final = TRUE, !.attempt = 0, !.over = visible]
         /\ UNCHANGED reply
    ELSE call' = [call EXCEPT !.pc = "poll", !.attempt = 0] /\ UNCHANGED reply
AfterStatus(conv) ==
  IF ~call.request.ignore_done_status /\ conversation_is_done(conv)
    THEN /\ call' = [call EXCEPT !.pc = "poll", !.final = TRUE, !.attempt = 0, !.over = visible]
         /\ UNCHANGED reply
  ELSE IF call.attempt < max_polls
    THEN call' = [call EXCEPT !.pc = "poll"] /\ UNCHANGED reply
  ELSE completed_result(call)

GetStatus ==
  /\ call.pc = "status"
  /\ AfterStatus(Found(execution_status))
  /\ UNCHANGED <<conversation, task, faults>>

GetStatusFails ==
  /\ call.pc = "status" /\ Fault
  /\ AfterStatus(NotFound)
  /\ UNCHANGED <<conversation, task>>

-------------------------------------------------------------------------------
Init ==
  /\ log = <<>> /\ visible = 0
  /\ \/ turn = 0 /\ execution_status = "starting" /\ task = "none"
     \/ turn = 1 /\ execution_status = "running" /\ task = "READY"
  /\ call = NoCall
  /\ reply = NoReply
  /\ faults = 0

Step ==
  \/ StartConversation \/ PollStartTask \/ SendMessage \/ PromptFails
  \/ BeginSearch \/ ReadPage \/ PageFails \/ RequestRaises
  \/ Collect \/ GetStatus \/ GetStatusFails
Next == OpenHands \/ Step \/ \E request \in Requests : CallLM(request)

Spec == Init /\ [][Next]_vars

(* A request that was begun goes on.                                       *)
FairSpec == Spec /\ WF_vars(Step)

-------------------------------------------------------------------------------
(* Properties.                                                             *)

TypeOK ==
  /\ ConversationOK
  /\ task \in {"none", "working", "READY", "ERROR"}
  /\ call.pc \in {"idle", "start", "task", "send", "poll", "page", "collect", "status"}
  /\ call.search \in Searches /\ call.collected \in Seq(1..Len(log))
  /\ call.attempt \in 0..(max_polls + start_attempts + final_retries)
  /\ reply.answer \in 0..Len(log)
  /\ faults \in 0..MaxFaults

(* However the pages move from poll to poll, a text is collected once:     *)
(* what an earlier poll met never counts as what a later look brought.     *)
(* One text alone may be answered twice: where the final look brings       *)
(* nothing new, the text it ends with is added again, behind all others.   *)
CollectedOnce ==
  /\ \A m, n \in DOMAIN call.collected : call.collected[m] = call.collected[n] => m = n
  /\ LET texts == reply.call.collected IN
       \A m, n \in DOMAIN texts : m < n /\ texts[m] = texts[n] =>
         n = Len(texts) /\ reply.call.final /\ reply.call.late = 0

(* Before an empty result every look was taken that the request allows,    *)
(* unless the agent did say something (a filler).                          *)
EmptyAfterAllLooks ==
  reply.status = "completed_empty_result" /\ reply.call.collected = <<>> =>
    \/ reply.call.request.mode = "read_only"
    \/ reply.call.attempt = IF reply.call.final THEN final_retries ELSE max_polls

(* An empty result, if no page was lost, means that no answer was to be    *)
(* seen when the conversation was seen to be over, or when the last look   *)
(* began; the look of read_only alone lets a "done" hide one.              *)
EmptyOnlyIfSilent ==
  reply.status = "completed_empty_result" /\ reply.call.whole =>
    LET seen == IF reply.call.over > reply.call.search.seen
                  THEN reply.call.over ELSE reply.call.search.seen
    IN \A e \in MetSince(seen) :
         log[e].text = "answer" =>
           /\ reply.call.request.mode = "read_only"
           /\ \E d \in DOMAIN log : log[d].text = "done"

(* When the conversation is over and the final look brings one text at     *)
(* most and no filler, the answer is no older than any finish action met:  *)
(* no old turn's report and no interim message comes back in its place.    *)
FinishWins ==
  /\ reply.answer # NoEvent /\ reply.call.final /\ reply.call.late <= 1
  /\ reply.call.whole /\ ~reply.call.search.overtaken
  /\ Text(reply.call.collected[Len(reply.call.collected)]) = "answer"
  => \A e \in MetSince(reply.call.search.seen) : log[e].kind = "finish" => reply.answer >= e

(* A request is answered: no phase of it goes on for ever.                 *)
CallEnds == call.pc # "idle" ~> call.pc = "idle"

(* What is left of the request at most: the looks that its limits allow,   *)
(* first at a start task, each with its pages and what follows them.       *)
LooksLeft ==
  CASE call.pc = "idle"  -> 0
    [] call.pc = "start" -> max_polls + final_retries + start_attempts + 1
    [] call.pc = "task"  -> max_polls + final_retries + start_attempts - call.attempt
    [] call.pc = "send"  -> max_polls + final_retries + 1
    [] OTHER -> IF call.final THEN final_retries - call.attempt
                              ELSE max_polls + final_retries - call.attempt
Rest == CASE call.pc = "page"    -> max_pages - call.search.pages + 2
          [] call.pc = "collect" -> 2
          [] call.pc = "status"  -> 1
          [] OTHER               -> 0
Remaining == LooksLeft * (max_pages + 3) + Rest

(* Whatever OpenHands does or fails to do, a start task that never gets    *)
(* ready, a conversation that never ends, one that is answered to after    *)
(* its end: each step of a request brings it nearer to its end.            *)
CallAdvances ==
  [][call.pc # "idle" /\ call' # call => Remaining' \in 0..(Remaining - 1)]_vars

(* The answer is the final one, whatever was collected in one look.        *)
FinalAnswerReturned ==
  reply.answer # NoEvent /\ reply.call.whole /\ reply.call.final =>
    \A e \in MetSince(reply.call.search.seen) : log[e].kind = "finish" => reply.answer >= e

(* The answer to a prompt sent to an existing conversation is new.         *)
NewAnswer ==
  reply.answer # NoEvent /\ reply.call.request.mode = "continue" => log[reply.answer].turn = turn
===============================================================================
