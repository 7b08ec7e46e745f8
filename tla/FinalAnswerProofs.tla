--------------------------- MODULE FinalAnswerProofs ---------------------------
(***************************************************************************)
(* Invariants of FinalAnswer for every size and number of pages, every     *)
(* retry time, any number of turns, events and HTTP errors: a search that  *)
(* goes on while events appear misses nothing it could reach and keeps its *)
(* order; the answer drawn from it is the one of a finished turn, and an   *)
(* empty result is never false.                                            *)
(***************************************************************************)
EXTENDS FinalAnswer, ConversationProofs

(* The events of kind "other" are those in which the agent says nothing.   *)
ConversationInv ==
  /\ log \in Seq(Events) /\ Len(log) <= MaxEvents /\ visible \in 0..Len(log)
  /\ turn \in 1..MaxTurns
  /\ execution_status \in {"running", "finished", "error"}
  /\ \A e \in DOMAIN log : log[e].kind = "other" <=> log[e].text = NoText

JobInv ==
  /\ job \in Jobs
  /\ SearchOK(job.search)
  /\ job.search.top <= visible
  /\ job.pc = "page" => job.search.pages < max_pages
  /\ job.pc = "sleep" => job.left > 0
  /\ job.pc = "judge" /\ ~job.search.cut =>
       job.search.page_id >= job.search.top \/ job.search.pages = max_pages

ReplyInv == reply.answer \in 0..Len(log) /\ NoAnswerMissed /\ AnswerOfFinishedTurn

IInv ==
  /\ ConversationInv /\ JobInv /\ ReplyInv
  /\ faults \in 0..MaxFaults

USE ConversationAssumption, FinalAnswerAssumption

-------------------------------------------------------------------------------
LEMMA Numbers ==
  /\ limit \in Nat \ {0} /\ max_pages \in Nat \ {0} /\ retry_total \in Nat
  /\ retry_interval \in Nat \ {0} /\ MaxTurns \in Nat \ {0} /\ MaxEvents \in Nat
  /\ MaxFaults \in Nat /\ NoText \notin {"answer", "done"}
BY DEF ConversationAssumption, FinalAnswerAssumption

LEMMA VisibleBound ==
  ASSUME ConversationInv
  PROVE  /\ Len(log) \in Nat /\ DOMAIN log = 1..Len(log)
         /\ visible \in 0..MaxEvents /\ visible \in Nat /\ visible <= Len(log)
BY Numbers DEF ConversationInv

(* An empty reply says nothing.                                            *)
LEMMA NoReplyInv ==
  ASSUME reply = NoReply, Len(log) \in Nat
  PROVE  ReplyInv
BY DEF ReplyInv, NoReply, NoAnswerMissed, AnswerOfFinishedTurn, NoEvent

LEMMA InitIInv == Init => IInv
<1> SUFFICES ASSUME Init PROVE IInv
  OBVIOUS
<1>1. ConversationInv
  BY Numbers DEF Init, ConversationInv
<1>2. SearchOK(NoSearch) /\ NoSearch \in Searches
  BY <1>1, VisibleBound, NewSearchOK DEF SearchOK
<1>3. Idle \in Jobs
  BY <1>2, Numbers DEF Idle, Jobs
<1>4. JobInv
  BY <1>1, <1>2, <1>3, VisibleBound DEF Init, JobInv, Idle, NoSearch
<1>5. ReplyInv
  BY <1>1, VisibleBound, NoReplyInv DEF Init
<1> QED BY <1>1, <1>4, <1>5, Numbers DEF Init, IInv

-------------------------------------------------------------------------------
(* The conversation goes on: what a search has collected stays what it is. *)
LEMMA ConversationStep ==
  ASSUME ConversationInv, Agent \/ Prompt
  PROVE  ConversationInv' /\ visible' >= visible
<1>1. /\ Len(log) \in Nat /\ DOMAIN log = 1..Len(log) /\ visible \in Nat
      /\ visible <= Len(log)
  BY VisibleBound
<1>2. CASE Agent
  <2>1. LogOK
    BY DEF ConversationInv, LogOK
  <2>2. LogOK' /\ visible' >= visible /\ turn' = turn
    BY <1>2, <2>1, AgentKeepsLog
  <2>3. execution_status' \in {"running", "finished", "error"}
    BY <1>2 DEF Agent, Write, Flush, EndTurn, ConversationInv
  <2> QED BY <2>2, <2>3 DEF ConversationInv, LogOK
<1>3. CASE Prompt
  BY <1>1, <1>3, Numbers DEF Prompt, ConversationInv
<1> QED BY <1>2, <1>3

LEMMA BackendIInv ==
  ASSUME IInv, Backend
  PROVE  IInv'
<1>1. ConversationInv' /\ visible' >= visible
  BY ConversationStep DEF IInv, Backend
<1>2. Len(log') \in Nat /\ visible' \in Nat /\ visible \in Nat
  BY <1>1, VisibleBound DEF ConversationInv, IInv
<1>3. job' = job /\ faults' = faults /\ reply' = NoReply
  BY DEF Backend
<1>4. job.search.top <= visible'
  <2>1. job.search.top \in Nat
    BY Numbers DEF IInv, JobInv, Jobs, Searches
  <2> QED BY <1>1, <1>2, <2>1 DEF IInv, JobInv
<1>5. JobInv'
  <2>1. SearchOK(job.search)'
    BY <1>3 DEF IInv, JobInv, SearchOK, Once, Descending, Above, LastPageMet, Reached,
               Collected
  <2> QED BY <1>3, <1>4, <2>1 DEF IInv, JobInv
<1>6. ReplyInv'
  BY <1>2, <1>3 DEF ReplyInv, NoReply, NoAnswerMissed, AnswerOfFinishedTurn, NoEvent
<1> QED BY <1>1, <1>3, <1>5, <1>6 DEF IInv

-------------------------------------------------------------------------------
(* The request: the conversation stays as it is for the length of a step.  *)
LEMMA Unmoved ==
  ASSUME IInv, UNCHANGED conversation
  PROVE  /\ ConversationInv' /\ visible' = visible /\ log' = log
         /\ reply' = reply => ReplyInv'
<1>1. log' = log /\ visible' = visible /\ turn' = turn /\ execution_status' = execution_status
  BY DEF conversation
<1>2. ConversationInv'
  BY <1>1 DEF IInv, ConversationInv
<1>3. reply' = reply => ReplyInv'
  BY <1>1 DEF IInv, ReplyInv, NoAnswerMissed, AnswerOfFinishedTurn, MetSince
<1> QED BY <1>1, <1>2, <1>3

(* A look begins with an empty search.                                     *)
LEMMA LookInv ==
  ASSUME IInv, UNCHANGED conversation,
         NEW status \in {"none", "finished", "error"}, NEW begun \in 0..MaxTurns,
         NEW left \in 0..retry_total, Look(status, begun, left)
  PROVE  JobInv'
<1>1. visible \in 0..MaxEvents /\ visible \in Nat
  BY VisibleBound DEF IInv
<1>2. SearchOK(NewSearch) /\ NewSearch \in Searches
  BY <1>1, NewSearchOK DEF SearchOK
<1>3. NewSearch.top = visible /\ NewSearch.pages = 0
  BY DEF NewSearch, NoSearch
<1>4. /\ job' = [pc |-> "page", status |-> status, turn |-> begun, left |-> left,
                 search |-> NewSearch]
      /\ visible' = visible
  BY DEF Look, conversation
<1>5. job' \in Jobs
  BY <1>2, <1>4 DEF Jobs
<1>6. job'.search = NewSearch /\ job'.pc = "page"
  BY <1>4
<1>7. SearchOK(job.search)'
  BY <1>2, <1>6 DEF SearchOK, Once, Descending, Above, LastPageMet, Reached, Collected
<1> QED BY <1>1, <1>3, <1>4, <1>5, <1>6, <1>7, Numbers DEF JobInv

LEMMA GetConversationIInv ==
  ASSUME IInv, GetConversation
  PROVE  IInv'
<1>1. /\ UNCHANGED conversation /\ faults' = faults
  BY DEF GetConversation
<1>2. ConversationInv' /\ visible' = visible /\ log' = log
  BY <1>1, Unmoved
<1>3. Len(log') \in Nat
  BY <1>2, VisibleBound DEF IInv
<1>4. CASE conversation_is_done(Found(execution_status))
  <2>1. reply' = NoReply
    BY <1>4 DEF GetConversation
  <2>2. ReplyInv'
    BY <1>3, <2>1 DEF ReplyInv, NoReply, NoAnswerMissed, AnswerOfFinishedTurn, NoEvent
  <2>3. execution_status \in {"none", "finished", "error"}
    BY <1>4 DEF IInv, ConversationInv, conversation_is_done, Found, TERMINAL_EXECUTION_STATES
  <2>4. turn \in 0..MaxTurns
    BY Numbers DEF IInv, ConversationInv
  <2>5. Look(execution_status, turn, IF execution_status = "error" THEN 0 ELSE retry_total)
    BY <1>4 DEF GetConversation
  <2>6. (IF execution_status = "error" THEN 0 ELSE retry_total) \in 0..retry_total
    BY Numbers
  <2>7. JobInv'
    BY <1>1, <2>3, <2>4, <2>5, <2>6, LookInv
  <2> QED BY <1>1, <1>2, <2>2, <2>7 DEF IInv
<1>5. CASE ~conversation_is_done(Found(execution_status))
  <2>1. job' = job /\ reply' = Reply(Found(execution_status), NoEvent)
    BY <1>5 DEF GetConversation
  <2>2. reply'.answer = NoEvent /\ reply'.report.status = "running"
    BY <1>5, <2>1 DEF Reply, JobReport, Found
  <2>3. ReplyInv'
    BY <1>3, <2>2 DEF ReplyInv, NoAnswerMissed, AnswerOfFinishedTurn, NoEvent
  <2> QED BY <1>1, <1>2, <2>1, <2>3
          DEF IInv, JobInv, SearchOK, Once, Descending, Above, LastPageMet, Reached, Collected
<1> QED BY <1>4, <1>5

LEMMA GetConversationFailsIInv ==
  ASSUME IInv, GetConversationFails
  PROVE  IInv'
<1>1. UNCHANGED conversation /\ job' = job /\ faults' = faults + 1 /\ faults < MaxFaults
  BY DEF GetConversationFails
<1>2. ConversationInv' /\ visible' = visible /\ log' = log
  BY <1>1, Unmoved
<1>3. Len(log') \in Nat
  BY <1>2, VisibleBound DEF IInv
<1>4. reply'.answer = NoEvent /\ reply'.report.status = "not_found"
  BY DEF GetConversationFails, Reply, JobReport, NotFound, Found
<1>5. ReplyInv'
  BY <1>3, <1>4 DEF ReplyInv, NoAnswerMissed, AnswerOfFinishedTurn, NoEvent
<1> QED BY <1>1, <1>2, <1>5, Numbers
        DEF IInv, JobInv, SearchOK, Once, Descending, Above, LastPageMet, Reached, Collected

LEMMA ReadPageIInv ==
  ASSUME IInv, ReadPage
  PROVE  IInv'
<1> DEFINE s == job.search
<1>1. UNCHANGED conversation /\ reply' = reply /\ faults' = faults /\ job.pc = "page"
  BY DEF ReadPage
<1>2. ConversationInv' /\ visible' = visible /\ ReplyInv'
  BY <1>1, Unmoved
<1>3. PICK new \in NewItems(s) :
        job' = [job EXCEPT !.pc = IF LastPage(s) THEN "judge" ELSE "page",
                           !.search = AfterPage(s, new)]
  BY DEF ReadPage
<1>4. visible \in 0..MaxEvents /\ visible \in Nat
  BY VisibleBound DEF IInv
<1>5. SearchOK(s) /\ s.pages < max_pages /\ s.top <= visible /\ job \in Jobs /\ s \in Searches
  BY <1>1 DEF IInv, JobInv, SearchOK
<1>6. SearchOK(AfterPage(s, new))
  BY <1>4, <1>5, AfterPageOK
<1>7. AfterPage(s, new) \in Searches
  BY <1>6 DEF SearchOK
<1>8. /\ job'.search = AfterPage(s, new)
      /\ job'.pc = IF LastPage(s) THEN "judge" ELSE "page"
  BY <1>3, <1>5 DEF Jobs
<1>9. job' \in Jobs
  BY <1>3, <1>5, <1>7 DEF Jobs
<1>10. /\ AfterPage(s, new).top = visible
       /\ AfterPage(s, new).page_id = s.page_id + limit
       /\ AfterPage(s, new).pages = s.pages + 1
  BY <1>5 DEF AfterPage, Searches
<1>11. SearchOK(job.search)'
  BY <1>6, <1>8 DEF SearchOK, Once, Descending, Above, LastPageMet, Reached, Collected
<1>12. job'.pc = "page" => job'.search.pages < max_pages
  BY <1>5, <1>8, <1>10, Numbers DEF LastPage, Searches
<1>13. job'.pc = "judge" =>
         job'.search.page_id >= job'.search.top \/ job'.search.pages = max_pages
  <2> SUFFICES ASSUME LastPage(s)
               PROVE  s.page_id + limit >= visible \/ s.pages + 1 = max_pages
    BY <1>8, <1>10
  <2>1. s.page_id \in Nat /\ s.pages \in Nat
    BY <1>5 DEF Searches
  <2> QED BY <1>4, <1>5, <2>1, Numbers DEF LastPage
<1>14. job'.search.top <= visible'
  BY <1>2, <1>4, <1>8, <1>10
<1>15. JobInv'
  BY <1>8, <1>9, <1>11, <1>12, <1>13, <1>14 DEF JobInv
<1> QED BY <1>1, <1>2, <1>15 DEF IInv

LEMMA ReadFailsIInv ==
  ASSUME IInv, ReadFails
  PROVE  IInv'
<1> DEFINE s == job.search
<1>1. /\ UNCHANGED conversation /\ reply' = reply /\ faults' = faults + 1 /\ faults < MaxFaults
      /\ job' = [job EXCEPT !.pc = "judge", !.search.cut = TRUE]
  BY DEF ReadFails
<1>2. ConversationInv' /\ visible' = visible /\ ReplyInv'
  BY <1>1, Unmoved
<1>3. job \in Jobs /\ s \in Searches /\ SearchOK(s) /\ s.top <= visible
  BY DEF IInv, JobInv, SearchOK
<1>4. job'.pc = "judge" /\ job'.search = [s EXCEPT !.cut = TRUE]
  BY <1>1, <1>3 DEF Jobs
<1>5. [s EXCEPT !.cut = TRUE] \in Searches
  BY <1>3 DEF Searches
<1>6. job' \in Jobs
  BY <1>1, <1>3, <1>5 DEF Jobs
<1>7. /\ job'.search.cut /\ job'.search.top = s.top
      /\ job'.search.page_id = s.page_id /\ job'.search.pages = s.pages
      /\ job'.search.events = s.events /\ job'.search.seen = s.seen
      /\ job'.search.overtaken = s.overtaken
  BY <1>3, <1>4 DEF Searches
<1>8. SearchOK(job.search)'
  BY <1>3, <1>4, <1>5, <1>7
     DEF SearchOK, Once, Descending, Above, LastPageMet, Reached, Collected
<1>9. JobInv'
  BY <1>2, <1>3, <1>4, <1>6, <1>7, <1>8 DEF JobInv
<1> QED BY <1>1, <1>2, <1>9, Numbers DEF IInv

LEMMA ReadRaisesIInv ==
  ASSUME IInv, ReadRaises
  PROVE  IInv'
<1>1. /\ UNCHANGED conversation /\ reply' = reply /\ faults' = faults + 1 /\ faults < MaxFaults
      /\ job' = Idle
  BY DEF ReadRaises
<1>2. ConversationInv' /\ visible' = visible /\ ReplyInv'
  BY <1>1, Unmoved
<1>3. visible \in Nat /\ visible \in 0..MaxEvents
  BY VisibleBound DEF IInv
<1>4. SearchOK(NoSearch) /\ NoSearch \in Searches
  BY <1>3, NewSearchOK DEF SearchOK
<1>5. job' \in Jobs
  BY <1>1, <1>4, Numbers DEF Jobs, Idle
<1>6. job'.search = NoSearch /\ job'.pc = "idle" /\ NoSearch.top = 0
  BY <1>1 DEF Idle, NoSearch
<1>7. SearchOK(job.search)'
  BY <1>4, <1>6 DEF SearchOK, Once, Descending, Above, LastPageMet, Reached, Collected
<1>8. JobInv'
  BY <1>2, <1>3, <1>5, <1>6, <1>7 DEF JobInv
<1> QED BY <1>1, <1>2, <1>8, Numbers DEF IInv

LEMMA TickIInv ==
  ASSUME IInv, Tick
  PROVE  IInv'
<1>1. /\ UNCHANGED conversation /\ reply' = reply /\ faults' = faults
      /\ job.pc = "page" /\ job.left > 0 /\ job' = [job EXCEPT !.left = @ - 1]
  BY DEF Tick
<1>2. ConversationInv' /\ visible' = visible /\ ReplyInv'
  BY <1>1, Unmoved
<1>3. job \in Jobs
  BY DEF IInv, JobInv
<1>4. job' \in Jobs /\ job'.search = job.search /\ job'.pc = job.pc
  BY <1>1, <1>3, Numbers DEF Jobs
<1>5. SearchOK(job.search)'
  BY <1>4 DEF IInv, JobInv, SearchOK, Once, Descending, Above, LastPageMet, Reached, Collected
<1>6. JobInv'
  BY <1>1, <1>2, <1>4, <1>5 DEF IInv, JobInv
<1> QED BY <1>1, <1>2, <1>6 DEF IInv

LEMMA SleepIInv ==
  ASSUME IInv, Sleep
  PROVE  IInv'
<1> DEFINE left == IF job.left < retry_interval THEN 0 ELSE job.left - retry_interval
<1>1. /\ UNCHANGED conversation /\ reply' = reply /\ faults' = faults
      /\ Look(job.status, job.turn, left)
  BY DEF Sleep
<1>2. ConversationInv' /\ ReplyInv'
  BY <1>1, Unmoved
<1>3. /\ job.status \in {"none", "finished", "error"} /\ job.turn \in 0..MaxTurns
      /\ job.left \in 0..retry_total
  BY DEF IInv, JobInv, Jobs
<1>4. left \in 0..retry_total
  BY <1>3, Numbers
<1> HIDE DEF left
<1>5. JobInv'
  BY <1>1, <1>3, <1>4, LookInv
<1> QED BY <1>1, <1>2, <1>5 DEF IInv

-------------------------------------------------------------------------------
(* What was found is judged: the heart of the matter.                      *)
LEMMA JudgedReply ==
  ASSUME IInv, job.pc = "judge", Over, UNCHANGED conversation,
         reply' = Reply(Found(job.status), Answer)
  PROVE  ReplyInv'
<1> DEFINE s == job.search
           ev == s.events
           taken == collect_final_text_from_events(ev)
           Are(kind) == {n \in DOMAIN ev : log[ev[n]].kind = kind}
<1>1. /\ job \in Jobs /\ SearchOK(s) /\ s \in Searches /\ s.top <= visible
      /\ ~s.cut => s.page_id >= s.top \/ s.pages = max_pages
  BY DEF IInv, JobInv, SearchOK
<1>2. /\ log' = log /\ visible' = visible
      /\ Len(log) \in Nat /\ DOMAIN log = 1..Len(log)
      /\ visible \in 0..MaxEvents /\ visible \in Nat /\ visible <= Len(log)
  BY VisibleBound DEF IInv, conversation
<1>3. ev \in Seq(1..MaxEvents) /\ s.top \in Nat
  BY <1>1 DEF Searches
<1>4. \A n \in DOMAIN ev : ev[n] \in 1..Len(log)
  <2> TAKE n \in DOMAIN ev
  <2>1. ev[n] \in 1..MaxEvents /\ ev[n] <= s.top
    BY <1>1, <1>3 DEF SearchOK
  <2> QED BY <1>1, <1>2, <1>3, <2>1, Numbers
<1>5. \/ \E n \in Are("finish") : taken = ev[n] /\ \A m \in Are("finish") : n <= m
      \/ /\ Are("finish") = {}
         /\ \E n \in Are("message") : taken = ev[n] /\ \A m \in Are("message") : n <= m
      \/ Are("finish") = {} /\ Are("message") = {} /\ taken = NoEvent
  BY <1>3, Taken
<1>6. /\ reply'.answer = Answer /\ reply'.left = job.left
      /\ reply'.report = JobReport(Found(job.status), Text(Answer))
      /\ reply'.search.seen = s.seen /\ reply'.search.cut = s.cut
      /\ reply'.search.overtaken = s.overtaken
  BY <1>1 DEF Reply, Searches, Jobs
<1>7. Answer = IF Text(taken) = "answer" THEN taken ELSE NoEvent
  BY DEF Answer
<1>8. ASSUME ~s.cut
      PROVE  \A e \in MetSince(s.seen) : \E n \in DOMAIN ev : ev[n] = e
  BY <1>1, <1>2, <1>8, LastPageMeetsAll DEF Collected
<1>9. ASSUME ~s.overtaken, NEW m \in DOMAIN ev, NEW n \in DOMAIN ev, n <= m
      PROVE  ev[n] >= ev[m] /\ (n # m => ev[n] > ev[m])
  <2>1. m \in Nat /\ n \in Nat /\ ev[m] \in Nat /\ ev[n] \in Nat
    BY <1>3
  <2>2. CASE n = m
    BY <2>1, <2>2
  <2>3. CASE n # m
    <3>1. n < m
      BY <1>9, <2>1, <2>3
    <3>2. ev[n] > ev[m]
      BY <1>1, <1>9, <3>1 DEF SearchOK, Descending
    <3> QED BY <2>1, <3>2
  <2> QED BY <2>2, <2>3
<1>10. \A e : MetSince(e)' = MetSince(e)
  BY <1>2 DEF MetSince
<1> HIDE DEF taken
<1>12. Answer \in 0..Len(log)
  <2>1. taken = NoEvent \/ \E n \in DOMAIN ev : taken = ev[n]
    BY <1>5
  <2> QED BY <1>2, <1>4, <1>7, <2>1 DEF NoEvent
<1>13. AnswerOfFinishedTurn'
  <2> SUFFICES ASSUME Answer # NoEvent, ~s.cut, ~s.overtaken,
                      NEW e \in MetSince(s.seen), log[e].kind = "finish"
               PROVE  Answer >= e
    BY <1>2, <1>6, <1>10 DEF AnswerOfFinishedTurn
  <2>1. PICK m \in DOMAIN ev : ev[m] = e
    BY <1>8
  <2>2. m \in Are("finish")
    BY <2>1
  <2>3. PICK n \in Are("finish") : taken = ev[n] /\ n <= m
    BY <1>5, <2>2
  <2>4. ev[n] >= ev[m]
    BY <1>9, <2>2, <2>3
  <2> QED BY <1>7, <2>1, <2>3, <2>4
<1>14. NoAnswerMissed'
  <2> SUFFICES ASSUME JobReport(Found(job.status), Text(Answer)).status = "completed_empty_result"
               PROVE  /\ job.left = 0
                      /\ \/ s.cut \/ s.overtaken
                         \/ \A e \in MetSince(s.seen) : log[e].text = "answer" =>
                              \E d \in DOMAIN log :
                                log[d].text = "done" /\ (log[d].kind = "finish" \/ d > e)
    BY <1>2, <1>6, <1>10 DEF NoAnswerMissed
  <2>1. Text(Answer) = NoText
    BY DEF JobReport, Found
  <2>2. Text(taken) # "answer" /\ Answer = NoEvent
    BY <1>7, <2>1, Numbers
  <2>3. job.left = 0
    BY <2>2 DEF Over
  <2>4. ASSUME ~s.cut, ~s.overtaken, NEW e \in MetSince(s.seen), log[e].text = "answer"
        PROVE  \E d \in DOMAIN log :
                 log[d].text = "done" /\ (log[d].kind = "finish" \/ d > e)
    <3>1. PICK m \in DOMAIN ev : ev[m] = e
      BY <1>8, <2>4
    <3>2. \A n \in DOMAIN ev :
            /\ log[ev[n]] \in Events
            /\ log[ev[n]].kind = "other" <=> log[ev[n]].text = NoText
      BY <1>2, <1>4 DEF IInv, ConversationInv
    <3>3. log[e].kind \in {"finish", "message"}
      BY <2>4, <3>1, <3>2, Numbers DEF Events
    <3>4. \A n \in DOMAIN ev :
            taken = ev[n] /\ log[ev[n]].kind # "other" => log[ev[n]].text = "done"
      <4> TAKE n \in DOMAIN ev
      <4> HAVE taken = ev[n] /\ log[ev[n]].kind # "other"
      <4>1. ev[n] # NoEvent
        BY <1>4 DEF NoEvent
      <4>2. log[ev[n]].text # "answer"
        BY <2>2, <4>1 DEF Text
      <4> QED BY <3>2, <4>2 DEF Events
    <3>5. CASE \E n \in Are("finish") : taken = ev[n]
      BY <1>2, <1>4, <3>4, <3>5
    <3>6. CASE ~ \E n \in Are("finish") : taken = ev[n]
      <4>1. Are("finish") = {} /\ m \in Are("message")
        BY <1>5, <3>1, <3>3, <3>6
      <4>2. PICK n \in Are("message") : taken = ev[n] /\ n <= m
        BY <1>5, <4>1
      <4>3. log[ev[n]].text = "done"
        BY <3>4, <4>2
      <4>4. n # m
        BY <2>4, <3>1, <4>3
      <4>5. ev[n] > e
        BY <1>9, <2>4, <3>1, <4>2, <4>4
      <4> QED BY <1>2, <1>4, <4>2, <4>3, <4>5
    <3> QED BY <3>5, <3>6
  <2> QED BY <2>3, <2>4
<1> QED BY <1>2, <1>6, <1>12, <1>13, <1>14 DEF ReplyInv

LEMMA JudgeIInv ==
  ASSUME IInv, Judge
  PROVE  IInv'
<1>1. UNCHANGED conversation /\ faults' = faults /\ job.pc = "judge"
  BY DEF Judge
<1>2. ConversationInv' /\ visible' = visible
  BY <1>1, Unmoved
<1>3. visible \in Nat /\ visible \in 0..MaxEvents
  BY VisibleBound DEF IInv
<1>4. SearchOK(NoSearch) /\ NoSearch \in Searches /\ NoSearch.top = 0
  BY <1>3, NewSearchOK DEF SearchOK, NoSearch
<1>5. /\ job' \in Jobs /\ job'.search = NoSearch /\ job'.pc \in {"idle", "sleep"}
      /\ job'.pc = "sleep" => job'.left > 0
  <2>1. CASE Over
    BY <1>4, <2>1, Numbers DEF Judge, Idle, Jobs
  <2>2. CASE ~Over
    <3>1. /\ job' = [job EXCEPT !.pc = "sleep", !.search = NoSearch] /\ job \in Jobs
          /\ job.left # 0
      BY <2>2 DEF Judge, IInv, JobInv, Over
    <3>2. job'.pc = "sleep" /\ job'.left = job.left /\ job.left \in Nat
      BY <3>1, Numbers DEF Jobs
    <3>3. job' \in Jobs /\ job'.search = NoSearch
      BY <1>4, <3>1 DEF Jobs
    <3> QED BY <3>1, <3>2, <3>3
  <2> QED BY <2>1, <2>2
<1>6. SearchOK(job.search)'
  BY <1>4, <1>5 DEF SearchOK, Once, Descending, Above, LastPageMet, Reached, Collected
<1>7. JobInv'
  BY <1>2, <1>3, <1>4, <1>5, <1>6 DEF JobInv
<1>8. ReplyInv'
  <2>1. CASE Over
    BY <1>1, <2>1, JudgedReply DEF Judge
  <2>2. CASE ~Over
    BY <1>1, <2>2, Unmoved DEF Judge
  <2> QED BY <2>1, <2>2
<1> QED BY <1>1, <1>2, <1>7, <1>8 DEF IInv

-------------------------------------------------------------------------------
THEOREM Invariance == Spec => []IInv
<1>1. IInv /\ [Next]_vars => IInv'
  <2> SUFFICES ASSUME IInv, [Next]_vars PROVE IInv'
    OBVIOUS
  <2>1. CASE Backend
    BY <2>1, BackendIInv
  <2>2. CASE GetConversation
    BY <2>2, GetConversationIInv
  <2>3. CASE GetConversationFails
    BY <2>3, GetConversationFailsIInv
  <2>4. CASE Tick
    BY <2>4, TickIInv
  <2>5. CASE ReadPage
    BY <2>5, ReadPageIInv
  <2>6. CASE ReadFails
    BY <2>6, ReadFailsIInv
  <2>7. CASE ReadRaises
    BY <2>7, ReadRaisesIInv
  <2>8. CASE Judge
    BY <2>8, JudgeIInv
  <2>9. CASE Sleep
    BY <2>9, SleepIInv
  <2>10. CASE UNCHANGED vars
    <3>1. UNCHANGED conversation /\ job' = job /\ reply' = reply /\ faults' = faults
      BY <2>10 DEF vars
    <3>2. ConversationInv' /\ visible' = visible /\ ReplyInv'
      BY <3>1, Unmoved
    <3> QED BY <3>1, <3>2
            DEF IInv, JobInv, SearchOK, Once, Descending, Above, LastPageMet, Reached, Collected
  <2> QED BY <2>1, <2>2, <2>3, <2>4, <2>5, <2>6, <2>7, <2>8, <2>9, <2>10 DEF Next, Request
<1> QED BY InitIInv, <1>1, PTL DEF Spec

(* The variables keep their types.                                         *)
THEOREM JobTypes == Spec => []TypeOK
<1>1. IInv => TypeOK
  BY Numbers DEF IInv, ConversationInv, JobInv, ReplyInv, TypeOK, ConversationOK
<1> QED BY <1>1, Invariance, PTL

(* A search collects no event twice, and newest first unless more events   *)
(* appeared between two pages than a page holds.                           *)
THEOREM SearchKeepsOrder == Spec => []NewestFirst
<1>1. IInv => NewestFirst
  BY DEF IInv, JobInv, SearchOK, Once, Descending, NewestFirst
<1> QED BY <1>1, Invariance, PTL

(* A search that was not cut short has met every event that was visible    *)
(* when it began and within its reach.                                     *)
THEOREM SearchIsComplete == Spec => []NothingSkipped
<1>1. IInv => NothingSkipped
  <2> SUFFICES ASSUME IInv, job.pc = "judge", ~job.search.cut
               PROVE  \A e \in MetSince(job.search.seen) : e \in Collected(job.search)
    BY DEF NothingSkipped, Collected
  <2> QED BY VisibleBound, LastPageMeetsAll DEF IInv, JobInv
<1> QED BY <1>1, Invariance, PTL

(* A completed job is reported without an answer only after the whole      *)
(* retry time, and only if no answer was to be met but one that a filler   *)
(* hides.                                                                  *)
THEOREM EmptyIsTrue == Spec => []NoAnswerMissed
<1>1. IInv => NoAnswerMissed
  BY DEF IInv, ReplyInv
<1> QED BY <1>1, Invariance, PTL

(* No answer is older than a finish action that the search could meet.     *)
THEOREM AnswerIsOfFinishedTurn == Spec => []AnswerOfFinishedTurn
<1>1. IInv => AnswerOfFinishedTurn
  BY DEF IInv, ReplyInv
<1> QED BY <1>1, Invariance, PTL

(* Each step of a request brings it nearer to its end, of which it is at   *)
(* most a number of steps away that its limits fix: so no request goes on  *)
(* for ever.                                                               *)
THEOREM RequestGetsNearer == Spec => RequestAdvances
<1>1. IInv /\ [Next]_vars => (job.pc # "idle" /\ job' # job => Remaining' \in 0..(Remaining - 1))
  <2> SUFFICES ASSUME IInv, Next, job.pc # "idle", job' # job
               PROVE  Remaining' \in 0..(Remaining - 1)
    BY DEF vars
  <2> DEFINE s == max_pages + 3
  <2>1. /\ job \in Jobs /\ job.left \in Nat /\ job.search.pages \in 0..max_pages /\ s \in Nat
        /\ job.pc = "page" => job.search.pages < max_pages
        /\ job.pc = "sleep" => job.left > 0
    BY Numbers DEF IInv, JobInv, Jobs, Searches
  <2>2. Rest \in 0..(s - 1)
    BY <2>1, Numbers DEF Rest
  <2>3. SUFFICES /\ job'.left \in Nat /\ Rest' \in 0..(s - 1)
                 /\ job'.left < job.left \/ (job'.left = job.left /\ Rest' < Rest)
    <3>1. Remaining = job.left * s + Rest /\ Remaining' = job'.left * s + Rest'
      BY DEF Remaining
    <3> HIDE DEF s
    <3>2. job'.left * s + Rest' \in 0..((job.left * s + Rest) - 1)
      BY <2>1, <2>2, <2>3, Nearer
    <3> QED BY <2>1, <2>2, <3>1, <3>2
  <2>4. CASE ReadPage
    <3>1. PICK new \in NewItems(job.search) :
            job' = [job EXCEPT !.pc = IF LastPage(job.search) THEN "judge" ELSE "page",
                               !.search = AfterPage(@, new)]
      BY <2>4 DEF ReadPage
    <3>2. /\ job.pc = "page" /\ job'.left = job.left /\ job'.pc \in {"page", "judge"}
          /\ job'.search.pages = job.search.pages + 1
      BY <2>1, <2>4, <3>1 DEF ReadPage, AfterPage, Jobs, Searches
    <3> QED BY <2>1, <3>2, Numbers DEF Rest
  <2>5. CASE ReadFails
    <3>1. job.pc = "page" /\ job'.left = job.left /\ job'.pc = "judge"
      BY <2>1, <2>5 DEF ReadFails, Jobs
    <3> QED BY <2>1, <3>1, Numbers DEF Rest
  <2>6. CASE ReadRaises
    <3>1. job.pc = "page" /\ job'.left = 0 /\ job'.pc = "idle"
      BY <2>6 DEF ReadRaises, Idle
    <3> QED BY <2>1, <3>1, Numbers DEF Rest
  <2>7. CASE Tick
    <3>1. /\ job.pc = "page" /\ job.left > 0 /\ job'.left = job.left - 1 /\ job'.pc = "page"
          /\ job'.search = job.search
      BY <2>1, <2>7 DEF Tick, Jobs
    <3>2. Rest' = Rest
      BY <3>1 DEF Rest
    <3> QED BY <2>1, <2>2, <3>1, <3>2
  <2>8. CASE Judge
    <3>1. CASE Over
      <4>1. job.pc = "judge" /\ job'.left = 0 /\ job'.pc = "idle"
        BY <2>8, <3>1 DEF Judge, Idle
      <4> QED BY <2>1, <4>1, Numbers DEF Rest
    <3>2. CASE ~Over
      <4>1. job.pc = "judge" /\ job'.left = job.left /\ job'.pc = "sleep"
        BY <2>1, <2>8, <3>2 DEF Judge, Jobs
      <4> QED BY <2>1, <4>1, Numbers DEF Rest
    <3> QED BY <3>1, <3>2
  <2>9. CASE Sleep
    <3>1. /\ job.pc = "sleep" /\ job'.pc = "page" /\ job'.search = NewSearch
          /\ job'.left = IF job.left < retry_interval THEN 0 ELSE job.left - retry_interval
      BY <2>9 DEF Sleep, Look
    <3>2. job'.left \in Nat /\ job'.left < job.left /\ NewSearch.pages = 0
      BY <2>1, <3>1, Numbers DEF NewSearch, NoSearch
    <3>3. Rest' = max_pages + 2
      BY <3>1, <3>2, Numbers DEF Rest
    <3> QED BY <3>2, <3>3, Numbers
  <2> QED BY <2>4, <2>5, <2>6, <2>7, <2>8, <2>9
          DEF Next, Request, Backend, GetConversation, GetConversationFails
<1> QED BY <1>1, Invariance, PTL DEF Spec, RequestAdvances
===============================================================================
