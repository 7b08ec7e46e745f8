---------------------------- MODULE RoleWaitProofs ----------------------------
(***************************************************************************)
(* What holds of role_wait for every set of answers, every parser, every   *)
(* number of faults, and (where nothing else is said) every number of      *)
(* calls at once.                                                          *)
(***************************************************************************)
EXTENDS RoleWait, TLAPS

-------------------------------------------------------------------------------
(* What the main loop and the summary loop can be told.                    *)

(* A poll of a conversation the API returns normalises to one of six       *)
(* words, and the answer it carries is the conversation's or none.         *)
LEMMA ReportTypes ==
  ASSUME conv.exec \in ExecutionStatuses, conv.answer \in Answers
  PROVE  /\ Normalized(Report) \in {"running", "completed", "completed_empty_result",
                                          "failed", "cancelled", "timeout"}
         /\ Report.answer \in {conv.answer, NoText}
         /\ Normalized(Report) = "completed" => Report.answer = conv.answer
<1>1. conversation_is_done(Seen) <=> conv.exec \in {"finished", "stuck", "failed"}
  BY DEF Seen, conversation_is_done, TERMINAL_EXECUTION_STATES, ExecutionStatuses
<1>2. CASE conv.exec \in {"finished", "stuck", "failed"}
  <2>1. Report =
          [status |-> IF conv.exec \in {"failed", "error"} THEN "failed"
                      ELSE IF conv.answer = NoText THEN "completed_empty_result"
                      ELSE "completed",
           execution_status |-> conv.exec, answer |-> conv.answer]
    BY <1>1, <1>2 DEF Seen, Report, JobReport
  <2>2. Report.status \in {"failed", "completed", "completed_empty_result"}
        /\ Report.answer = conv.answer
    BY <2>1
  <2>3. Normalized(Report) = Report.status
    BY <2>2 DEF Normalized, TerminalJobStates
  <2> QED BY <2>2, <2>3
<1>3. CASE conv.exec \in {"running", "cancelled", "timeout"}
  <2>1. Report = [status |-> "running", execution_status |-> conv.exec,
                        answer |-> NoText]
    BY <1>1, <1>3 DEF Seen, Report, JobReport
  <2>2. CASE conv.exec = "running"
    BY <2>1, <2>2 DEF Normalized, TerminalJobStates
  <2>3. CASE conv.exec = "cancelled"
    BY <2>1, <2>3 DEF Normalized, TerminalJobStates
  <2>4. CASE conv.exec = "timeout"
    BY <2>1, <2>4 DEF Normalized, TerminalJobStates
  <2> QED BY <2>2, <2>3, <2>4, <1>3
<1> QED BY <1>2, <1>3 DEF ExecutionStatuses

-------------------------------------------------------------------------------
(* The inductive invariant.  A record is saved from a copy that some other *)
(* call's save may have made obsolete, and the control summary is computed *)
(* several steps before it is written; so what holds of the record must    *)
(* also hold of every copy, and of the locals it will be written from.     *)

HasResult(record) == record.status = "completed" => record.result # "absent"
Backed(result, said) == result = "PASS" => said \cap Passing # {}

CallInv(c, said) ==
  /\ c.pc = "ended" => c.status # "none"
  /\ c.pc \in {"unparsed", "save_summary", "stored", "finishing"} => c.ctl # "absent"
  /\ HasResult(c.tmp)
  /\ Backed(c.tmp.result, said)
  /\ Backed(c.ctl, said)
  /\ c.main \in said \cup {NoText}
  /\ c.text \in said \cup {NoText}

IInv ==
  /\ TypeOK
  /\ HasResult(rec)
  /\ Backed(rec.result, conv.said)
  /\ conv.answer \in conv.said \cup {NoText}
  /\ \A p \in Waiters : CallInv(w[p], conv.said)

-------------------------------------------------------------------------------
(* What a step does to its own call.                                       *)

LEMMA IdleCall == Idle \in Calls /\ CallInv(Idle, conv.said)
  BY DEF Idle, Calls, PCs, UpdatePoints, NoReply, Replies, Results, Actions, Answers,
     CallInv, HasResult, Backed, NoRecord

LEMMA ReturningCall ==
  ASSUME NEW status \in {"completed", "failed", "running", "error"}, NEW result \in Results
  PROVE  Returning(status, result) \in Calls /\ CallInv(Returning(status, result), conv.said)
<1>1. Returning(status, result) \in Calls
  BY IdleCall DEF Returning, Calls, PCs, Replies
<1>2. CallInv(Returning(status, result), conv.said)
  BY IdleCall DEF Returning, CallInv, Calls
<1> QED BY <1>1, <1>2

(* Moving on to a point from which nothing is written to the record.       *)
LEMMA GotoCall ==
  ASSUME NEW c \in Calls, CallInv(c, conv.said),
         NEW point \in PCs \ {"ended", "unparsed", "save_summary", "stored", "finishing"}
  PROVE  /\ [c EXCEPT !.pc = point] \in Calls
         /\ CallInv([c EXCEPT !.pc = point], conv.said)
         /\ [c EXCEPT !.tmp = NoRecord, !.pc = point] \in Calls
         /\ CallInv([c EXCEPT !.tmp = NoRecord, !.pc = point], conv.said)
<1>1. HasResult(NoRecord) /\ Backed(NoRecord.result, conv.said)
  BY DEF HasResult, Backed, NoRecord
<1> QED BY <1>1 DEF Calls, CallInv

(* A fallback summary is an action, and passes only if the main answer     *)
(* does.                                                                   *)
LEMMA FallbackBacked ==
  ASSUME NEW t \in Answers, NEW said, t \in said \cup {NoText}
  PROVE  Fallback(t) \in Actions /\ Backed(Fallback(t), said)
<1>1. Fallback(t) \in Actions
  BY RoleWaitAssumption DEF Fallback, Actions
<1>2. ASSUME Fallback(t) = "PASS" PROVE said \cap Passing # {}
  <2>1. Derived[t] = "PASS"
    BY <1>2 DEF Fallback
  <2>2. t # NoText /\ t \in Texts
    BY <2>1, RoleWaitAssumption DEF Answers
  <2> QED BY <2>1, <2>2 DEF Passing
<1> QED BY <1>1, <1>2 DEF Backed

(* So does a parsed summary.                                               *)
LEMMA ParsedBacked ==
  ASSUME NEW t \in Answers, NEW said, t \in said \cup {NoText}
  PROVE  /\ Parsed[t] \in Actions \cup {"invalid"}
         /\ Backed(Parsed[t], said)
<1>1. Parsed[t] \in Actions \cup {"invalid"}
  BY RoleWaitAssumption
<1>2. ASSUME Parsed[t] = "PASS" PROVE said \cap Passing # {}
  <2>1. t # NoText /\ t \in Texts
    BY <1>2, RoleWaitAssumption DEF Answers
  <2> QED BY <1>2, <2>1 DEF Passing
<1> QED BY <1>1, <1>2 DEF Backed

(* A step of a call changes that call only, and leaves it one that         *)
(* satisfies the invariant.                                                *)
LEMMA OwnCall ==
  ASSUME IInv, NEW p \in Waiters, Enter(p) \/ Step(p) \/ Fault(p)
  PROVE  \E c \in Calls : CallInv(c, conv.said) /\ w' = [w EXCEPT ![p] = c]
<1> DEFINE Good(c) == c \in Calls /\ CallInv(c, conv.said)
<1> DEFINE Result(c) == Good(c) /\ w' = [w EXCEPT ![p] = c]
<1> SUFFICES \E c : Result(c)
  OBVIOUS
<1>1. w[p] \in Calls /\ CallInv(w[p], conv.said)
  BY DEF IInv, TypeOK
<1>2. rec \in Records /\ rec.result \in Results /\ HasResult(rec)
        /\ Backed(rec.result, conv.said)
  BY DEF IInv, TypeOK, Records
<1>3. w[p].snap.result \in Results /\ w[p].ctl \in Results /\ w[p].main \in Answers
        /\ w[p].text \in Answers
  BY <1>1 DEF Calls, Records, NoRecord, Results
<1>4. "absent" \in Results
  BY DEF Results
<1>5. /\ Report.answer \in Answers /\ Report.answer \in conv.said \cup {NoText}
      /\ Normalized(Report) \in
           {"running", "completed", "completed_empty_result", "failed", "cancelled", "timeout"}
  BY ReportTypes DEF IInv, TypeOK, Conversations, Answers
<1>6. w[p].main \in conv.said \cup {NoText} /\ w[p].text \in conv.said \cup {NoText}
  BY <1>1 DEF CallInv
<1>7. HasResult(NoRecord) /\ Backed(NoRecord.result, conv.said)
  BY DEF HasResult, Backed, NoRecord
<1>8. /\ Fallback(w[p].main) \in Results \ {"absent"}
      /\ Backed(Fallback(w[p].main), conv.said)
      /\ Parsed[w[p].text] # "invalid" => Parsed[w[p].text] \in Results \ {"absent"}
      /\ Backed(Parsed[w[p].text], conv.said)
  BY <1>3, <1>6, FallbackBacked, ParsedBacked DEF Results, Actions
<1> HIDE DEF Good
<1>9. CASE LoadRecord(p)
  <2>1. w' = [w EXCEPT ![p] = [w[p] EXCEPT !.tmp = rec]]
    BY <1>9 DEF LoadRecord
  <2>2. Good([w[p] EXCEPT !.tmp = rec])
    BY <1>1, <1>2 DEF Good, Calls, CallInv
  <2> QED BY <2>1, <2>2
<1>10. CASE Enter(p)
  <2> DEFINE call == [Idle EXCEPT !.snap = rec]
  <2>1. \/ w' = [w EXCEPT ![p] = [call EXCEPT !.pc = "revalidate"]]
        \/ w' = [w EXCEPT ![p] = Returning("failed", "absent")]
        \/ w' = [w EXCEPT ![p] = [call EXCEPT !.pc = "poll"]]
    BY <1>10 DEF Enter, Return
  <2>2. Good(call)
    BY <1>2, IdleCall DEF Good, Calls, CallInv
  <2> HIDE DEF call
  <2> QED BY <2>1, <2>2, <1>4, GotoCall, ReturningCall DEF Good, PCs
<1>11. CASE Revalidate(p)
  <2>1. \/ w' = [w EXCEPT ![p] = Returning("completed", w[p].snap.result)]
        \/ w' = [w EXCEPT ![p] = [w[p] EXCEPT !.pc = "stale"]]
    BY <1>11 DEF Revalidate, Return, Goto
  <2> QED BY <2>1, <1>1, <1>3, GotoCall, ReturningCall DEF Good, PCs, UpdatePoints
<1>12. CASE MarkStale(p)
  <2>1. w' = [w EXCEPT ![p] = Returning("failed", "absent")]
    BY <1>12 DEF MarkStale, FailWith, Return
  <2>2. Good(Returning("failed", "absent"))
    BY <1>3, <1>4, ReturningCall DEF Good
  <2> QED BY <2>1, <2>2
<1>13. CASE Poll(p)
  <2>1. \/ w' = [w EXCEPT ![p] = [w[p] EXCEPT !.pc = "received", !.main = Report.answer,
                                             !.polled = FALSE]]
        \/ w' = [w EXCEPT ![p] = [w[p] EXCEPT !.pc = "emptied", !.polled = FALSE]]
        \/ /\ Normalized(Report) \in {"failed", "cancelled", "timeout"}
           /\ w' = [w EXCEPT ![p] = [w[p] EXCEPT !.pc = "ended", !.polled = FALSE,
                                                !.status = Normalized(Report)]]
        \/ w' = [w EXCEPT ![p] = [w[p] EXCEPT !.polled = TRUE]]
    BY <1>5, <1>13 DEF Poll
  <2>2. Good([w[p] EXCEPT !.pc = "received", !.main = Report.answer, !.polled = FALSE])
    BY <1>1, <1>5 DEF Good, Calls, CallInv, PCs, UpdatePoints
  <2>3. Good([w[p] EXCEPT !.pc = "emptied", !.polled = FALSE])
    BY <1>1 DEF Good, Calls, CallInv, PCs, UpdatePoints
  <2>4. \A s \in {"failed", "cancelled", "timeout"} :
          Good([w[p] EXCEPT !.pc = "ended", !.polled = FALSE, !.status = s])
    BY <1>1 DEF Good, Calls, CallInv, PCs, UpdatePoints
  <2>5. Good([w[p] EXCEPT !.polled = TRUE])
    BY <1>1 DEF Good, Calls, CallInv
  <2> QED BY <2>1, <2>2, <2>3, <2>4, <2>5
<1>14. CASE Deadline(p)
  <2>1. w' = [w EXCEPT ![p] = Returning("running", "absent")]
    BY <1>14 DEF Deadline, Return
  <2>2. Good(Returning("running", "absent"))
    BY <1>3, <1>4, ReturningCall DEF Good
  <2> QED BY <2>1, <2>2
<1>15. CASE MarkEmptied(p)
  <2>1. w' = [w EXCEPT ![p] = Returning("failed", "absent")]
    BY <1>15 DEF MarkEmptied, FailWith, Return
  <2>2. Good(Returning("failed", "absent"))
    BY <1>3, <1>4, ReturningCall DEF Good
  <2> QED BY <2>1, <2>2
<1>16. CASE MarkEnded(p)
  <2>1. w' = [w EXCEPT ![p] = Returning("failed", "absent")]
    BY <1>16 DEF MarkEnded, FailWith, Return
  <2>2. Good(Returning("failed", "absent"))
    BY <1>3, <1>4, ReturningCall DEF Good
  <2> QED BY <2>1, <2>2
<1>17. CASE MarkReceived(p)
  <2>1. \/ w' = [w EXCEPT ![p] = [w[p] EXCEPT !.tmp = NoRecord, !.pc = "emptied"]]
        \/ w' = [w EXCEPT ![p] = [w[p] EXCEPT !.tmp = NoRecord, !.pc = "open"]]
    BY <1>17 DEF MarkReceived, Advance
  <2> QED BY <2>1, <1>1, GotoCall DEF Good, PCs, UpdatePoints
<1>18. CASE OpenArtifact(p)
  <2>1. w' = [w EXCEPT ![p] = [w[p] EXCEPT !.pc = "write"]]
    BY <1>18 DEF OpenArtifact, Goto
  <2>2. Good([w[p] EXCEPT !.pc = "write"])
    BY <1>1, GotoCall DEF Good, PCs, UpdatePoints
  <2> QED BY <2>1, <2>2
<1>19. CASE WriteArtifact(p)
  <2>1. w' = [w EXCEPT ![p] = [w[p] EXCEPT !.pc = "open_meta"]]
    BY <1>19 DEF WriteArtifact, Goto
  <2>2. Good([w[p] EXCEPT !.pc = "open_meta"])
    BY <1>1, GotoCall DEF Good, PCs, UpdatePoints
  <2> QED BY <2>1, <2>2
<1>20. CASE OpenMeta(p)
  <2>1. w' = [w EXCEPT ![p] = [w[p] EXCEPT !.pc = "write_meta"]]
    BY <1>20 DEF OpenMeta, Goto
  <2>2. Good([w[p] EXCEPT !.pc = "write_meta"])
    BY <1>1, GotoCall DEF Good, PCs, UpdatePoints
  <2> QED BY <2>1, <2>2
<1>21. CASE WriteMeta(p)
  <2>1. w' = [w EXCEPT ![p] = [w[p] EXCEPT !.pc = "check"]]
    BY <1>21 DEF WriteMeta, Goto
  <2>2. Good([w[p] EXCEPT !.pc = "check"])
    BY <1>1, GotoCall DEF Good, PCs, UpdatePoints
  <2> QED BY <2>1, <2>2
<1>22. CASE CheckPrimary(p)
  <2>1. \/ w' = [w EXCEPT ![p] = [w[p] EXCEPT !.pc = "stale"]]
        \/ w' = [w EXCEPT ![p] = Returning("completed", w[p].snap.result)]
        \/ w' = [w EXCEPT ![p] = [w[p] EXCEPT !.pc = "prompting", !.snap = NoRecord]]
    BY <1>22 DEF CheckPrimary, Goto, Return
  <2>2. Good([w[p] EXCEPT !.pc = "prompting", !.snap = NoRecord])
    BY <1>1 DEF Good, Calls, CallInv, PCs, UpdatePoints
  <2> QED BY <2>1, <2>2, <1>1, <1>3, GotoCall, ReturningCall DEF Good, PCs, UpdatePoints
<1>23. CASE MarkPrompting(p)
  <2>1. w' = [w EXCEPT ![p] = [w[p] EXCEPT !.tmp = NoRecord, !.pc = "send"]]
    BY <1>23 DEF MarkPrompting, Advance
  <2>2. Good([w[p] EXCEPT !.tmp = NoRecord, !.pc = "send"])
    BY <1>1, GotoCall DEF Good, PCs, UpdatePoints
  <2> QED BY <2>1, <2>2
<1>24. CASE SendSummaryPrompt(p)
  <2>1. w' = [w EXCEPT ![p] = [w[p] EXCEPT !.pc = "summary_poll"]]
    BY <1>24 DEF SendSummaryPrompt, Goto
  <2>2. Good([w[p] EXCEPT !.pc = "summary_poll"])
    BY <1>1, GotoCall DEF Good, PCs, UpdatePoints
  <2> QED BY <2>1, <2>2
<1>25. CASE SendFails(p)
  <2>1. w' = [w EXCEPT ![p] = [w[p] EXCEPT !.pc = "fallback"]]
    BY <1>25 DEF SendFails, Goto
  <2>2. Good([w[p] EXCEPT !.pc = "fallback"])
    BY <1>1, GotoCall DEF Good, PCs, UpdatePoints
  <2> QED BY <2>1, <2>2
<1>26. CASE SaveFallback(p)
  <2>1. w' = [w EXCEPT ![p] = [w[p] EXCEPT !.pc = "finishing", !.ctl = Fallback(w[p].main)]]
    BY <1>26 DEF SaveFallback
  <2>2. Good([w[p] EXCEPT !.pc = "finishing", !.ctl = Fallback(w[p].main)])
    BY <1>1, <1>8 DEF Good, Calls, CallInv, PCs, UpdatePoints
  <2> QED BY <2>1, <2>2
<1>27. CASE SummaryPoll(p)
  <2>1. \/ w' = [w EXCEPT ![p] = [w[p] EXCEPT !.pc = "answered", !.text = NoText]]
        \/ w' = [w EXCEPT ![p] = [w[p] EXCEPT !.pc = "answered", !.text = Report.answer]]
    BY <1>27 DEF SummaryPoll
  <2>2. \A t \in {NoText, Report.answer} :
          Good([w[p] EXCEPT !.pc = "answered", !.text = t])
    BY <1>1, <1>5 DEF Good, Calls, CallInv, PCs, UpdatePoints, Answers
  <2> QED BY <2>1, <2>2
<1>28. CASE SummaryDeadline(p)
  <2>1. w' = [w EXCEPT ![p] = [w[p] EXCEPT !.pc = "answered", !.text = NoText]]
    BY <1>28 DEF SummaryDeadline
  <2>2. Good([w[p] EXCEPT !.pc = "answered", !.text = NoText])
    BY <1>1 DEF Good, Calls, CallInv, PCs, UpdatePoints, Answers
  <2> QED BY <2>1, <2>2
<1>29. CASE MarkAnswered(p)
  <2>1. CASE Parsed[w[p].text] = "invalid"
    <3>1. w' = [w EXCEPT ![p] = [w[p] EXCEPT !.tmp = NoRecord, !.pc = "unparsed",
                                             !.ctl = Fallback(w[p].main)]]
      BY <2>1, <1>29 DEF MarkAnswered
    <3>2. Good([w[p] EXCEPT !.tmp = NoRecord, !.pc = "unparsed",
                            !.ctl = Fallback(w[p].main)])
      BY <1>1, <1>7, <1>8 DEF Good, Calls, CallInv, PCs, UpdatePoints
    <3> QED BY <3>1, <3>2
  <2>2. CASE Parsed[w[p].text] # "invalid"
    <3>1. w' = [w EXCEPT ![p] = [w[p] EXCEPT !.tmp = NoRecord, !.pc = "save_summary",
                                             !.ctl = Parsed[w[p].text]]]
      BY <2>2, <1>29 DEF MarkAnswered
    <3>2. Good([w[p] EXCEPT !.tmp = NoRecord, !.pc = "save_summary",
                            !.ctl = Parsed[w[p].text]])
      BY <2>2, <1>1, <1>7, <1>8 DEF Good, Calls, CallInv, PCs
    <3> QED BY <3>1, <3>2
  <2> QED BY <2>1, <2>2
<1>30. CASE MarkUnparsed(p)
  <2>1. w' = [w EXCEPT ![p] = [w[p] EXCEPT !.tmp = NoRecord, !.pc = "save_summary"]]
    BY <1>30 DEF MarkUnparsed, Advance, Loaded, At
  <2>2. Good([w[p] EXCEPT !.tmp = NoRecord, !.pc = "save_summary"])
    BY <1>1, <1>7, <1>30 DEF Good, Calls, CallInv, PCs, MarkUnparsed, Advance, Loaded, At
  <2> QED BY <2>1, <2>2
<1>31. CASE SaveSummary(p)
  <2>1. w' = [w EXCEPT ![p] = [w[p] EXCEPT !.pc = "stored"]]
    BY <1>31 DEF SaveSummary, Goto
  <2>2. Good([w[p] EXCEPT !.pc = "stored"])
    BY <1>1, <1>31 DEF Good, Calls, CallInv, PCs, UpdatePoints, SaveSummary, At
  <2> QED BY <2>1, <2>2
<1>32. CASE MarkStored(p)
  <2>1. w' = [w EXCEPT ![p] = [w[p] EXCEPT !.tmp = NoRecord, !.pc = "finishing"]]
    BY <1>32 DEF MarkStored, Advance
  <2>2. Good([w[p] EXCEPT !.tmp = NoRecord, !.pc = "finishing"])
    BY <1>1, <1>7, <1>32 DEF Good, Calls, CallInv, PCs, UpdatePoints, MarkStored, Advance,
         Loaded, At
  <2> QED BY <2>1, <2>2
<1>33. CASE MarkCompleted(p)
  <2>1. w' = [w EXCEPT ![p] = Returning("completed", w[p].ctl)]
    BY <1>33 DEF MarkCompleted, Return
  <2>2. Good(Returning("completed", w[p].ctl))
    BY <1>3, <1>4, ReturningCall DEF Good
  <2> QED BY <2>1, <2>2
<1>34. CASE Reply(p)
  <2>1. w' = [w EXCEPT ![p] = Idle]
    BY <1>34 DEF Reply
  <2>2. Good(Idle)
    BY IdleCall DEF Good
  <2> QED BY <2>1, <2>2
<1>35. CASE PollFails(p)
  <2>1. w' = [w EXCEPT ![p] = Idle]
    BY <1>35 DEF PollFails, Abort
  <2>2. Good(Idle)
    BY IdleCall DEF Good
  <2> QED BY <2>1, <2>2
<1>36. CASE PollFindsNothing(p)
  <2>1. w' = [w EXCEPT ![p] = [w[p] EXCEPT !.polled = TRUE]]
    BY <1>36 DEF PollFindsNothing
  <2>2. Good([w[p] EXCEPT !.polled = TRUE])
    BY <1>1 DEF Good, Calls, CallInv
  <2> QED BY <2>1, <2>2
<1>37. CASE Crash(p)
  <2>1. w' = [w EXCEPT ![p] = Idle]
    BY <1>37 DEF Crash, Abort
  <2>2. Good(Idle)
    BY IdleCall DEF Good
  <2> QED BY <2>1, <2>2
<1> QED
  BY <1>9, <1>10, <1>11, <1>12, <1>13, <1>14, <1>15, <1>16, <1>17, <1>18, <1>19,
     <1>20, <1>21, <1>22, <1>23, <1>24, <1>25, <1>26, <1>27, <1>28, <1>29, <1>30,
     <1>31, <1>32, <1>33, <1>34, <1>35, <1>36, <1>37
  DEF Step, Fault

-------------------------------------------------------------------------------
(* What a step does to the shared state.                                   *)

(* A save writes back the copy it was loaded into, changed in one of three *)
(* ways.                                                                   *)
LEMMA RecordStep ==
  ASSUME IInv, NEW p \in Waiters, Enter(p) \/ Step(p) \/ Fault(p)
  PROVE  \/ rec' = rec
         \/ /\ w[p].tmp \in Records
            /\ \/ \E l \in Lifecycles : rec' = [w[p].tmp EXCEPT !.lifecycle = l]
               \/ \E l \in Lifecycles, s \in {"failed", "cancelled", "timeout"} :
                    rec' = [w[p].tmp EXCEPT !.status = s, !.lifecycle = l]
               \/ /\ w[p].ctl \in Actions /\ Backed(w[p].ctl, conv.said)
                  /\ rec' = [w[p].tmp EXCEPT !.status = "completed",
                                             !.lifecycle = "completed", !.result = w[p].ctl]
<1>1. w[p] \in Calls /\ CallInv(w[p], conv.said)
  BY DEF IInv, TypeOK
<1>2. w[p].tmp # NoRecord => w[p].tmp \in Records
  BY <1>1 DEF Calls
<1>3. CASE MarkStale(p) \/ MarkEmptied(p)
  BY <1>2, <1>3 DEF MarkStale, MarkEmptied, FailWith, Loaded, update_role_run, Lifecycles
<1>4. CASE MarkEnded(p)
  <2>1. w[p].status \in {"failed", "cancelled", "timeout"}
    BY <1>1, <1>4 DEF MarkEnded, FailWith, Loaded, At, CallInv, Calls
  <2> QED BY <1>2, <1>4, <2>1 DEF MarkEnded, FailWith, Loaded, update_role_run, Lifecycles
<1>5. CASE MarkReceived(p) \/ MarkPrompting(p) \/ MarkUnparsed(p) \/ MarkStored(p)
  BY <1>2, <1>5 DEF MarkReceived, MarkPrompting, MarkUnparsed, MarkStored, Advance,
     Loaded, update_role_run, Lifecycles
<1>6. CASE MarkAnswered(p)
  BY <1>2, <1>6 DEF MarkAnswered, Loaded, update_role_run, Lifecycles
<1>7. CASE MarkCompleted(p)
  <2>1. w[p].ctl \in Actions /\ Backed(w[p].ctl, conv.said)
    BY <1>1, <1>7 DEF MarkCompleted, Loaded, At, CallInv, Calls, Results
  <2> QED BY <1>2, <1>7, <2>1 DEF MarkCompleted, Loaded, update_role_run
<1>8. CASE UNCHANGED rec
  BY <1>8
<1>9. \/ UNCHANGED rec
      \/ MarkStale(p) \/ MarkEmptied(p) \/ MarkEnded(p) \/ MarkReceived(p)
      \/ MarkPrompting(p) \/ MarkUnparsed(p) \/ MarkStored(p) \/ MarkAnswered(p)
      \/ MarkCompleted(p)
  BY DEF Step, Fault, Enter, LoadRecord, Revalidate, Poll, Deadline, OpenArtifact,
     WriteArtifact, OpenMeta, WriteMeta, CheckPrimary, SendSummaryPrompt, SaveFallback,
     SummaryPoll, SummaryDeadline, SaveSummary, Reply, SendFails, PollFails,
     PollFindsNothing, Crash, Abort
<1> QED BY <1>3, <1>4, <1>5, <1>6, <1>7, <1>8, <1>9

(* A call changes nothing of what the agent has said.                      *)
LEMMA ConversationStep ==
  ASSUME IInv, NEW p \in Waiters, Enter(p) \/ Step(p) \/ Fault(p)
  PROVE  conv' \in Conversations /\ conv'.said = conv.said /\ conv'.answer = conv.answer
<1>1. conv \in Conversations
  BY DEF IInv, TypeOK
<1>2. /\ Deliver(conv) \in Conversations
      /\ Deliver(conv).said = conv.said /\ Deliver(conv).answer = conv.answer
  <2>1. CASE PromptRestarts
    BY <1>1, <2>1 DEF Deliver, Conversations, ExecutionStatuses
  <2>2. CASE ~PromptRestarts
    BY <1>1, <2>2 DEF Deliver, Conversations
  <2> QED BY <2>1, <2>2
<1>3. conv' = conv \/ conv' = Deliver(conv)
  BY DEF Step, Fault, Enter, LoadRecord, Revalidate, Poll, Deadline, OpenArtifact,
     WriteArtifact, OpenMeta, WriteMeta, CheckPrimary, SendSummaryPrompt, SaveFallback,
     SummaryPoll, SummaryDeadline, SaveSummary, Reply, SendFails, PollFails,
     PollFindsNothing, Crash, Abort, MarkStale, MarkEmptied, MarkEnded, FailWith,
     MarkReceived, MarkPrompting, MarkUnparsed, MarkStored, Advance, MarkAnswered,
     MarkCompleted, update_role_run
<1> QED BY <1>1, <1>2, <1>3

(* The artifacts, the responses and the count of faults keep their types.  *)
LEMMA RestTypes ==
  ASSUME IInv, NEW p \in Waiters, Enter(p) \/ Step(p) \/ Fault(p)
  PROVE  /\ primary' \in [content : Answers, meta : BOOLEAN]
         /\ summary' \in Answers \cup {FallbackText}
         /\ resp' \in [Waiters -> Replies]
         /\ faults' \in 0..MaxFaults
<1>1. /\ w[p].main \in Answers /\ w[p].text \in Answers /\ w[p].reply \in Replies
      /\ primary \in [content : Answers, meta : BOOLEAN]
      /\ summary \in Answers \cup {FallbackText}
      /\ resp \in [Waiters -> Replies]
      /\ faults \in 0..MaxFaults
  BY DEF IInv, TypeOK, Calls
<1>2. [status |-> "error", result |-> "absent"] \in Replies /\ NoText \in Answers
  BY DEF Replies, Results, Answers
<1>3. CASE OpenArtifact(p) \/ WriteArtifact(p) \/ OpenMeta(p) \/ WriteMeta(p)
  BY <1>1, <1>2, <1>3 DEF OpenArtifact, WriteArtifact, OpenMeta, WriteMeta
<1>4. CASE SaveFallback(p) \/ SaveSummary(p)
  BY <1>1, <1>4 DEF SaveFallback, SaveSummary
<1>5. CASE Reply(p)
  BY <1>1, <1>5 DEF Reply
<1>6. CASE PollFails(p) \/ Crash(p)
  BY <1>1, <1>2, <1>6, RoleWaitAssumption DEF PollFails, Crash, Abort
<1>7. CASE SendFails(p) \/ PollFindsNothing(p)
  BY <1>1, <1>7, RoleWaitAssumption DEF SendFails, PollFindsNothing
<1>8. CASE UNCHANGED <<primary, summary, resp, faults>>
  BY <1>1, <1>8
<1> QED
  BY <1>3, <1>4, <1>5, <1>6, <1>7, <1>8 DEF Step, Fault, Enter, LoadRecord, Revalidate,
     Poll, Deadline, CheckPrimary, SendSummaryPrompt, SummaryPoll, SummaryDeadline,
     MarkStale, MarkEmptied, MarkEnded, FailWith, MarkReceived, MarkPrompting,
     MarkUnparsed, MarkStored, Advance, MarkAnswered, MarkCompleted, update_role_run

-------------------------------------------------------------------------------
(* The invariant and what follows from it.                                 *)

LEMMA InitIInv == Init => IInv
<1> SUFFICES ASSUME Init PROVE IInv
  OBVIOUS
<1>1. rec \in Records /\ HasResult(rec) /\ Backed(rec.result, conv.said)
  <2>1. StartedRun \in Records /\ UnstartedRuns \subseteq Records
    <3>1. StartedRun \in Records
      BY DEF StartedRun, Records, Statuses, Lifecycles, Results
    <3>2. ASSUME NEW s \in {"running", "starting"}
          PROVE  [status |-> s, lifecycle |-> "created", result |-> "absent",
                  job |-> FALSE] \in Records
      BY DEF Records, Statuses, Lifecycles, Results
    <3> QED BY <3>1, <3>2 DEF UnstartedRuns
  <2>2. rec.result = "absent" /\ rec.status \in {"running", "starting"}
    BY DEF Init, StartedRun, UnstartedRuns
  <2>3. rec \in Records
    BY <2>1 DEF Init
  <2> QED BY <2>1, <2>2, <2>3 DEF HasResult, Backed
<1>2. conv \in Conversations /\ conv.answer \in conv.said \cup {NoText}
  BY DEF Init, NewConversation, Conversations, ExecutionStatuses, Answers
<1>3. w \in [Waiters -> Calls] /\ \A p \in Waiters : CallInv(w[p], conv.said)
  BY IdleCall DEF Init
<1>4. /\ primary \in [content : Answers, meta : BOOLEAN]
      /\ summary \in Answers \cup {FallbackText}
      /\ resp \in [Waiters -> Replies]
      /\ faults \in 0..MaxFaults
  BY RoleWaitAssumption DEF Init, Answers, NoReply, Replies, Results
<1> QED BY <1>1, <1>2, <1>3, <1>4 DEF IInv, TypeOK

(* The agent only adds to what it has said.                                *)
LEMMA MoreSaid ==
  ASSUME NEW said, NEW more, said \subseteq more
  PROVE  /\ \A r : Backed(r, said) => Backed(r, more)
         /\ \A c : CallInv(c, said) => CallInv(c, more)
  BY DEF CallInv, Backed

LEMMA AgentIInv == IInv /\ Agent => IInv'
<1> SUFFICES ASSUME IInv, Agent PROVE IInv'
  OBVIOUS
<1>1. UNCHANGED <<rec, primary, summary, w, resp, faults>>
  BY DEF Agent, AgentEndsTurn, AgentStops, AgentTakesPrompt
<1>2. /\ conv' \in Conversations /\ conv.said \subseteq conv'.said
      /\ conv'.answer \in conv'.said \cup {NoText}
  <2>1. conv \in Conversations /\ conv.answer \in conv.said \cup {NoText}
    BY DEF IInv, TypeOK
  <2>2. CASE AgentEndsTurn
    <3>1. PICK e \in {"finished", "stuck"},
               t \in (IF conv.turn = "main" THEN MainTexts ELSE SummaryTexts)
                     \cup {conv.answer} :
            conv' = [conv EXCEPT !.exec = e, !.answer = t,
                                 !.said = @ \cup ({t} \ {NoText})]
      BY <2>2 DEF AgentEndsTurn
    <3>2. t \in Answers
      BY <2>1 DEF Conversations, Answers, Texts
    <3> QED BY <2>1, <3>1, <3>2 DEF Conversations, ExecutionStatuses, Answers
  <2>3. CASE AgentStops \/ AgentTakesPrompt
    BY <2>1, <2>3 DEF AgentStops, AgentTakesPrompt, Conversations, ExecutionStatuses
  <2> QED BY <2>2, <2>3 DEF Agent
<1>3. Backed(rec.result, conv'.said) /\ \A p \in Waiters : CallInv(w[p], conv'.said)
  BY <1>2, MoreSaid DEF IInv
<1> QED BY <1>1, <1>2, <1>3 DEF IInv, TypeOK, HasResult, Backed, CallInv

LEMMA CallIInv ==
  ASSUME IInv, NEW p \in Waiters, Enter(p) \/ Step(p) \/ Fault(p)
  PROVE  IInv'
<1>1. PICK c \in Calls : CallInv(c, conv.said) /\ w' = [w EXCEPT ![p] = c]
  BY OwnCall
<1>2. w' \in [Waiters -> Calls] /\ \A q \in Waiters : CallInv(w'[q], conv.said)
  BY <1>1 DEF IInv, TypeOK
<1>3. rec' \in Records /\ HasResult(rec') /\ Backed(rec'.result, conv.said)
  <2>1. CallInv(w[p], conv.said)
    BY DEF IInv
  <2>2. CASE rec' = rec
    BY <2>2 DEF IInv, TypeOK
  <2>3. CASE w[p].tmp \in Records /\ \E l \in Lifecycles : rec' = [w[p].tmp EXCEPT !.lifecycle = l]
    BY <2>1, <2>3 DEF CallInv, Records, HasResult
  <2>4. CASE /\ w[p].tmp \in Records
             /\ \E l \in Lifecycles, s \in {"failed", "cancelled", "timeout"} :
                  rec' = [w[p].tmp EXCEPT !.status = s, !.lifecycle = l]
    BY <2>1, <2>4 DEF CallInv, Records, Statuses, HasResult
  <2>5. CASE /\ w[p].tmp \in Records
             /\ w[p].ctl \in Actions /\ Backed(w[p].ctl, conv.said)
             /\ rec' = [w[p].tmp EXCEPT !.status = "completed", !.lifecycle = "completed",
                                        !.result = w[p].ctl]
    <3>1. rec'.result = w[p].ctl
      BY <2>5 DEF Records
    <3>2. w[p].ctl # "absent" /\ w[p].ctl \in Results
      BY <2>5 DEF Actions, Results
    <3> QED BY <2>5, <3>1, <3>2 DEF Records, Statuses, Lifecycles, HasResult
  <2> QED BY RecordStep, <2>2, <2>3, <2>4, <2>5
<1>4. conv' \in Conversations /\ conv'.said = conv.said /\ conv'.answer = conv.answer
  BY ConversationStep
<1>5. conv.answer \in conv.said \cup {NoText}
  BY DEF IInv
<1> QED BY <1>2, <1>3, <1>4, <1>5, RestTypes DEF IInv, TypeOK, HasResult, Backed, CallInv

THEOREM Invariance == Spec => []IInv
<1>1. IInv /\ [Next]_vars => IInv'
  <2> SUFFICES ASSUME IInv, [Next]_vars PROVE IInv'
    OBVIOUS
  <2>1. CASE Agent
    BY <2>1, AgentIInv
  <2>2. CASE \E p \in Waiters : Enter(p) \/ Step(p) \/ Fault(p)
    BY <2>2, CallIInv
  <2>3. CASE UNCHANGED vars
    BY <2>3 DEF vars, IInv, TypeOK, CallInv, HasResult, Backed
  <2> QED BY <2>1, <2>2, <2>3 DEF Next
<1> QED BY InitIInv, <1>1, PTL DEF Spec

(* The variables keep their types, whatever the number of calls.           *)
THEOREM TypeCorrect == Spec => []TypeOK
<1>1. IInv => TypeOK
  BY DEF IInv
<1> QED BY <1>1, Invariance, PTL

(* A run recorded as completed has a control summary, for every number of  *)
(* concurrent calls, crashes and HTTP errors.                              *)
THEOREM CompletionCarriesResult == Spec => []CompletedHasResult
<1>1. IInv => CompletedHasResult
  BY DEF IInv, HasResult, CompletedHasResult
<1> QED BY <1>1, Invariance, PTL

(* No run is recorded with PASS unless the agent said so, for every number *)
(* of concurrent calls, crashes and HTTP errors, and every parser.         *)
THEOREM PassIsTheAgents == Spec => []PassOnlyFromAgent
<1>1. IInv => PassOnlyFromAgent
  BY DEF IInv, Backed, PassOnlyFromAgent
<1> QED BY <1>1, Invariance, PTL

-------------------------------------------------------------------------------
(***************************************************************************)
(* What holds of role_wait when the calls on a run do not overlap: the     *)
(* MCP server executes one call at a time.  However the calls are aborted  *)
(* and repeated, they implement the abstract run of RoleRun; without       *)
(* faults the report is the answer to the role's own prompt; and without   *)
(* crashes a completion that was reported is true.  For all answers and    *)
(* parsers, any number of calls and of faults.                             *)
(***************************************************************************)

CONSTANT p     \* the only call of role_wait

OneCall == Waiters = {p}

-------------------------------------------------------------------------------
(* The inductive invariant.  The only call that writes holds a current     *)
(* copy of the record; it works on the run only while that is undecided;   *)
(* and from the check on the report is there.                              *)
Undecided == rec.status \notin {"completed", "failed"}
Working == PCs \ {"idle", "revalidate", "reply"}
Prompting == {"prompting", "send", "fallback", "summary_poll", "answered", "unparsed",
              "save_summary", "stored", "finishing"}

CurrentCopy == w[p].tmp \in {NoRecord, rec}
OpenRun ==
  /\ w[p].pc \in Working => Undecided
  /\ w[p].pc = "revalidate" => rec.status = "completed" /\ w[p].snap = rec
ReportThere ==
  /\ w[p].pc \in Prompting => Readable
  /\ rec.status = "completed" => Readable
ReportSaid == primary.content \in conv.said \cup {NoText}

CallInvOne == CurrentCopy /\ OpenRun /\ ReportThere /\ ReportSaid

IInvOne == IInv /\ CallInvOne

-------------------------------------------------------------------------------
LEMMA TheCall ==
  ASSUME OneCall, IInv
  PROVE  /\ p \in Waiters /\ DOMAIN w = Waiters /\ w[p] \in Calls /\ w[p].pc \in PCs
         /\ CallInv(w[p], conv.said)
         /\ rec \in Records /\ rec # NoRecord
         /\ primary \in [content : Answers, meta : BOOLEAN]
         /\ rec.status = "completed" => rec.result # "absent"
<1>1. p \in Waiters /\ w \in [Waiters -> Calls]
  BY DEF OneCall, IInv, TypeOK
<1>2. rec # NoRecord
  BY DEF IInv, TypeOK, Records, NoRecord, Statuses
<1> QED BY <1>1, <1>2 DEF IInv, TypeOK, HasResult, Calls

(* Where the record and the report stay as they are, the call's point and  *)
(* copy decide.                                                            *)
LEMMA Kept ==
  ASSUME IInvOne, UNCHANGED <<rec, primary>>, conv.said \subseteq conv'.said,
         w'[p].tmp \in {NoRecord, rec},
         w'[p].pc \in Working => Undecided,
         w'[p].pc = "revalidate" => rec.status = "completed" /\ w'[p].snap = rec,
         w'[p].pc \in Prompting => Readable
  PROVE  CallInvOne'
<1>1. ReportThere /\ ReportSaid
  BY DEF IInvOne, CallInvOne
<1>2. CurrentCopy' /\ OpenRun'
  BY DEF CurrentCopy, OpenRun, Undecided
<1>3. ReportThere' /\ ReportSaid'
  BY <1>1 DEF ReportThere, ReportSaid, Readable
<1> QED BY <1>2, <1>3 DEF CallInvOne

(* Steps that only read, and those that write what nobody reads back.      *)
Reading ==
  \/ Enter(p) \/ LoadRecord(p) \/ Revalidate(p) \/ Poll(p) \/ Deadline(p)
  \/ CheckPrimary(p) \/ SendSummaryPrompt(p) \/ SaveFallback(p) \/ SummaryPoll(p)
  \/ SummaryDeadline(p) \/ SaveSummary(p) \/ Reply(p) \/ Fault(p)

LEMMA ReadingStep ==
  ASSUME OneCall, IInvOne, Reading
  PROVE  CallInvOne' /\ UNCHANGED <<rec, primary>> /\ conv'.said = conv.said
<1>1. /\ p \in Waiters /\ DOMAIN w = Waiters /\ w[p] \in Calls /\ rec \in Records
      /\ rec.status = "completed" => rec.result # "absent"
  BY TheCall DEF IInvOne
<1>2. CurrentCopy /\ OpenRun /\ ReportThere
  BY DEF IInvOne, CallInvOne
<1>3. UNCHANGED <<rec, primary>> /\ conv'.said = conv.said
  <2>1. Enter(p) \/ Step(p) \/ Fault(p)
    BY DEF Reading, Step
  <2>2. conv'.said = conv.said
    BY <1>1, <2>1, ConversationStep DEF IInvOne
  <2>3. UNCHANGED <<rec, primary>>
    BY DEF Reading, Fault, LoadRecord, Revalidate, Poll, Deadline, CheckPrimary, SummaryPoll,
       SummaryDeadline, Reply, Enter, SaveFallback, SaveSummary, SendSummaryPrompt, SendFails,
       PollFails, PollFindsNothing, Crash, Abort
  <2> QED BY <2>2, <2>3
<1>4. /\ Idle.tmp = NoRecord /\ Idle.pc = "idle"
      /\ \A s, r : Returning(s, r).tmp = NoRecord /\ Returning(s, r).pc = "reply"
  BY DEF Idle, Returning
<1>5. {"idle", "reply", "revalidate"} \cap Working = {} /\ Prompting \subseteq Working
      /\ {"idle", "reply", "revalidate"} \cap Prompting = {}
  BY DEF Working, Prompting, PCs, UpdatePoints
<1>6. w[p].tmp \in {NoRecord, rec}
  BY <1>2 DEF CurrentCopy
<1>7. w[p].pc \in Working => Undecided
  BY <1>2 DEF OpenRun
<1>8. w[p].pc \in Prompting => Readable
  BY <1>2 DEF ReportThere
<1> DEFINE Good(c) ==
     /\ c.tmp \in {NoRecord, rec}
     /\ c.pc \in Working => Undecided
     /\ c.pc = "revalidate" => rec.status = "completed" /\ c.snap = rec
     /\ c.pc \in Prompting => Readable
<1>9. Good(Idle) /\ \A s, r : Good(Returning(s, r))
  BY <1>4, <1>5
<1> SUFFICES Good(w'[p])
  BY <1>3, Kept
<1>10. CASE Enter(p)
  <2> DEFINE call == [Idle EXCEPT !.snap = rec]
  <2>1. \/ w'[p] = Returning("failed", "absent")
        \/ w'[p] = [call EXCEPT !.pc = "revalidate"] /\ rec.status = "completed"
        \/ w'[p] = [call EXCEPT !.pc = "poll"] /\ Undecided
    BY <1>1, <1>10 DEF Enter, Return, AlreadyCompleted, NotRunnable, Undecided
  <2>2. /\ [call EXCEPT !.pc = "revalidate"].snap = rec
        /\ \A x \in {"revalidate", "poll"} :
             [call EXCEPT !.pc = x].tmp = NoRecord /\ [call EXCEPT !.pc = x].pc = x
    BY DEF Idle
  <2>3. "poll" \notin Prompting /\ "poll" # "revalidate"
    BY DEF Prompting
  <2> HIDE DEF call
  <2>4. CASE w'[p] = [call EXCEPT !.pc = "revalidate"] /\ rec.status = "completed"
    <3>1. /\ w'[p].tmp = NoRecord /\ w'[p].snap = rec
          /\ w'[p].pc \notin Working /\ w'[p].pc \notin Prompting
      BY <1>5, <2>2, <2>4
    <3> QED BY <2>4, <3>1
  <2>5. CASE w'[p] = [call EXCEPT !.pc = "poll"] /\ Undecided
    <3>1. w'[p].tmp = NoRecord /\ w'[p].pc \notin Prompting /\ w'[p].pc # "revalidate"
      BY <2>2, <2>3, <2>5
    <3> QED BY <2>5, <3>1
  <2> QED BY <1>9, <2>1, <2>4, <2>5
<1>11. CASE LoadRecord(p)
  <2>1. w'[p] = [w[p] EXCEPT !.tmp = rec]
    BY <1>1, <1>11 DEF LoadRecord
  <2>2. w'[p].tmp = rec /\ w'[p].pc = w[p].pc /\ w'[p].snap = w[p].snap
    BY <1>1, <2>1 DEF Calls
  <2> QED BY <1>2, <1>7, <1>8, <2>2 DEF OpenRun
<1>12. CASE Revalidate(p)
  <2>1. Readable
    BY <1>2, <1>12 DEF Revalidate, At, OpenRun, ReportThere
  <2>2. w'[p] = Returning("completed", w[p].snap.result)
    BY <1>1, <1>12, <2>1 DEF Revalidate, Return
  <2> QED BY <1>9, <2>2
<1>13. CASE Poll(p) \/ PollFindsNothing(p)
  <2>1. w[p].pc = "poll"
    BY <1>13 DEF Poll, PollFindsNothing, At
  <2>2. w'[p].tmp = w[p].tmp /\ w'[p].pc \in {"poll", "received", "emptied", "ended"}
    BY <1>1, <1>13, <2>1 DEF Poll, PollFindsNothing, Calls
  <2>3. Undecided
    BY <1>7, <2>1 DEF Working, PCs
  <2>4. {"poll", "received", "emptied", "ended"} \cap (Prompting \cup {"revalidate"}) = {}
    BY DEF Prompting
  <2> QED BY <1>6, <2>2, <2>3, <2>4
<1>14. CASE CheckPrimary(p)
  <2>1. Undecided
    BY <1>7, <1>14 DEF CheckPrimary, At, Working, PCs
  <2>2. CASE w'[p] = Returning("completed", w[p].snap.result)
    BY <1>9, <2>2
  <2>3. CASE w'[p] = [w[p] EXCEPT !.pc = "stale"]
    <3>1. w'[p].tmp = w[p].tmp /\ w'[p].pc = "stale"
      BY <1>1, <2>3 DEF Calls
    <3> QED BY <1>6, <2>1, <3>1 DEF Prompting
  <2>4. CASE w'[p] = [w[p] EXCEPT !.pc = "prompting", !.snap = NoRecord] /\ Readable
    <3>1. w'[p].tmp = w[p].tmp /\ w'[p].pc = "prompting"
      BY <1>1, <2>4 DEF Calls
    <3> QED BY <1>6, <2>1, <2>4, <3>1
  <2> QED BY <1>1, <1>14, <2>2, <2>3, <2>4 DEF CheckPrimary, Goto, Return
<1>15. CASE \/ SendSummaryPrompt(p) \/ SendFails(p) \/ SaveFallback(p) \/ SummaryPoll(p)
            \/ SummaryDeadline(p) \/ SaveSummary(p)
  <2>1. w[p].pc \in {"send", "fallback", "summary_poll", "save_summary"}
    BY <1>15 DEF SendSummaryPrompt, SendFails, SaveFallback, SummaryPoll, SummaryDeadline,
       SaveSummary, At
  <2>2. /\ w'[p].tmp = w[p].tmp
        /\ w'[p].pc \in {"summary_poll", "fallback", "finishing", "answered", "stored"}
    BY <1>1, <1>15 DEF SendSummaryPrompt, SendFails, SaveFallback, SummaryPoll,
       SummaryDeadline, SaveSummary, Goto, Calls
  <2>3. Undecided /\ Readable
    BY <1>5, <1>7, <1>8, <2>1 DEF Prompting
  <2> QED BY <1>6, <2>2, <2>3
<1>16. CASE Deadline(p)
  BY <1>1, <1>9, <1>16 DEF Deadline, Return
<1>17. CASE Reply(p) \/ PollFails(p) \/ Crash(p)
  BY <1>1, <1>9, <1>17 DEF Reply, PollFails, Crash, Abort
<1> QED BY <1>10, <1>11, <1>12, <1>13, <1>14, <1>15, <1>16, <1>17 DEF Reading, Fault

(* The report is written while the run is undecided, from an answer that   *)
(* the agent gave.                                                         *)
Writing == OpenArtifact(p) \/ WriteArtifact(p) \/ OpenMeta(p) \/ WriteMeta(p)

LEMMA WritingStep ==
  ASSUME OneCall, IInvOne, Writing
  PROVE  CallInvOne' /\ Undecided /\ UNCHANGED <<rec, conv, resp, faults>>
<1>1. /\ DOMAIN w = Waiters /\ p \in Waiters /\ w[p] \in Calls
      /\ CallInv(w[p], conv.said) /\ primary \in [content : Answers, meta : BOOLEAN]
  BY TheCall DEF IInvOne
<1>2. CurrentCopy /\ OpenRun /\ ReportSaid
  BY DEF IInvOne, CallInvOne
<1>3. UNCHANGED <<rec, conv, resp, faults>>
  BY DEF Writing, OpenArtifact, WriteArtifact, OpenMeta, WriteMeta
<1>4. w[p].pc \in {"open", "write", "open_meta", "write_meta"}
  BY DEF Writing, OpenArtifact, WriteArtifact, OpenMeta, WriteMeta, At
<1>5. Undecided
  BY <1>2, <1>4 DEF OpenRun, Working, PCs
<1>6. /\ w'[p].tmp = w[p].tmp
      /\ w'[p].pc \in {"write", "open_meta", "write_meta", "check"}
  BY <1>1 DEF Writing, OpenArtifact, WriteArtifact, OpenMeta, WriteMeta, Goto, Calls
<1>7. primary'.content \in {primary.content, NoText, w[p].main}
  BY <1>1 DEF Writing, OpenArtifact, WriteArtifact, OpenMeta, WriteMeta
<1>8. w[p].main \in conv.said \cup {NoText}
  BY <1>1 DEF CallInv
<1>9. CurrentCopy'
  BY <1>2, <1>3, <1>6 DEF CurrentCopy
<1>10. OpenRun'
  BY <1>3, <1>5, <1>6 DEF OpenRun, Undecided
<1>11. ReportThere'
  BY <1>3, <1>5, <1>6 DEF ReportThere, Undecided, Prompting
<1>12. ReportSaid'
  BY <1>2, <1>3, <1>7, <1>8 DEF ReportSaid
<1> QED BY <1>3, <1>5, <1>9, <1>10, <1>11, <1>12 DEF CallInvOne

(* What an update does to a record that is still undecided: it fails it,   *)
(* moves its lifecycle on, or completes it.                                *)
Failing == MarkStale(p) \/ MarkEmptied(p) \/ MarkEnded(p)
Advancing ==
  MarkReceived(p) \/ MarkPrompting(p) \/ MarkAnswered(p) \/ MarkUnparsed(p) \/ MarkStored(p)

LEMMA UpdateStep ==
  ASSUME OneCall, IInvOne, Failing \/ Advancing \/ MarkCompleted(p)
  PROVE  /\ CallInvOne' /\ Undecided /\ UNCHANGED <<primary, conv, resp, faults>>
         /\ Failing => /\ rec'.status \in {"failed", "cancelled", "timeout"}
                       /\ w'[p] = Returning("failed", "absent")
         /\ Advancing => rec'.status = rec.status
         /\ MarkCompleted(p) => /\ rec'.status = "completed" /\ rec'.result = w[p].ctl
                                /\ w'[p] = Returning("completed", w[p].ctl)
                                /\ w[p].ctl \in Actions /\ Backed(w[p].ctl, conv.said)
                                /\ Readable
<1>1. /\ DOMAIN w = Waiters /\ p \in Waiters /\ w[p] \in Calls
      /\ CallInv(w[p], conv.said) /\ rec \in Records
  BY TheCall DEF IInvOne
<1>2. CurrentCopy /\ OpenRun /\ ReportThere /\ ReportSaid
  BY DEF IInvOne, CallInvOne
<1>3. UNCHANGED <<primary, conv, resp, faults>>
  BY DEF Failing, Advancing, MarkStale, MarkEmptied, MarkEnded, FailWith, MarkReceived,
     MarkPrompting, MarkAnswered, MarkUnparsed, MarkStored, MarkCompleted, Advance,
     update_role_run
<1>4. w[p].pc \in UpdatePoints /\ w[p].tmp # NoRecord
  BY DEF Failing, Advancing, MarkStale, MarkEmptied, MarkEnded, FailWith, MarkReceived,
     MarkPrompting, MarkAnswered, MarkUnparsed, MarkStored, MarkCompleted, Advance,
     Loaded, At, UpdatePoints
<1>5. w[p].tmp = rec
  BY <1>2, <1>4 DEF CurrentCopy
<1>6. Undecided
  BY <1>2, <1>4 DEF OpenRun, Working, PCs, UpdatePoints
<1>7. ReportSaid'
  BY <1>2, <1>3 DEF ReportSaid
<1>8. \A s, r : /\ Returning(s, r).tmp = NoRecord /\ Returning(s, r).pc = "reply"
                /\ "reply" \notin Working /\ "reply" \notin Prompting
  BY DEF Idle, Returning, Working, Prompting
<1>9. CASE Failing
  <2>1. w'[p] = Returning("failed", "absent")
    BY <1>1, <1>9 DEF Failing, MarkStale, MarkEmptied, MarkEnded, FailWith, Return
  <2>2. rec'.status \in {"failed", "cancelled", "timeout"}
    <3>1. CASE MarkStale(p) \/ MarkEmptied(p)
      BY <1>1, <1>5, <3>1 DEF MarkStale, MarkEmptied, FailWith, update_role_run, Records
    <3>2. CASE MarkEnded(p)
      <4>1. w[p].status \in {"failed", "cancelled", "timeout"}
        BY <1>1, <3>2 DEF MarkEnded, FailWith, Loaded, At, CallInv, Calls
      <4> QED BY <1>1, <1>5, <3>2, <4>1 DEF MarkEnded, FailWith, update_role_run, Records
    <3> QED BY <1>9, <3>1, <3>2 DEF Failing
  <2>3. CurrentCopy' /\ OpenRun' /\ ReportThere'
    BY <1>8, <2>1, <2>2 DEF CurrentCopy, OpenRun, ReportThere
  <2>4. ~Advancing /\ ~MarkCompleted(p)
    BY <1>9 DEF Failing, Advancing, MarkStale, MarkEmptied, MarkEnded, FailWith, MarkReceived,
       MarkPrompting, MarkAnswered, MarkUnparsed, MarkStored, MarkCompleted, Advance,
       Loaded, At
  <2> QED BY <1>3, <1>6, <1>7, <2>1, <2>2, <2>3, <2>4 DEF CallInvOne
<1>10. CASE Advancing
  <2>1. rec'.status = rec.status
    BY <1>1, <1>5, <1>10 DEF Advancing, MarkReceived, MarkPrompting, MarkAnswered,
       MarkUnparsed, MarkStored, Advance, update_role_run, Records
  <2>2. /\ w'[p].tmp = NoRecord
        /\ \/ w'[p].pc \in {"emptied", "open"}
           \/ /\ w'[p].pc \in {"send", "unparsed", "save_summary", "finishing"}
              /\ w[p].pc \in Prompting
    BY <1>1, <1>10 DEF Advancing, MarkReceived, MarkPrompting, MarkAnswered,
       MarkUnparsed, MarkStored, Advance, Loaded, At, Calls, Prompting
  <2>3. CurrentCopy' /\ OpenRun'
    BY <1>6, <2>1, <2>2 DEF CurrentCopy, OpenRun, Undecided
  <2>4. ReportThere'
    BY <1>2, <1>3, <1>6, <2>1, <2>2 DEF ReportThere, Prompting, Undecided, Readable
  <2>5. ~Failing /\ ~MarkCompleted(p)
    BY <1>10 DEF Failing, Advancing, MarkStale, MarkEmptied, MarkEnded, FailWith, MarkReceived,
       MarkPrompting, MarkAnswered, MarkUnparsed, MarkStored, MarkCompleted, Advance,
       Loaded, At
  <2> QED BY <1>3, <1>6, <1>7, <2>1, <2>3, <2>4, <2>5 DEF CallInvOne
<1>11. CASE MarkCompleted(p)
  <2>1. w[p].pc = "finishing"
    BY <1>11 DEF MarkCompleted, Loaded, At
  <2>2. Readable
    BY <1>2, <2>1 DEF ReportThere, Prompting
  <2>3. rec'.status = "completed" /\ rec'.result = w[p].ctl
    BY <1>1, <1>5, <1>11 DEF MarkCompleted, update_role_run, Records
  <2>4. w'[p] = Returning("completed", w[p].ctl)
    BY <1>1, <1>11 DEF MarkCompleted, Return
  <2>5. w[p].ctl \in Actions /\ Backed(w[p].ctl, conv.said)
    BY <1>1, <2>1 DEF CallInv, Calls, Results
  <2>6. CurrentCopy' /\ OpenRun' /\ ReportThere'
    BY <1>3, <1>8, <2>2, <2>4 DEF CurrentCopy, OpenRun, ReportThere, Readable
  <2>7. ~Failing /\ ~Advancing
    BY <1>11 DEF Failing, Advancing, MarkStale, MarkEmptied, MarkEnded, FailWith, MarkReceived,
       MarkPrompting, MarkAnswered, MarkUnparsed, MarkStored, MarkCompleted, Advance,
       Loaded, At
  <2> QED BY <1>3, <1>6, <1>7, <2>2, <2>3, <2>4, <2>5, <2>6, <2>7 DEF CallInvOne
<1> QED BY <1>9, <1>10, <1>11

LEMMA AgentStep ==
  ASSUME IInvOne, Agent
  PROVE  /\ CallInvOne' /\ UNCHANGED <<rec, primary, w, resp, faults>>
         /\ \E t \in Answers : conv'.said = conv.said \cup ({t} \ {NoText})
<1>1. UNCHANGED <<rec, primary, summary, w, resp, faults>>
  BY DEF Agent, AgentEndsTurn, AgentStops, AgentTakesPrompt
<1>2. \E t \in Answers : conv'.said = conv.said \cup ({t} \ {NoText})
  <2>1. conv \in Conversations
    BY DEF IInvOne, IInv, TypeOK
  <2>2. CASE AgentEndsTurn
    <3>1. PICK e \in {"finished", "stuck"},
               t \in (IF conv.turn = "main" THEN MainTexts ELSE SummaryTexts)
                     \cup {conv.answer} :
            conv' = [conv EXCEPT !.exec = e, !.answer = t,
                                 !.said = @ \cup ({t} \ {NoText})]
      BY <2>2 DEF AgentEndsTurn
    <3>2. t \in Answers
      BY <2>1 DEF Conversations, Answers, Texts
    <3> QED BY <2>1, <3>1, <3>2 DEF Conversations
  <2>3. CASE AgentStops \/ AgentTakesPrompt
    <3>1. conv'.said = conv.said /\ NoText \in Answers
      BY <2>1, <2>3 DEF AgentStops, AgentTakesPrompt, Conversations, Answers
    <3> QED BY <3>1
  <2> QED BY <2>2, <2>3 DEF Agent
<1>3. CallInvOne'
  <2>1. CurrentCopy /\ OpenRun /\ ReportThere
    BY DEF IInvOne, CallInvOne
  <2> QED BY <1>1, <1>2, <2>1, Kept DEF CurrentCopy, OpenRun, ReportThere
<1> QED BY <1>1, <1>2, <1>3

-------------------------------------------------------------------------------
(* Every step is of one of these kinds.                                    *)
LEMMA Kinds ==
  ASSUME OneCall, [Next]_vars
  PROVE  \/ Agent \/ Reading \/ Writing \/ Failing \/ Advancing \/ MarkCompleted(p)
         \/ UNCHANGED vars
BY DEF OneCall, Next, Step, Reading, Writing, Failing, Advancing

(* However calls follow one another, fail or die, the invariant holds.     *)
THEOREM OneCallInvariance ==
  ASSUME OneCall
  PROVE  Spec => []IInvOne
<1>1. Init => CallInvOne
  <2> SUFFICES ASSUME Init PROVE CallInvOne
    OBVIOUS
  <2>1. w[p] = Idle /\ Idle.tmp = NoRecord /\ Idle.pc = "idle"
    BY DEF OneCall, Init, Idle
  <2>2. rec.status # "completed" /\ primary.content = NoText
    BY DEF Init, StartedRun, UnstartedRuns
  <2>3. "idle" \notin Working /\ "idle" \notin Prompting
    BY DEF Working, Prompting
  <2> QED BY <2>1, <2>2, <2>3 DEF CallInvOne, CurrentCopy, OpenRun, ReportThere, ReportSaid
<1>2. IInvOne /\ [Next]_vars => CallInvOne'
  <2> SUFFICES ASSUME IInvOne, [Next]_vars PROVE CallInvOne'
    OBVIOUS
  <2>1. CASE UNCHANGED vars
    <3>1. CurrentCopy /\ OpenRun /\ ReportThere
      BY DEF IInvOne, CallInvOne
    <3> QED BY <2>1, <3>1, Kept DEF vars, CurrentCopy, OpenRun, ReportThere
  <2> QED BY <2>1, Kinds, AgentStep, ReadingStep, WritingStep, UpdateStep
<1>3. IInv /\ CallInvOne <=> IInvOne
  BY DEF IInvOne
<1> QED BY <1>1, <1>2, <1>3, Invariance, PTL DEF Spec

(* The report of a completed run can be resolved and is not empty, however *)
(* calls are aborted and repeated, if they do not overlap.                 *)
THEOREM CompletedIsReadable ==
  ASSUME OneCall
  PROVE  Spec => []CompletedReadable
<1>1. IInvOne => CompletedReadable
  BY DEF IInvOne, CallInvOne, ReportThere, CompletedReadable
<1> QED BY <1>1, OneCallInvariance, PTL

(* A decided run is never reopened, failed after completion, or completed  *)
(* twice, if calls do not overlap.                                         *)
THEOREM DecidedForGood ==
  ASSUME OneCall
  PROVE  Spec => DecisionFinal
<1>1. IInvOne /\ [Next]_vars => [rec.status \in {"completed", "failed"} => rec' = rec]_vars
  BY Kinds, AgentStep, ReadingStep, WritingStep, UpdateStep DEF Undecided, vars
<1> QED BY <1>1, OneCallInvariance, PTL DEF Spec, DecisionFinal

(* The summary prompt goes out only when the report is on disk.            *)
THEOREM ReportBeforePrompt ==
  ASSUME OneCall
  PROVE  Spec => PromptAfterArtifact
<1>1. IInvOne /\ [Next]_vars => [conv'.pending /\ ~conv.pending => Readable]_vars
  <2> SUFFICES ASSUME IInvOne, Next, conv'.pending, ~conv.pending PROVE Readable
    BY DEF vars
  <2>1. conv \in Conversations
    BY DEF IInvOne, IInv, TypeOK
  <2>2. ~Agent
    BY <2>1 DEF Agent, AgentEndsTurn, AgentStops, AgentTakesPrompt, Conversations
  <2>3. conv' # conv
    OBVIOUS
  <2>4. SendSummaryPrompt(p) \/ SendFails(p)
    BY <2>2, <2>3, Kinds, WritingStep, UpdateStep DEF vars, Reading, Fault, Enter, LoadRecord,
       Revalidate, Poll, Deadline, CheckPrimary, SaveFallback, SummaryPoll, SummaryDeadline,
       SaveSummary, Reply, PollFails, PollFindsNothing, Crash, Abort
  <2>5. w[p].pc \in Prompting
    BY <2>4 DEF SendSummaryPrompt, SendFails, At, Prompting
  <2> QED BY <2>5 DEF IInvOne, CallInvOne, ReportThere
<1> QED BY <1>1, OneCallInvariance, PTL DEF Spec, PromptAfterArtifact
-------------------------------------------------------------------------------
(* The calls on a run, one after another and however they end, implement   *)
(* the abstract run: at most one decision, for good, with a report that is *)
(* an answer of the agent, and PASS only on the agent's word.              *)
Outcome ==
  IF rec.status = "completed" THEN rec.result
  ELSE IF rec.status = "failed" THEN "failed" ELSE "open"
FinalReport == IF rec.status = "completed" THEN primary.content ELSE NoText

LEMMA RunInit == Init => Run!Init
<1> SUFFICES ASSUME Init PROVE Run!Init
  OBVIOUS
<1>1. rec.status \in {"running", "starting"}
  BY DEF Init, StartedRun, UnstartedRuns
<1>2. conv.said = {}
  BY DEF Init, NewConversation
<1> QED BY <1>1, <1>2 DEF Run!Init

LEMMA StaysOpen ==
  ASSUME Undecided, Undecided', conv'.said = conv.said
  PROVE  UNCHANGED <<Outcome, FinalReport, conv.said>>
  BY DEF Undecided, Outcome, FinalReport

LEMMA RunStep ==
  ASSUME OneCall, IInvOne, [Next]_vars
  PROVE  Run!Next \/ UNCHANGED <<Outcome, FinalReport, conv.said>>
<1>1. CASE UNCHANGED vars
  BY <1>1 DEF vars, Outcome, FinalReport
<1>2. CASE Agent
  <2>1. UNCHANGED <<rec, primary>>
    BY <1>2, AgentStep
  <2>2. UNCHANGED <<Outcome, FinalReport>>
    BY <2>1 DEF Outcome, FinalReport
  <2>3. PICK t \in Answers : conv'.said = conv.said \cup ({t} \ {NoText})
    BY <1>2, AgentStep
  <2>4. CASE t = NoText
    BY <2>2, <2>3, <2>4
  <2>5. CASE t # NoText
    <3>1. t \in Texts /\ conv'.said = conv.said \cup {t}
      BY <2>3, <2>5 DEF Answers
    <3>2. Run!Speak
      BY <2>2, <3>1 DEF Run!Speak, Outcome, FinalReport
    <3> QED BY <3>2 DEF Run!Next
  <2> QED BY <2>4, <2>5
<1>3. CASE Reading
  BY <1>3, ReadingStep DEF Outcome, FinalReport
<1>4. CASE Writing
  <2>1. Undecided /\ UNCHANGED <<rec, conv>>
    BY <1>4, WritingStep
  <2> QED BY <2>1, StaysOpen DEF Undecided
<1>5. CASE Advancing
  <2>1. Undecided /\ rec'.status = rec.status /\ conv' = conv
    BY <1>5, UpdateStep
  <2> QED BY <2>1, StaysOpen DEF Undecided
<1>6. CASE Failing
  <2>1. Undecided /\ conv' = conv /\ rec'.status \in {"failed", "cancelled", "timeout"}
    BY <1>6, UpdateStep
  <2>2. CASE rec'.status = "failed"
    <3>1. /\ Outcome = "open" /\ Outcome' = "failed"
          /\ UNCHANGED <<FinalReport, conv.said>>
      BY <2>1, <2>2 DEF Undecided, Outcome, FinalReport
    <3>2. Run!Fail
      BY <3>1 DEF Run!Fail, Outcome, FinalReport
    <3> QED BY <3>2 DEF Run!Next
  <2>3. CASE rec'.status # "failed"
    BY <2>1, <2>3, StaysOpen DEF Undecided
  <2> QED BY <2>2, <2>3
<1>7. CASE MarkCompleted(p)
  <2>1. /\ Undecided /\ UNCHANGED <<primary, conv>> /\ Readable
        /\ rec'.status = "completed" /\ rec'.result = w[p].ctl
        /\ w[p].ctl \in Actions /\ Backed(w[p].ctl, conv.said)
    BY <1>7, UpdateStep
  <2>2. Outcome = "open" /\ Outcome' = w[p].ctl /\ FinalReport' = primary.content
    BY <2>1 DEF Undecided, Outcome, FinalReport
  <2>3. primary.content \in conv.said
    BY <2>1 DEF IInvOne, CallInvOne, ReportSaid, Readable
  <2>4. Run!Complete
    BY <2>1, <2>2, <2>3 DEF Run!Complete, Outcome, FinalReport, Backed
  <2> QED BY <2>4 DEF Run!Next
<1> QED BY <1>1, <1>2, <1>3, <1>4, <1>5, <1>6, <1>7, Kinds

THEOREM ImplementsRun ==
  ASSUME OneCall
  PROVE  Spec => ImplementsRoleRun
<1>1. IInvOne /\ [Next]_vars => [Run!Next]_<<Outcome, FinalReport, conv.said>>
  BY RunStep
<1>2. IInvOne /\ [Next]_vars =>
        [Run!Next]_<<IF rec.status = "completed" THEN rec.result
                     ELSE IF rec.status = "failed" THEN "failed" ELSE "open",
                     IF rec.status = "completed" THEN primary.content ELSE NoText,
                     conv.said>>
  BY <1>1 DEF Outcome, FinalReport
<1> QED BY <1>2, RunInit, OneCallInvariance, PTL DEF Spec, Run!Spec, ImplementsRoleRun
-------------------------------------------------------------------------------
(* Without faults the report is the answer to the role's own prompt: once  *)
(* the summary prompt is out, the call that sent it completes the run, and *)
(* no call polls the main job again.                                       *)
MainAnswers == MainTexts \cup {NoText}
AskedPoints == {"summary_poll", "answered", "unparsed", "save_summary", "stored", "finishing"}
Asked == rec.status = "completed" \/ w[p].pc \in AskedPoints

MainTurnInv == conv.turn = "main" => conv.answer \in MainAnswers
UnfaultyInv ==
  faults = 0 => /\ w[p].main \in MainAnswers
                /\ primary.content \in MainAnswers
                /\ conv.turn = "summary" \/ conv.pending => Asked
MainInv == MainTurnInv /\ UnfaultyInv

LEMMA FaultsGrow ==
  ASSUME OneCall, IInvOne, [Next]_vars, faults' = 0
  PROVE  /\ faults = 0
         /\ ~(SendFails(p) \/ PollFails(p) \/ PollFindsNothing(p) \/ Crash(p))
<1>1. faults \in Nat
  BY RoleWaitAssumption DEF IInvOne, IInv, TypeOK
<1>2. CASE UNCHANGED faults
  BY <1>1, <1>2 DEF SendFails, PollFails, PollFindsNothing, Crash, Abort
<1>3. CASE Fault(p)
  BY <1>1, <1>3 DEF Fault, SendFails, PollFails, PollFindsNothing, Crash, Abort
<1>4. CASE Reading /\ ~Fault(p)
  BY <1>2, <1>4 DEF Reading, LoadRecord, Revalidate, Poll, Deadline, CheckPrimary, SummaryPoll,
     SummaryDeadline, Reply, Enter, SaveFallback, SaveSummary, SendSummaryPrompt
<1> QED BY <1>2, <1>3, <1>4, Kinds, AgentStep, WritingStep, UpdateStep DEF vars

(* The answer a call works with is the one it polled.                      *)
LEMMA MainKept ==
  ASSUME OneCall, IInvOne, Enter(p) \/ Step(p) \/ Fault(p)
  PROVE  \/ w'[p].main \in {w[p].main, NoText}
         \/ Poll(p) /\ w'[p].main \in {conv.answer, NoText}
<1>1. DOMAIN w = Waiters /\ p \in Waiters /\ w[p] \in Calls
  BY TheCall DEF IInvOne
<1>2. Idle.main = NoText /\ \A s, r : Returning(s, r).main = NoText
  BY DEF Idle, Returning
<1>3. CASE Enter(p)
  <2> DEFINE call == [Idle EXCEPT !.snap = rec]
  <2>1. \/ w'[p] = Returning("failed", "absent")
        \/ w'[p] = [call EXCEPT !.pc = "revalidate"]
        \/ w'[p] = [call EXCEPT !.pc = "poll"]
    BY <1>1, <1>3 DEF Enter, Return
  <2>2. CASE w'[p] = [call EXCEPT !.pc = "revalidate"] \/ w'[p] = [call EXCEPT !.pc = "poll"]
    BY <2>2 DEF Idle
  <2> QED BY <1>2, <2>1, <2>2
<1>4. CASE Poll(p)
  <2>1. w'[p].main = w[p].main \/ w'[p].main = Report.answer
    <3>1. \/ w'[p] = [w[p] EXCEPT !.pc = "received", !.main = Report.answer, !.polled = FALSE]
          \/ \E x : w'[p] = [w[p] EXCEPT !.pc = x, !.polled = FALSE]
          \/ \E x : w'[p] = [w[p] EXCEPT !.pc = "ended", !.status = x, !.polled = FALSE]
          \/ w'[p] = [w[p] EXCEPT !.polled = TRUE]
      BY <1>1, <1>4 DEF Poll
    <3> QED BY <1>1, <3>1 DEF Calls
  <2>2. conv.exec \in ExecutionStatuses /\ conv.answer \in Answers
    BY DEF IInvOne, IInv, TypeOK, Conversations
  <2>3. Report.answer \in {conv.answer, NoText}
    BY <2>2, ReportTypes
  <2> QED BY <1>4, <2>1, <2>3
<1>5. CASE Revalidate(p) \/ CheckPrimary(p)
  <2>1. \/ w'[p] = [w[p] EXCEPT !.pc = "stale"]
        \/ w'[p] = [w[p] EXCEPT !.pc = "prompting", !.snap = NoRecord]
        \/ w'[p] = Returning("completed", w[p].snap.result)
    BY <1>1, <1>5 DEF Revalidate, CheckPrimary, Goto, Return
  <2>2. CASE w'[p] # Returning("completed", w[p].snap.result)
    BY <1>1, <2>1, <2>2 DEF Calls
  <2> QED BY <1>2, <2>2
<1>6. CASE MarkStale(p) \/ MarkEmptied(p) \/ MarkEnded(p) \/ MarkCompleted(p) \/ Deadline(p)
  BY <1>1, <1>2, <1>6 DEF MarkStale, MarkEmptied, MarkEnded, FailWith, MarkCompleted, Deadline,
     Return
<1>7. CASE Reply(p) \/ PollFails(p) \/ Crash(p)
  BY <1>1, <1>2, <1>7 DEF Reply, PollFails, Crash, Abort
<1>8. CASE \/ LoadRecord(p) \/ OpenArtifact(p) \/ WriteArtifact(p) \/ OpenMeta(p)
           \/ WriteMeta(p) \/ SendSummaryPrompt(p) \/ SendFails(p) \/ PollFindsNothing(p)
  <2>1. w'[p].main = w[p].main
    BY <1>1, <1>8 DEF LoadRecord, OpenArtifact, WriteArtifact, OpenMeta, WriteMeta,
       SendSummaryPrompt, SendFails, PollFindsNothing, Goto, Calls
  <2> QED BY <2>1
<1>9. CASE MarkReceived(p) \/ MarkPrompting(p) \/ MarkUnparsed(p) \/ MarkStored(p)
  <2>1. w'[p].main = w[p].main
    BY <1>1, <1>9 DEF MarkReceived, MarkPrompting, MarkUnparsed, MarkStored, Advance, Calls
  <2> QED BY <2>1
<1>10. CASE SaveFallback(p) \/ SummaryPoll(p) \/ SummaryDeadline(p) \/ SaveSummary(p)
  <2>1. w'[p].main = w[p].main
    BY <1>1, <1>10 DEF SaveFallback, SummaryPoll, SummaryDeadline, SaveSummary, Goto, Calls
  <2> QED BY <2>1
<1>11. CASE MarkAnswered(p)
  <2>1. w'[p].main = w[p].main
    BY <1>1, <1>11 DEF MarkAnswered, Calls
  <2> QED BY <2>1
<1> QED
  BY <1>3, <1>4, <1>5, <1>6, <1>7, <1>8, <1>9, <1>10, <1>11 DEF Step, Fault

(* A call that has sent the summary prompt goes through to completion.     *)
LEMMA AskedKept ==
  ASSUME OneCall, IInvOne, Enter(p) \/ Step(p), Asked
  PROVE  Asked'
<1>1. DOMAIN w = Waiters /\ p \in Waiters /\ w[p] \in Calls
  BY TheCall DEF IInvOne
<1>2. [Next]_vars
  BY DEF OneCall, Next
<1>3. CASE rec.status = "completed"
  BY <1>2, <1>3, Kinds, AgentStep, ReadingStep, WritingStep, UpdateStep
     DEF Asked, Undecided, vars
<1>4. CASE w[p].pc \in AskedPoints
  <2>1. \/ LoadRecord(p) \/ SummaryPoll(p) \/ SummaryDeadline(p) \/ MarkAnswered(p)
        \/ MarkUnparsed(p) \/ SaveSummary(p) \/ MarkStored(p) \/ MarkCompleted(p)
    BY <1>4 DEF AskedPoints, Enter, Step, Revalidate, MarkStale, Poll, Deadline, MarkEmptied,
       MarkEnded, FailWith, MarkReceived, OpenArtifact, WriteArtifact, OpenMeta, WriteMeta,
       CheckPrimary, MarkPrompting, SendSummaryPrompt, SaveFallback, Reply, Advance, Loaded, At
  <2>2. CASE MarkCompleted(p)
    BY <2>2, UpdateStep DEF Asked
  <2>3. CASE LoadRecord(p)
    BY <1>1, <1>4, <2>3 DEF LoadRecord, Calls, Asked
  <2>4. CASE MarkAnswered(p) \/ MarkUnparsed(p) \/ MarkStored(p)
    BY <1>1, <2>4 DEF MarkAnswered, MarkUnparsed, MarkStored, Advance, Calls, Asked, AskedPoints
  <2>5. CASE SummaryPoll(p) \/ SummaryDeadline(p) \/ SaveSummary(p)
    BY <1>1, <2>5 DEF SummaryPoll, SummaryDeadline, SaveSummary, Goto, Calls, Asked, AskedPoints
  <2> QED BY <2>1, <2>2, <2>3, <2>4, <2>5
<1> QED BY <1>3, <1>4 DEF Asked

LEMMA TurnKept ==
  ASSUME OneCall, IInvOne, Enter(p) \/ Step(p), ~(UNCHANGED <<conv.turn, conv.pending>>)
  PROVE  Asked'
<1>1. DOMAIN w = Waiters /\ p \in Waiters /\ w[p] \in Calls
  BY TheCall DEF IInvOne
<1>2. SendSummaryPrompt(p)
  BY DEF Enter, Step, LoadRecord, Revalidate, MarkStale, Poll, Deadline, MarkEmptied, MarkEnded,
     FailWith, MarkReceived, OpenArtifact, WriteArtifact, OpenMeta, WriteMeta, CheckPrimary,
     MarkPrompting, SaveFallback, SummaryPoll, SummaryDeadline, MarkAnswered, MarkUnparsed,
     SaveSummary, MarkStored, MarkCompleted, Reply, Advance, update_role_run
<1> QED BY <1>1, <1>2 DEF SendSummaryPrompt, Goto, Calls, Asked, AskedPoints
LEMMA MainStep ==
  ASSUME OneCall, IInvOne, MainInv, [Next]_vars
  PROVE  MainInv'
<1>1. /\ p \in Waiters /\ DOMAIN w = Waiters /\ w[p] \in Calls /\ conv \in Conversations
  BY TheCall DEF IInvOne, IInv, TypeOK
<1>2. NoText \in MainAnswers
  BY DEF MainAnswers
<1>3. CASE UNCHANGED vars
  BY <1>3 DEF vars, MainInv, MainTurnInv, UnfaultyInv, Asked
<1>4. CASE Agent
  <2>1. UNCHANGED <<rec, primary, w, resp, faults>>
    BY <1>4, AgentStep
  <2>2. CASE AgentEndsTurn
    <3>1. PICK e \in {"finished", "stuck"},
               t \in (IF conv.turn = "main" THEN MainTexts ELSE SummaryTexts)
                     \cup {conv.answer} :
            conv' = [conv EXCEPT !.exec = e, !.answer = t,
                                 !.said = @ \cup ({t} \ {NoText})]
      BY <2>2 DEF AgentEndsTurn
    <3>2. conv'.turn = conv.turn /\ conv'.pending = conv.pending /\ conv'.answer = t
      BY <1>1, <3>1 DEF Conversations
    <3>3. MainTurnInv'
      BY <3>1, <3>2 DEF MainInv, MainTurnInv, MainAnswers
    <3>4. UnfaultyInv'
      BY <2>1, <3>2 DEF MainInv, UnfaultyInv, Asked
    <3> QED BY <3>3, <3>4 DEF MainInv
  <2>3. CASE AgentStops
    <3>1. conv'.turn = conv.turn /\ conv'.pending = conv.pending /\ conv'.answer = conv.answer
      BY <1>1, <2>3 DEF AgentStops, Conversations
    <3> QED BY <2>1, <3>1 DEF MainInv, MainTurnInv, UnfaultyInv, Asked
  <2>4. CASE AgentTakesPrompt
    <3>1. conv'.turn = "summary" /\ conv.pending
      BY <1>1, <2>4 DEF AgentTakesPrompt, Conversations
    <3> QED BY <2>1, <3>1 DEF MainInv, MainTurnInv, UnfaultyInv, Asked
  <2> QED BY <1>4, <2>2, <2>3, <2>4 DEF Agent
<1>5. CASE Enter(p) \/ Step(p) \/ Fault(p)
  <2>1. MainTurnInv'
    <3>1. conv' = conv \/ conv' = Deliver(conv)
      <4>1. CASE SendSummaryPrompt(p) \/ SendFails(p)
        BY <4>1 DEF SendSummaryPrompt, SendFails
      <4>2. CASE ~(SendSummaryPrompt(p) \/ SendFails(p))
        <5>1. CASE Enter(p) \/ Step(p)
          BY <4>2, <5>1 DEF Enter, Step, LoadRecord, Revalidate, MarkStale, Poll,
             Deadline, MarkEmptied, MarkEnded, FailWith, MarkReceived, OpenArtifact,
             WriteArtifact, OpenMeta, WriteMeta, CheckPrimary, MarkPrompting, SaveFallback,
             SummaryPoll, SummaryDeadline, MarkAnswered, MarkUnparsed, SaveSummary,
             MarkStored, MarkCompleted, Reply, Advance, update_role_run
        <5>2. CASE Fault(p)
          BY <4>2, <5>2 DEF Fault, PollFails, PollFindsNothing, Crash, Abort
        <5> QED BY <1>5, <5>1, <5>2
      <4> QED BY <4>1, <4>2
    <3>2. Deliver(conv).answer = conv.answer /\ Deliver(conv).turn \in {conv.turn, "summary"}
      <4>1. CASE PromptRestarts
        BY <1>1, <4>1 DEF Deliver, Conversations
      <4>2. CASE ~PromptRestarts
        BY <1>1, <4>2 DEF Deliver, Conversations
      <4> QED BY <4>1, <4>2
    <3> QED BY <3>1, <3>2 DEF MainInv, MainTurnInv
  <2>2. ASSUME faults' = 0
        PROVE  /\ w'[p].main \in MainAnswers /\ primary'.content \in MainAnswers
               /\ conv'.turn = "summary" \/ conv'.pending => Asked'
    <3>1. faults = 0 /\ (Enter(p) \/ Step(p))
      BY <1>5, <2>2, FaultsGrow DEF Fault
    <3>2. /\ w[p].main \in MainAnswers /\ primary.content \in MainAnswers
          /\ conv.turn = "summary" \/ conv.pending => Asked
      BY <3>1 DEF MainInv, UnfaultyInv
    <3>3. ASSUME Poll(p) PROVE conv.answer \in MainAnswers
      <4>1. w[p].pc = "poll"
        BY <3>3 DEF Poll, At
      <4>2. Undecided
        BY <4>1 DEF IInvOne, CallInvOne, OpenRun, Working, PCs
      <4>3. ~Asked
        BY <4>1, <4>2 DEF Asked, AskedPoints, Undecided
      <4>4. conv.turn = "main"
        BY <1>1, <3>2, <4>3 DEF Conversations
      <4> QED BY <4>4 DEF MainInv, MainTurnInv
    <3>4. w'[p].main \in MainAnswers
      BY <1>2, <1>5, <3>2, <3>3, MainKept
    <3>5. primary'.content \in MainAnswers
      <4>1. CASE Writing
        <5>1. primary \in [content : Answers, meta : BOOLEAN]
          BY DEF IInvOne, IInv, TypeOK
        <5>2. primary'.content \in {primary.content, NoText, w[p].main}
          BY <4>1, <5>1 DEF Writing, OpenArtifact, WriteArtifact, OpenMeta, WriteMeta
        <5> QED BY <1>2, <3>2, <5>2
      <4>2. CASE UNCHANGED primary
        BY <3>2, <4>2
      <4>3. Writing \/ UNCHANGED primary
        BY Kinds, ReadingStep, UpdateStep, AgentStep DEF vars
      <4> QED BY <4>1, <4>2, <4>3
    <3>6. conv'.turn = "summary" \/ conv'.pending => Asked'
      BY <3>1, <3>2, AskedKept, TurnKept
    <3> QED BY <3>4, <3>5, <3>6
  <2> QED BY <2>1, <2>2 DEF MainInv, UnfaultyInv
<1> QED BY <1>3, <1>4, <1>5 DEF OneCall, Next

(* Without faults and overlapping calls, the primary artifact is never the *)
(* answer to the summary prompt, whatever the agent answers to it.         *)
THEOREM ReportIsMainAnswer ==
  ASSUME OneCall
  PROVE  Spec => []PrimaryIsMainWithoutFaults
<1>1. Init => MainInv
  <2> SUFFICES ASSUME Init PROVE MainInv
    OBVIOUS
  <2>1. w[p].main = NoText /\ primary.content = NoText
    BY DEF OneCall, Init, Idle
  <2>2. conv.turn = "main" /\ conv.answer = NoText /\ conv.pending = FALSE
    BY DEF Init, NewConversation
  <2> QED BY <2>1, <2>2 DEF MainInv, MainTurnInv, UnfaultyInv, MainAnswers
<1>2. IInvOne /\ MainInv /\ [Next]_vars => MainInv'
  BY MainStep
<1>3. MainInv => PrimaryIsMainWithoutFaults
  BY DEF MainInv, UnfaultyInv, MainAnswers, PrimaryIsMainWithoutFaults, PrimaryIsMainAnswer,
     Readable
<1> QED BY <1>1, <1>2, <1>3, OneCallInvariance, PTL DEF Spec
-------------------------------------------------------------------------------
(* Without crashes a completion that was reported is true: a call finds a  *)
(* summary saved by an earlier one only if that one also completed the     *)
(* record.                                                                 *)
Matches(reply) ==
  reply.status = "completed" => rec.status = "completed" /\ rec.result = reply.result

SavedIsCompleted ==
  AlreadySummarised(rec.lifecycle) => rec.status = "completed" \/ w[p].pc = "finishing"
NothingSavedAtEntry == w[p].pc \in Working => ~AlreadySummarised(w[p].snap.lifecycle)
ReportInv ==
  SavedIsCompleted /\ NothingSavedAtEntry /\ Matches(w[p].reply) /\ Matches(resp[p])

(* What a call does to its own copy of the record and to its reply.        *)
LEMMA ReplyKept ==
  ASSUME OneCall, IInvOne, ReportInv, Enter(p) \/ Step(p) \/ Fault(p)
  PROVE  /\ Enter(p) \/ w'[p].snap \in {w[p].snap, NoRecord}
         /\ w'[p].reply = w[p].reply \/ Matches(w[p].reply)'
<1> DEFINE Same(c) == c.snap \in {w[p].snap, NoRecord} /\ c.reply = w[p].reply
<1> DEFINE Silent(c) == c.snap = NoRecord /\ c.reply.status # "completed"
<1>1. DOMAIN w = Waiters /\ p \in Waiters /\ w[p] \in Calls
  BY TheCall DEF IInvOne
<1>2. /\ Silent(Idle)
      /\ Silent(Returning("failed", "absent")) /\ Silent(Returning("running", "absent"))
  BY DEF Idle, Returning, NoReply
<1>3. CASE Enter(p)
  <2> DEFINE call == [Idle EXCEPT !.snap = rec]
  <2>1. \/ w'[p] = Returning("failed", "absent")
        \/ w'[p] = [call EXCEPT !.pc = "revalidate"]
        \/ w'[p] = [call EXCEPT !.pc = "poll"]
    BY <1>1, <1>3 DEF Enter, Return
  <2>2. CASE w'[p] = [call EXCEPT !.pc = "revalidate"] \/ w'[p] = [call EXCEPT !.pc = "poll"]
    <3>1. w'[p].reply = NoReply
      BY <2>2 DEF Idle
    <3> QED BY <1>3, <3>1 DEF NoReply, Matches
  <2> QED BY <1>2, <1>3, <2>1, <2>2 DEF Matches
<1>4. CASE Poll(p)
  <2>1. \/ w'[p] = [w[p] EXCEPT !.pc = "received", !.main = Report.answer, !.polled = FALSE]
        \/ \E x : w'[p] = [w[p] EXCEPT !.pc = x, !.polled = FALSE]
        \/ \E x : w'[p] = [w[p] EXCEPT !.pc = "ended", !.status = x, !.polled = FALSE]
        \/ w'[p] = [w[p] EXCEPT !.polled = TRUE]
    BY <1>1, <1>4 DEF Poll
  <2>2. Same(w'[p])
    BY <1>1, <2>1 DEF Calls
  <2> QED BY <2>2
<1>5. CASE Revalidate(p)
  <2>1. rec.status = "completed" /\ w[p].snap = rec /\ Readable
    BY <1>5 DEF IInvOne, CallInvOne, OpenRun, ReportThere, Revalidate, At
  <2>2. w'[p] = Returning("completed", rec.result) /\ rec' = rec
    BY <1>1, <1>5, <2>1 DEF Revalidate, Return
  <2>3. /\ Returning("completed", rec.result).snap = NoRecord
        /\ Returning("completed", rec.result).reply.result = rec.result
    BY DEF Idle, Returning
  <2> QED BY <2>1, <2>2, <2>3 DEF Matches
<1>6. CASE CheckPrimary(p)
  <2>1. w[p].pc \in Working
    BY <1>6 DEF CheckPrimary, At, Working, PCs
  <2>2. ~AlreadySummarised(w[p].snap.lifecycle)
    BY <2>1 DEF ReportInv, NothingSavedAtEntry
  <2>3. \/ w'[p] = [w[p] EXCEPT !.pc = "stale"]
        \/ w'[p] = [w[p] EXCEPT !.pc = "prompting", !.snap = NoRecord]
    BY <1>1, <1>6, <2>2 DEF CheckPrimary, Goto
  <2>4. Same(w'[p])
    BY <1>1, <2>3 DEF Calls
  <2> QED BY <2>4
<1>7. CASE MarkStale(p) \/ MarkEmptied(p) \/ MarkEnded(p)
  <2>1. w'[p] = Returning("failed", "absent")
    BY <1>1, <1>7 DEF MarkStale, MarkEmptied, MarkEnded, FailWith, Return
  <2> QED BY <1>2, <2>1 DEF Matches
<1>8. CASE MarkCompleted(p)
  <2>1. /\ rec'.status = "completed" /\ rec'.result = w[p].ctl
        /\ w'[p] = Returning("completed", w[p].ctl)
    BY <1>8, UpdateStep
  <2>2. /\ Returning("completed", w[p].ctl).snap = NoRecord
        /\ Returning("completed", w[p].ctl).reply.result = w[p].ctl
    BY DEF Idle, Returning
  <2> QED BY <2>1, <2>2 DEF Matches
<1>9. CASE Deadline(p)
  <2>1. w'[p] = Returning("running", "absent")
    BY <1>1, <1>9 DEF Deadline, Return
  <2> QED BY <1>2, <2>1 DEF Matches
<1>10. CASE Reply(p) \/ PollFails(p) \/ Crash(p)
  <2>1. w'[p] = Idle
    BY <1>1, <1>10 DEF Reply, PollFails, Crash, Abort
  <2> QED BY <1>2, <2>1 DEF Matches
<1>11. CASE \/ LoadRecord(p) \/ OpenArtifact(p) \/ WriteArtifact(p) \/ OpenMeta(p)
            \/ WriteMeta(p) \/ SendSummaryPrompt(p) \/ SendFails(p) \/ PollFindsNothing(p)
  <2>1. Same(w'[p])
    BY <1>1, <1>11 DEF LoadRecord, OpenArtifact, WriteArtifact, OpenMeta, WriteMeta,
       SendSummaryPrompt, SendFails, PollFindsNothing, Goto, Calls
  <2> QED BY <2>1
<1>12. CASE MarkReceived(p) \/ MarkPrompting(p) \/ MarkUnparsed(p) \/ MarkStored(p)
  <2>1. Same(w'[p])
    BY <1>1, <1>12 DEF MarkReceived, MarkPrompting, MarkUnparsed, MarkStored, Advance, Calls
  <2> QED BY <2>1
<1>13. CASE SaveFallback(p) \/ SummaryPoll(p) \/ SummaryDeadline(p) \/ SaveSummary(p)
  <2>1. Same(w'[p])
    BY <1>1, <1>13 DEF SaveFallback, SummaryPoll, SummaryDeadline, SaveSummary, Goto, Calls
  <2> QED BY <2>1
<1>14. CASE MarkAnswered(p)
  <2>1. Same(w'[p])
    BY <1>1, <1>14 DEF MarkAnswered, Calls
  <2> QED BY <2>1
<1> QED
  BY <1>3, <1>4, <1>5, <1>6, <1>7, <1>8, <1>9, <1>10, <1>11, <1>12, <1>13, <1>14
     DEF Step, Fault
LEMMA SnapStep ==
  ASSUME OneCall, IInvOne, ReportInv, Enter(p) \/ Step(p) \/ Fault(p)
  PROVE  NothingSavedAtEntry'
<1>1. /\ DOMAIN w = Waiters /\ p \in Waiters /\ w[p] \in Calls
      /\ rec.status = "completed" => rec.result # "absent"
  BY TheCall DEF IInvOne
<1>2. CASE Enter(p)
  <2>1. w[p].pc = "idle"
    BY <1>2 DEF Enter, At
  <2>2. rec.status # "completed" => ~AlreadySummarised(rec.lifecycle)
    BY <2>1 DEF ReportInv, SavedIsCompleted
  <2> DEFINE call == [Idle EXCEPT !.snap = rec]
  <2>3. \/ w'[p] = Returning("failed", "absent")
        \/ w'[p] = [call EXCEPT !.pc = "revalidate"]
        \/ w'[p] = [call EXCEPT !.pc = "poll"] /\ rec.status # "completed"
    BY <1>1, <1>2 DEF Enter, Return, AlreadyCompleted
  <2>4. CASE w'[p] = [call EXCEPT !.pc = "poll"] /\ rec.status # "completed"
    <3>1. w'[p].snap = rec
      BY <2>4 DEF Idle
    <3> QED BY <2>2, <2>4, <3>1 DEF NothingSavedAtEntry
  <2>5. CASE w'[p] = Returning("failed", "absent") \/ w'[p] = [call EXCEPT !.pc = "revalidate"]
    <3>1. w'[p].pc \in {"reply", "revalidate"}
      BY <2>5 DEF Idle, Returning
    <3> QED BY <3>1 DEF NothingSavedAtEntry, Working
  <2> QED BY <2>3, <2>4, <2>5
<1>3. CASE ~Enter(p)
  <2>1. w'[p].snap \in {w[p].snap, NoRecord}
    BY <1>3, ReplyKept
  <2>2. ~AlreadySummarised(NoRecord.lifecycle)
    BY DEF AlreadySummarised, NoRecord
  <2>3. w'[p].pc \in Working => w[p].pc \in Working
    <3>1. CASE Revalidate(p)
      <4>1. Readable
        BY <3>1 DEF IInvOne, CallInvOne, OpenRun, ReportThere, Revalidate, At
      <4>2. w'[p].pc = "reply"
        BY <1>1, <3>1, <4>1 DEF Revalidate, Return, Returning, Idle
      <4> QED BY <4>2 DEF Working
    <3>2. CASE Reply(p)
      <4>1. w'[p].pc = "idle"
        BY <1>1, <3>2 DEF Reply, Idle
      <4> QED BY <4>1 DEF Working
    <3>3. CASE Crash(p)
      <4>1. w'[p].pc = "idle"
        BY <1>1, <3>3 DEF Crash, Abort, Idle
      <4> QED BY <4>1 DEF Working
    <3>4. CASE LoadRecord(p)
      BY <3>4 DEF LoadRecord, UpdatePoints, Working, PCs
    <3>5. CASE ~(Revalidate(p) \/ Reply(p) \/ Crash(p) \/ LoadRecord(p))
      BY <1>3, <3>5 DEF Step, Fault, MarkStale, Poll, Deadline, MarkEmptied, MarkEnded,
         FailWith, MarkReceived, OpenArtifact, WriteArtifact, OpenMeta, WriteMeta,
         CheckPrimary, MarkPrompting, SendSummaryPrompt, SaveFallback, SummaryPoll,
         SummaryDeadline, MarkAnswered, MarkUnparsed, SaveSummary, MarkStored,
         MarkCompleted, Advance, SendFails, PollFails, PollFindsNothing, Loaded, At,
         Working, PCs, UpdatePoints
    <3> QED BY <3>1, <3>2, <3>3, <3>4, <3>5
  <2> QED BY <2>1, <2>2, <2>3 DEF ReportInv, NothingSavedAtEntry
<1> QED BY <1>2, <1>3

LEMMA SavedStep ==
  ASSUME OneCall, IInvOne, ReportInv, "crash" \notin Faults, [Next]_vars
  PROVE  SavedIsCompleted'
<1>1. DOMAIN w = Waiters /\ p \in Waiters /\ w[p] \in Calls /\ rec \in Records
  BY TheCall DEF IInvOne
<1>2. SavedIsCompleted
  BY DEF ReportInv
<1>3. CASE UNCHANGED <<rec, w>>
  BY <1>2, <1>3 DEF SavedIsCompleted
<1>4. CASE Writing
  <2>1. rec' = rec /\ w[p].pc # "finishing"
    BY <1>4, WritingStep DEF Writing, OpenArtifact, WriteArtifact, OpenMeta, WriteMeta, At
  <2> QED BY <1>2, <2>1 DEF SavedIsCompleted
<1>5. CASE Reading
  <2>1. rec' = rec
    BY <1>5, ReadingStep
  <2>2. CASE w[p].pc = "finishing"
    <3>1. LoadRecord(p)
      BY <1>5, <2>2 DEF Reading, Enter, Revalidate, Poll, Deadline, CheckPrimary,
         SendSummaryPrompt, SaveFallback, SummaryPoll, SummaryDeadline, SaveSummary, Reply,
         Fault, SendFails, PollFails, PollFindsNothing, Crash, At
    <3>2. w'[p].pc = "finishing"
      BY <1>1, <2>2, <3>1 DEF LoadRecord, Calls
    <3> QED BY <3>2 DEF SavedIsCompleted
  <2>3. CASE w[p].pc # "finishing"
    BY <1>2, <2>1, <2>3 DEF SavedIsCompleted
  <2> QED BY <2>2, <2>3
<1>6. CASE Failing \/ Advancing
  <2>1. w[p].tmp = rec
    <3>1. w[p].tmp # NoRecord
      BY <1>6 DEF Failing, Advancing, MarkStale, MarkEmptied, MarkEnded, FailWith,
         MarkReceived, MarkPrompting, MarkAnswered, MarkUnparsed, MarkStored, Advance, Loaded
    <3> QED BY <3>1 DEF IInvOne, CallInvOne, CurrentCopy
  <2>2. CASE Failing
    <3>1. rec'.lifecycle \in {"empty_primary_artifact", "empty_main_response", "error"}
      BY <1>1, <2>1, <2>2 DEF Failing, MarkStale, MarkEmptied, MarkEnded, FailWith,
         update_role_run, Records
    <3> QED BY <3>1 DEF SavedIsCompleted, AlreadySummarised
  <2>3. CASE MarkStored(p)
    <3>1. w'[p].pc = "finishing"
      BY <1>1, <2>3 DEF MarkStored, Advance, Calls
    <3> QED BY <3>1 DEF SavedIsCompleted
  <2>4. CASE MarkReceived(p) \/ MarkPrompting(p) \/ MarkAnswered(p) \/ MarkUnparsed(p)
    <3>1. rec'.lifecycle \in {"main_response_received", "summary_prompt_sent",
                              "summary_response_received", "summary_parse_failed"}
      BY <1>1, <2>1, <2>4 DEF MarkReceived, MarkPrompting, MarkAnswered, MarkUnparsed,
         Advance, update_role_run, Records
    <3> QED BY <3>1 DEF SavedIsCompleted, AlreadySummarised
  <2> QED BY <1>6, <2>2, <2>3, <2>4 DEF Advancing
<1>7. CASE MarkCompleted(p)
  BY <1>7, UpdateStep DEF SavedIsCompleted
<1> QED BY <1>3, <1>4, <1>5, <1>6, <1>7, Kinds, AgentStep DEF vars

LEMMA ResponseStep ==
  ASSUME OneCall, IInvOne, ReportInv, Enter(p) \/ Step(p) \/ Fault(p)
  PROVE  resp'[p] = resp[p] \/ resp'[p] = w[p].reply \/ resp'[p].status = "error"
<1>1. DOMAIN resp = Waiters /\ p \in Waiters
  BY TheCall DEF IInvOne, IInv, TypeOK
<1>2. CASE Reply(p) \/ PollFails(p) \/ Crash(p)
  BY <1>1, <1>2 DEF Reply, PollFails, Crash, Abort
<1>3. CASE SendFails(p) \/ PollFindsNothing(p) \/ Enter(p)
  BY <1>3 DEF SendFails, PollFindsNothing, Enter
<1>4. CASE Step(p) /\ ~Reply(p)
  BY <1>4, Kinds, WritingStep, UpdateStep DEF Step, LoadRecord, Revalidate, Poll, Deadline,
     OpenArtifact, WriteArtifact, OpenMeta, WriteMeta, CheckPrimary, SendSummaryPrompt,
     SaveFallback, SummaryPoll, SummaryDeadline, SaveSummary, MarkStale, MarkEmptied,
     MarkEnded, FailWith, MarkReceived, MarkPrompting, MarkAnswered, MarkUnparsed,
     MarkStored, MarkCompleted, Advance, update_role_run
<1> QED BY <1>2, <1>3, <1>4 DEF Fault

(* A caller that is told "completed" was told the truth and the whole of   *)
(* it, if calls do not overlap and none dies: HTTP errors do no harm.      *)
THEOREM ReportedHolds ==
  ASSUME OneCall, "crash" \notin Faults
  PROVE  Spec => []ReportedCompletionHolds
<1>1. Init => ReportInv
  <2> SUFFICES ASSUME Init PROVE ReportInv
    OBVIOUS
  <2>1. w[p] = Idle /\ resp[p] = NoReply
    BY DEF OneCall, Init
  <2>2. ~AlreadySummarised(rec.lifecycle)
    BY DEF Init, StartedRun, UnstartedRuns, AlreadySummarised
  <2>3. Idle.pc = "idle" /\ Idle.reply.status = "none" /\ NoReply.status = "none"
    BY DEF Idle, NoReply
  <2> QED BY <2>1, <2>2, <2>3 DEF ReportInv, SavedIsCompleted, NothingSavedAtEntry, Matches,
          Working
<1>2. IInvOne /\ ReportInv /\ [Next]_vars => ReportInv'
  <2> SUFFICES ASSUME IInvOne, ReportInv, [Next]_vars PROVE ReportInv'
    OBVIOUS
  <2>1. SavedIsCompleted'
    BY SavedStep
  <2>2. Matches(w[p].reply) /\ Matches(resp[p])
    BY DEF ReportInv
  <2>3. CASE UNCHANGED <<rec, w, resp>>
    BY <2>1, <2>3 DEF ReportInv, NothingSavedAtEntry, Matches
  <2>4. CASE Enter(p) \/ Step(p) \/ Fault(p)
    <3>1. rec.status = "completed" => rec' = rec
      BY Kinds, AgentStep, ReadingStep, WritingStep, UpdateStep DEF Undecided, vars
    <3>2. NothingSavedAtEntry'
      BY <2>4, SnapStep
    <3>3. Matches(w[p].reply)'
      BY <2>2, <2>4, <3>1, ReplyKept DEF Matches
    <3>4. Matches(resp[p])'
      BY <2>2, <2>4, <3>1, ResponseStep DEF Matches
    <3> QED BY <2>1, <3>2, <3>3, <3>4 DEF ReportInv
  <2> QED BY <2>3, <2>4, AgentStep DEF OneCall, Next, vars
<1>3. IInvOne /\ ReportInv => ReportedCompletionHolds
  BY TheCall DEF OneCall, ReportInv, Matches, ReportedCompletionHolds, IInvOne
<1> QED BY <1>1, <1>2, <1>3, OneCallInvariance, PTL DEF Spec
===============================================================================
