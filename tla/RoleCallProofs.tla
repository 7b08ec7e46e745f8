---------------------------- MODULE RoleCallProofs ----------------------------
(***************************************************************************)
(* What holds of role_call for every number of concurrent calls, of runs   *)
(* and of faults, and for every set of roles and requests.                 *)
(***************************************************************************)
EXTENDS RoleCall, Sequences, TLAPS

-------------------------------------------------------------------------------
(* The inductive invariant.  A call writes the index from a copy that      *)
(* other calls' saves may have made obsolete, so what holds of the index   *)
(* also holds of every copy of it.                                         *)

Known(r, recs) == r \in RunIds /\ recs[r] \in Records
Begins(r, s, cvs) == \E v \in cvs : v.run = r /\ v.scope = s
Started(r, s, recs, cvs) ==
  Known(r, recs) /\ recs[r].job /\ Begins(r, s, cvs)
IndexInv(ix, recs, cvs) ==
  \A s \in Scopes : ix[s] # None => Started(ix[s], s, recs, cvs)

WithRun == {"reuse", "mark_starting", "post", "mark_failed", "mark_running",
            "load_index", "save_index"}

CallInv(x, recs, cvs, arts) ==
  /\ x.pc # "idle" =>
       /\ x.req \in Requests /\ x.req.role \in Roles
       /\ Requires[x.req.role] \subseteq DOMAIN x.req.given /\ Ids(x.req.given) \subseteq arts
  /\ x.pc \in WithRun => Known(x.run, recs)
  /\ x.pc \in {"mark_starting", "post"} => recs[x.run].role = x.req.role
  /\ x.pc = "mark_running" =>
       Begins(x.run, idempotency_scope(x.req), cvs)
  /\ x.pc \in {"reuse", "load_index", "save_index"} =>
       Started(x.run, idempotency_scope(x.req), recs, cvs)
  /\ IndexInv(x.copy, recs, cvs)

(* A begun conversation is that of a run whose needs resolved.             *)
ConversationInv(v, recs, arts) ==
  /\ Known(v.run, recs)
  /\ Requires[recs[v.run].role] \subseteq DOMAIN v.given /\ Ids(v.given) \subseteq arts
  /\ \A q \in Requests : idempotency_scope(q) = v.scope => q.role = recs[v.run].role
ArtifactInv(a, recs, cvs) == \E v \in cvs : a \in Products(recs[v.run].role)
RecordInv(r, recs, cvs) == recs[r].job => \E v \in cvs : v.run = r
ReplyInv(x, recs, cvs) ==
  x.run # None => x.req \in Requests /\ Started(x.run, idempotency_scope(x.req), recs, cvs)

IInv ==
  /\ TypeOK
  /\ IndexInv(index, records, convs)
  /\ \A p \in Callers : CallInv(c[p], records, convs, artifacts)
  /\ \A v \in convs : ConversationInv(v, records, artifacts)
  /\ \A a \in artifacts : ArtifactInv(a, records, convs)
  /\ \A r \in RunIds : RecordInv(r, records, convs)
  /\ \A p \in Callers : ReplyInv(resp[p], records, convs)

(* Records keep their role and their job id, and nothing is ever removed.  *)
Grows ==
  /\ \A r \in RunIds : records[r] \in Records =>
       /\ records'[r] \in Records
       /\ records'[r].role = records[r].role
       /\ records[r].job => records'[r].job
  /\ convs \subseteq convs'
  /\ artifacts \subseteq artifacts'

LEMMA GrowsKeeps ==
  ASSUME Grows
  PROVE  /\ \A r : Known(r, records) => Known(r, records')
         /\ \A r, s : Started(r, s, records, convs) => Started(r, s, records', convs')
         /\ \A ix : IndexInv(ix, records, convs) => IndexInv(ix, records', convs')
         /\ \A x : CallInv(x, records, convs, artifacts)
                     => CallInv(x, records', convs', artifacts')
         /\ \A v : ConversationInv(v, records, artifacts)
                     => ConversationInv(v, records', artifacts')
         /\ \A x : ReplyInv(x, records, convs) => ReplyInv(x, records', convs')
<1>1. \A r : Known(r, records) => Known(r, records')
  BY DEF Grows, Known
<1>2. \A r, s : Started(r, s, records, convs) => Started(r, s, records', convs')
  BY <1>1 DEF Grows, Started, Known, Begins
<1>3. \A ix : IndexInv(ix, records, convs) => IndexInv(ix, records', convs')
  BY <1>2 DEF IndexInv
<1>4. ASSUME NEW x, CallInv(x, records, convs, artifacts)
      PROVE  CallInv(x, records', convs', artifacts')
  <2>1. x.pc \in WithRun => Known(x.run, records) /\ Known(x.run, records')
    BY <1>1, <1>4 DEF CallInv
  <2>2. x.pc \in {"mark_starting", "post"} => records'[x.run].role = x.req.role
    BY <2>1, <1>4 DEF CallInv, WithRun, Grows, Known
  <2>3. x.pc # "idle" =>
          /\ x.req \in Requests /\ x.req.role \in Roles
          /\ Requires[x.req.role] \subseteq DOMAIN x.req.given
          /\ Ids(x.req.given) \subseteq artifacts'
    BY <1>4 DEF CallInv, Grows
  <2>4. x.pc = "mark_running" => Begins(x.run, idempotency_scope(x.req), convs')
    BY <1>4 DEF CallInv, Grows, Begins
  <2>5. x.pc \in {"reuse", "load_index", "save_index"} =>
          Started(x.run, idempotency_scope(x.req), records', convs')
    BY <1>2, <1>4 DEF CallInv
  <2>6. IndexInv(x.copy, records', convs')
    BY <1>3, <1>4 DEF CallInv
  <2> QED BY <2>1, <2>2, <2>3, <2>4, <2>5, <2>6 DEF CallInv
<1>5. \A v : ConversationInv(v, records, artifacts) => ConversationInv(v, records', artifacts')
  BY <1>1 DEF Grows, ConversationInv, Known
<1>6. \A x : ReplyInv(x, records, convs) => ReplyInv(x, records', convs')
  BY <1>2 DEF ReplyInv
<1> QED BY <1>1, <1>2, <1>3, <1>4, <1>5, <1>6

(* Requests of the same scope ask for the same role.                       *)
LEMMA ScopeNamesRole ==
  ASSUME NEW q, NEW r, idempotency_scope(q) = idempotency_scope(r)
  PROVE  q.role = r.role
<1>1. \A a, b, d, e, f : <<a, b, d>> # <<e, f>>
  <2> TAKE a, b, d, e, f
  <2>1. Len(<<a, b, d>>) = 3 /\ Len(<<e, f>>) = 2
    OBVIOUS
  <2> QED BY <2>1
<1>2. CASE q.key = NoKey /\ r.key = NoKey
  <2>1. <<"fallback", q.role, q.task>> = <<"fallback", r.role, r.task>>
    BY <1>2 DEF idempotency_scope
  <2> QED BY <2>1
<1>3. CASE q.key # NoKey /\ r.key # NoKey
  <2>1. <<q.role, q.key>> = <<r.role, r.key>>
    BY <1>3 DEF idempotency_scope
  <2> QED BY <2>1
<1> QED BY <1>1, <1>2, <1>3 DEF idempotency_scope

LEMMA IdleCall ==
  ASSUME NEW recs, NEW cvs, NEW arts
  PROVE  CallInv(Idle, recs, cvs, arts)
  BY DEF Idle, CallInv, WithRun, IndexInv, EmptyIndex

-------------------------------------------------------------------------------
(* What a step of a call does.                                             *)

LEMMA StepGrows ==
  ASSUME IInv, NEW p \in Callers, Step(p)
  PROVE  Grows
<1>1. c[p].pc \in WithRun => Known(c[p].run, records)
  BY DEF IInv, CallInv
<1>2. records \in [RunIds -> Records \cup {NoRecord}] /\ c[p] \in Locals
  BY DEF IInv, TypeOK
<1>3. CASE Create(p)
  <2>1. NoRecord \notin Records
    BY DEF NoRecord, Records, Statuses
  <2> QED BY <1>2, <1>3, <2>1 DEF Create, Grows
<1>4. CASE MarkStarting(p) \/ MarkFailed(p)
  <2>1. Known(c[p].run, records)
    BY <1>1, <1>4 DEF MarkStarting, MarkFailed, At, WithRun
  <2>2. PICK s \in Statuses : records' = [records EXCEPT ![c[p].run].status = s]
    BY <1>4 DEF MarkStarting, MarkFailed, Statuses
  <2>3. UNCHANGED <<convs, artifacts>>
    BY <1>4 DEF MarkStarting, MarkFailed
  <2> QED BY <1>2, <2>1, <2>2, <2>3 DEF Grows, Known, Records
<1>5. CASE MarkRunning(p)
  <2>1. Known(c[p].run, records)
    BY <1>1, <1>5 DEF MarkRunning, At, WithRun
  <2>2. records' = [records EXCEPT ![c[p].run] =
                      [records[c[p].run] EXCEPT !.status = "running", !.job = TRUE]]
    BY <1>5 DEF MarkRunning
  <2>3. c[p].run \in RunIds /\ records[c[p].run] \in Records
    BY <1>2, <2>1 DEF Known
  <2>4. /\ records'[c[p].run] = [records[c[p].run] EXCEPT !.status = "running", !.job = TRUE]
        /\ \A r \in RunIds : r # c[p].run => records'[r] = records[r]
    BY <1>2, <2>2, <2>3
  <2>5. UNCHANGED <<convs, artifacts>>
    BY <1>5 DEF MarkRunning
  <2> QED BY <2>1, <2>3, <2>4, <2>5 DEF Grows, Known, Records, Statuses
<1>6. CASE UNCHANGED records /\ convs \subseteq convs' /\ UNCHANGED artifacts
  BY <1>6 DEF Grows
<1> QED
  BY <1>3, <1>4, <1>5, <1>6 DEF Step, Call, FindRun, Reuse, StartConversation, StartFails,
     LoadIndex, SaveIndex, Crash, Begun

(* Its own call afterwards.                                                *)
LEMMA OwnCall ==
  ASSUME IInv, NEW p \in Callers, Step(p)
  PROVE  \E x \in Locals : /\ c' = [c EXCEPT ![p] = x]
                           /\ CallInv(x, records', convs', artifacts')
<1> DEFINE Good(x) == x \in Locals /\ CallInv(x, records', convs', artifacts')
<1> DEFINE Result(x) == c' = [c EXCEPT ![p] = x] /\ Good(x)
<1> SUFFICES \E x : Result(x)
  OBVIOUS
<1>1. c[p] \in Locals /\ CallInv(c[p], records', convs', artifacts')
  BY StepGrows, GrowsKeeps DEF IInv, TypeOK
<1>2. CallInv(c[p], records, convs, artifacts)
  BY DEF IInv
<1>3. Good(Idle)
  <2>1. Idle \in Locals
    BY DEF Idle, Locals, Points, Indices, EmptyIndex
  <2> QED BY <2>1, IdleCall
<1>4. IndexInv(index, records', convs') /\ index \in Indices
  BY StepGrows, GrowsKeeps DEF IInv, TypeOK
<1> HIDE DEF Good
<1>5. CASE Call(p)
  <2>1. \/ c' = [c EXCEPT ![p] = Idle]
        \/ \E q \in Requests : /\ Valid(q) /\ UNCHANGED artifacts
                               /\ c' = [c EXCEPT ![p] = [c[p] EXCEPT !.pc = "lookup", !.req = q]]
    BY <1>5 DEF Call, Return
  <2>2. ASSUME NEW q \in Requests, Valid(q), UNCHANGED artifacts
        PROVE  Good([c[p] EXCEPT !.pc = "lookup", !.req = q])
    <3> DEFINE x == [c[p] EXCEPT !.pc = "lookup", !.req = q]
    <3>1. x \in Locals /\ x.pc = "lookup" /\ x.req = q /\ x.copy = c[p].copy
      BY <1>1 DEF Locals, Points
    <3>2. /\ q.role \in Roles /\ Requires[q.role] \subseteq DOMAIN q.given
          /\ Ids(q.given) \subseteq artifacts'
      BY <2>2 DEF Valid
    <3> HIDE DEF x
    <3>3. Good(x)
      BY <1>1, <3>1, <3>2 DEF Good, CallInv, WithRun
    <3> QED BY <3>3 DEF x
  <2> QED BY <1>3, <2>1, <2>2
<1>6. CASE FindRun(p)
  <2> DEFINE run == index[idempotency_scope(c[p].req)]
  <2>1. c[p].req \in Requests /\ c[p].pc = "lookup"
    BY <1>2, <1>6 DEF CallInv, FindRun, At
  <2>2. /\ run \in RunIds \cup {None}
        /\ run # None => /\ Known(run, records')
                         /\ Started(run, idempotency_scope(c[p].req), records', convs')
    BY <1>4, <2>1 DEF Indices, IndexInv, Started, Scopes
  <2>3. CASE run = None
    <3>1. c' = [c EXCEPT ![p] = [c[p] EXCEPT !.run = None, !.pc = "create"]]
      BY <1>6, <2>3 DEF FindRun
    <3>2. Good([c[p] EXCEPT !.run = None, !.pc = "create"])
      BY <1>1, <2>1 DEF Good, CallInv, WithRun, Locals, Points
    <3> QED BY <3>1, <3>2
  <2>4. CASE run # None
    <3>1. c' = [c EXCEPT ![p] = [c[p] EXCEPT !.run = run, !.pc = "reuse"]]
      BY <1>6, <2>4 DEF FindRun
    <3>2. Good([c[p] EXCEPT !.run = run, !.pc = "reuse"])
      BY <1>1, <2>1, <2>2, <2>4 DEF Good, CallInv, WithRun, Locals, Points
    <3> QED BY <3>1, <3>2
  <2> QED BY <2>3, <2>4
<1>7. CASE Reuse(p) \/ MarkFailed(p) \/ SaveIndex(p) \/ Crash(p)
  BY <1>3, <1>7 DEF Reuse, MarkFailed, SaveIndex, Crash, Return
<1>8. CASE Create(p)
  <2>1. PICK r \in RunIds :
          /\ records' = [records EXCEPT ![r] = [status |-> "running", role |-> c[p].req.role,
                                                job |-> FALSE]]
          /\ c' = [c EXCEPT ![p] = [c[p] EXCEPT !.run = r, !.pc = "mark_starting"]]
    BY <1>8 DEF Create
  <2>2. c[p].pc = "create" /\ c[p].req \in Requests /\ c[p].req.role \in Roles
    BY <1>2, <1>8 DEF Create, At, CallInv
  <2>3. records'[r] = [status |-> "running", role |-> c[p].req.role, job |-> FALSE]
    BY <2>1 DEF IInv, TypeOK
  <2>4. Known(r, records') /\ records'[r].role = c[p].req.role
    BY <2>2, <2>3 DEF Known, Records, Statuses
  <2>5. Good([c[p] EXCEPT !.run = r, !.pc = "mark_starting"])
    BY <1>1, <2>2, <2>4 DEF Good, CallInv, WithRun, Locals, Points
  <2> QED BY <2>1, <2>5
<1>9. CASE MarkStarting(p)
  <2>1. c' = [c EXCEPT ![p] = [c[p] EXCEPT !.pc = "post"]] /\ c[p].pc = "mark_starting"
    BY <1>9 DEF MarkStarting, Goto, At
  <2>2. Good([c[p] EXCEPT !.pc = "post"])
    BY <1>1, <2>1 DEF Good, CallInv, WithRun, Locals, Points
  <2> QED BY <2>1, <2>2
<1>10. CASE StartConversation(p)
  <2>1. c' = [c EXCEPT ![p] = [c[p] EXCEPT !.pc = "mark_running"]] /\ c[p].pc = "post"
    BY <1>10 DEF StartConversation, Goto, At
  <2>2. Begins(c[p].run, idempotency_scope(c[p].req), convs')
    <3> DEFINE b == [run |-> c[p].run, scope |-> idempotency_scope(c[p].req),
                     given |-> c[p].req.given]
    <3>1. b \in convs'
      BY <1>10 DEF StartConversation, Begun
    <3>2. b.run = c[p].run /\ b.scope = idempotency_scope(c[p].req)
      OBVIOUS
    <3> QED BY <3>1, <3>2 DEF Begins
  <2>3. Good([c[p] EXCEPT !.pc = "mark_running"])
    BY <1>1, <2>1, <2>2 DEF Good, CallInv, WithRun, Locals, Points
  <2> QED BY <2>1, <2>3
<1>11. CASE StartFails(p)
  <2>1. c' = [c EXCEPT ![p] = [c[p] EXCEPT !.pc = "mark_failed"]] /\ c[p].pc = "post"
    BY <1>11 DEF StartFails, Goto, At
  <2>2. Good([c[p] EXCEPT !.pc = "mark_failed"])
    BY <1>1, <2>1 DEF Good, CallInv, WithRun, Locals, Points
  <2> QED BY <2>1, <2>2
<1>12. CASE MarkRunning(p)
  <2>1. c' = [c EXCEPT ![p] = [c[p] EXCEPT !.pc = "load_index"]] /\ c[p].pc = "mark_running"
    BY <1>12 DEF MarkRunning, Goto, At
  <2>2. /\ Known(c[p].run, records')
        /\ Begins(c[p].run, idempotency_scope(c[p].req), convs')
    BY <1>1, <2>1 DEF CallInv, WithRun
  <2>3. records'[c[p].run].job
    <3>1. c[p].run \in RunIds /\ records[c[p].run] \in Records
      BY <1>2, <2>1 DEF CallInv, WithRun, Known
    <3>2. records' = [records EXCEPT ![c[p].run] =
                        [records[c[p].run] EXCEPT !.status = "running", !.job = TRUE]]
      BY <1>12 DEF MarkRunning
    <3> QED BY <3>1, <3>2 DEF IInv, TypeOK, Records
  <2>4. Good([c[p] EXCEPT !.pc = "load_index"])
    BY <1>1, <2>1, <2>2, <2>3 DEF Good, CallInv, WithRun, Started, Locals, Points
  <2> QED BY <2>1, <2>4
<1>13. CASE LoadIndex(p)
  <2>1. /\ c' = [c EXCEPT ![p] = [c[p] EXCEPT !.copy = index, !.pc = "save_index"]]
        /\ c[p].pc = "load_index"
    BY <1>13 DEF LoadIndex, At
  <2>2. Good([c[p] EXCEPT !.copy = index, !.pc = "save_index"])
    BY <1>1, <1>4, <2>1 DEF Good, CallInv, WithRun, Locals, Points
  <2> QED BY <2>1, <2>2
<1> QED
  BY <1>5, <1>6, <1>7, <1>8, <1>9, <1>10, <1>11, <1>12, <1>13 DEF Step

(* The index afterwards: a run is entered under its own scope only after   *)
(* its conversation began and its id was recorded.                         *)
LEMMA IndexStep ==
  ASSUME IInv, NEW p \in Callers, Step(p)
  PROVE  index' \in Indices /\ IndexInv(index', records', convs')
<1>1. CallInv(c[p], records', convs', artifacts') /\ c[p] \in Locals
  BY StepGrows, GrowsKeeps DEF IInv, TypeOK
<1>2. CASE SaveIndex(p)
  <2> DEFINE s == idempotency_scope(c[p].req)
  <2>1. index' = [c[p].copy EXCEPT ![s] = c[p].run] /\ c[p].pc = "save_index"
    BY <1>2 DEF SaveIndex, At
  <2>2. Started(c[p].run, s, records', convs') /\ IndexInv(c[p].copy, records', convs')
          /\ s \in Scopes /\ c[p].run \in RunIds
    BY <1>1, <2>1 DEF CallInv, Scopes, Started, Known
  <2>3. c[p].copy \in Indices
    BY <1>1 DEF Locals
  <2> HIDE DEF s
  <2>4. index' \in Indices
    BY <2>1, <2>2, <2>3 DEF Indices
  <2>5. ASSUME NEW t \in Scopes, index'[t] # None PROVE Started(index'[t], t, records', convs')
    BY <2>1, <2>2, <2>3, <2>5 DEF Indices, IndexInv
  <2> QED BY <2>4, <2>5 DEF IndexInv
<1>3. CASE UNCHANGED index
  BY <1>3, StepGrows, GrowsKeeps DEF IInv, TypeOK
<1> QED
  BY <1>2, <1>3 DEF Step, Call, FindRun, Reuse, Create, MarkStarting, StartConversation,
     StartFails, MarkFailed, MarkRunning, LoadIndex, Crash

(* Records and conversations afterwards.                                   *)
LEMMA RecordStep ==
  ASSUME IInv, NEW p \in Callers, Step(p)
  PROVE  /\ records' \in [RunIds -> Records \cup {NoRecord}]
         /\ \A r \in RunIds : RecordInv(r, records', convs')
<1>1. CallInv(c[p], records, convs, artifacts) /\ records \in [RunIds -> Records \cup {NoRecord}]
        /\ \A r \in RunIds : RecordInv(r, records, convs)
  BY DEF IInv, TypeOK
<1>2. convs \subseteq convs'
  BY StepGrows DEF Grows
<1>3. CASE Create(p)
  <2>1. PICK r \in RunIds :
          records' = [records EXCEPT ![r] = [status |-> "running", role |-> c[p].req.role,
                                             job |-> FALSE]]
    BY <1>3 DEF Create
  <2>2. [status |-> "running", role |-> c[p].req.role, job |-> FALSE] \in Records
    BY <1>1, <1>3 DEF Create, At, CallInv, Records, Statuses
  <2> QED BY <1>1, <1>2, <2>1, <2>2 DEF RecordInv
<1>4. CASE MarkStarting(p) \/ MarkFailed(p)
  <2>1. Known(c[p].run, records)
    BY <1>1, <1>4 DEF MarkStarting, MarkFailed, At, CallInv, WithRun
  <2>2. PICK s \in Statuses : records' = [records EXCEPT ![c[p].run].status = s]
    BY <1>4 DEF MarkStarting, MarkFailed, Statuses
  <2> QED BY <1>1, <1>2, <2>1, <2>2 DEF RecordInv, Known, Records
<1>5. CASE MarkRunning(p)
  <2>1. /\ Known(c[p].run, records)
        /\ Begins(c[p].run, idempotency_scope(c[p].req), convs)
    BY <1>1, <1>5 DEF MarkRunning, At, CallInv, WithRun
  <2>2. records' = [records EXCEPT ![c[p].run] =
                      [records[c[p].run] EXCEPT !.status = "running", !.job = TRUE]]
    BY <1>5 DEF MarkRunning
  <2>3. records' \in [RunIds -> Records \cup {NoRecord}]
    BY <1>1, <2>1, <2>2 DEF Known, Records, Statuses
  <2>4. \E v \in convs : v.run = c[p].run
    BY <2>1 DEF Begins
  <2>5. \A r \in RunIds : r # c[p].run => records'[r] = records[r]
    BY <1>1, <2>2
  <2> QED BY <1>1, <1>2, <2>3, <2>4, <2>5 DEF RecordInv
<1>6. CASE UNCHANGED records
  BY <1>1, <1>2, <1>6 DEF RecordInv
<1> QED
  BY <1>3, <1>4, <1>5, <1>6 DEF Step, Call, FindRun, Reuse, StartConversation, StartFails,
     LoadIndex, SaveIndex, Crash

LEMMA ConversationStep ==
  ASSUME IInv, NEW p \in Callers, Step(p)
  PROVE  /\ convs' \subseteq [run : RunIds, scope : Scopes, given : Givens]
         /\ \A v \in convs' : ConversationInv(v, records', artifacts')
         /\ artifacts' = artifacts
         /\ \A a \in artifacts' : ArtifactInv(a, records', convs')
<1>1. /\ convs \subseteq [run : RunIds, scope : Scopes, given : Givens]
      /\ \A v \in convs : Known(v.run, records)
      /\ \A v \in convs : ConversationInv(v, records', artifacts')
  BY StepGrows, GrowsKeeps DEF IInv, TypeOK, ConversationInv
<1>2. artifacts' = artifacts
  BY DEF Step, Call, FindRun, Reuse, Create, MarkStarting, StartConversation, StartFails,
     MarkFailed, MarkRunning, LoadIndex, SaveIndex, Crash
<1>3. \A a \in artifacts' : ArtifactInv(a, records', convs')
  <2> SUFFICES ASSUME NEW a \in artifacts PROVE ArtifactInv(a, records', convs')
    BY <1>2
  <2>1. PICK v \in convs : a \in Products(records[v.run].role)
    BY DEF IInv, ArtifactInv
  <2> QED BY <1>1, <2>1, StepGrows DEF Grows, Known, ArtifactInv
<1>4. /\ convs' \subseteq [run : RunIds, scope : Scopes, given : Givens]
      /\ \A v \in convs' : ConversationInv(v, records', artifacts')
  <2>1. CASE UNCHANGED convs
    BY <1>1, <2>1
  <2>2. CASE StartConversation(p) \/ StartFails(p)
    <3>1. c[p].pc = "post" /\ UNCHANGED records /\ (convs' = convs \/ convs' = Begun(p))
      BY <2>2 DEF StartConversation, StartFails, At
    <3>2. /\ c[p].req \in Requests /\ Ids(c[p].req.given) \subseteq artifacts
          /\ Requires[c[p].req.role] \subseteq DOMAIN c[p].req.given
          /\ Known(c[p].run, records) /\ records[c[p].run].role = c[p].req.role
      BY <3>1 DEF IInv, CallInv, WithRun
    <3>3. \A q \in Requests : idempotency_scope(q) = idempotency_scope(c[p].req)
            => q.role = records[c[p].run].role
      BY <3>2, ScopeNamesRole
    <3>4. CASE convs' = Begun(p)
      <4> DEFINE b == [run |-> c[p].run, scope |-> idempotency_scope(c[p].req),
                       given |-> c[p].req.given]
      <4>1. b \in [run : RunIds, scope : Scopes, given : Givens]
        BY <3>2 DEF Known, Scopes, Givens
      <4>2. ConversationInv(b, records', artifacts')
        BY <1>2, <3>1, <3>2, <3>3 DEF ConversationInv
      <4> QED BY <1>1, <3>4, <4>1, <4>2 DEF Begun
    <3> QED BY <1>1, <3>1, <3>4
  <2> QED
    BY <2>1, <2>2 DEF Step, Call, FindRun, Reuse, Create, MarkStarting, MarkFailed,
       MarkRunning, LoadIndex, SaveIndex, Crash
<1> QED BY <1>2, <1>3, <1>4

(* Responses and counters keep their types.                                *)
LEMMA ResponseStep ==
  ASSUME IInv, NEW p \in Callers, Step(p)
  PROVE  resp' \in [Callers -> Replies] /\ calls' \in 0..MaxCalls /\ faults' \in 0..MaxFaults
<1>1. /\ c[p] \in Locals /\ resp \in [Callers -> Replies]
      /\ calls \in 0..MaxCalls /\ faults \in 0..MaxFaults
      /\ records \in [RunIds -> Records \cup {NoRecord}]
      /\ CallInv(c[p], records, convs, artifacts)
  BY DEF IInv, TypeOK
<1>2. \/ UNCHANGED resp
      \/ \E s \in Statuses \cup {"error"}, r \in RunIds \cup {None}, b \in BOOLEAN :
           Return(p, s, r, b)
  <2>1. CASE Reuse(p)
    <3>1. Known(c[p].run, records)
      BY <1>1, <2>1 DEF Reuse, At, CallInv, WithRun
    <3>2. records[c[p].run].status \in Statuses /\ c[p].run \in RunIds
      BY <3>1 DEF Known, Records
    <3> QED BY <2>1, <3>2 DEF Reuse
  <2>2. CASE SaveIndex(p)
    BY <1>1, <2>2 DEF SaveIndex, Locals, Statuses
  <2>3. CASE Call(p) \/ MarkFailed(p) \/ Crash(p)
    BY <2>3 DEF Call, MarkFailed, Crash, Statuses
  <2> QED
    BY <2>1, <2>2, <2>3 DEF Step, FindRun, Create, MarkStarting, StartConversation,
       StartFails, MarkRunning, LoadIndex
<1>3. resp' \in [Callers -> Replies]
  BY <1>1, <1>2 DEF Return, Replies, Locals
<1>4. calls' \in 0..MaxCalls /\ faults' \in 0..MaxFaults
  <2>1. CASE Call(p)
    <3>1. calls < MaxCalls /\ calls' = calls + 1 /\ faults' = faults
      BY <2>1 DEF Call
    <3> QED BY <1>1, <3>1, RoleCallAssumption
  <2>2. CASE StartFails(p) \/ Crash(p)
    <3>1. faults < MaxFaults /\ faults' = faults + 1 /\ calls' = calls
      BY <2>2 DEF StartFails, Crash
    <3> QED BY <1>1, <3>1, RoleCallAssumption
  <2> QED
    BY <1>1, <2>1, <2>2 DEF Step, FindRun, Reuse, Create, MarkStarting, StartConversation,
       MarkFailed, MarkRunning, LoadIndex, SaveIndex
<1> QED BY <1>3, <1>4

(* An answer that names a run follows the save of its scope or the lookup. *)
LEMMA ReplyStep ==
  ASSUME IInv, NEW p \in Callers, Step(p)
  PROVE  \A q \in Callers : ReplyInv(resp'[q], records', convs')
<1>1. /\ resp \in [Callers -> Replies] /\ CallInv(c[p], records', convs', artifacts')
      /\ \A q \in Callers : ReplyInv(resp[q], records', convs')
  BY StepGrows, GrowsKeeps DEF IInv, TypeOK
<1>2. CASE UNCHANGED resp
  BY <1>1, <1>2
<1>3. CASE Reuse(p) \/ SaveIndex(p)
  <2>1. c[p].req \in Requests /\ Started(c[p].run, idempotency_scope(c[p].req), records', convs')
    BY <1>1, <1>3 DEF Reuse, SaveIndex, At, CallInv
  <2>2. PICK s, b : resp' = [resp EXCEPT ![p] = [status |-> s, run |-> c[p].run,
                                                 req |-> c[p].req, reused |-> b]]
    BY <1>3 DEF Reuse, SaveIndex, Return
  <2> QED BY <1>1, <2>1, <2>2 DEF ReplyInv
<1>4. CASE Call(p) \/ MarkFailed(p) \/ Crash(p)
  <2>1. \/ UNCHANGED resp
        \/ \E s : resp' = [resp EXCEPT ![p] = [status |-> s, run |-> None,
                                               req |-> c[p].req, reused |-> FALSE]]
    BY <1>4 DEF Call, MarkFailed, Crash, Return
  <2> QED BY <1>1, <2>1 DEF ReplyInv
<1> QED
  BY <1>2, <1>3, <1>4 DEF Step, FindRun, Create, MarkStarting, StartConversation, StartFails,
     MarkRunning, LoadIndex

LEMMA StepIInv ==
  ASSUME IInv, NEW p \in Callers, Step(p)
  PROVE  IInv'
<1>1. PICK x \in Locals : c' = [c EXCEPT ![p] = x] /\ CallInv(x, records', convs', artifacts')
  BY OwnCall
<1>2. c' \in [Callers -> Locals] /\ \A q \in Callers : CallInv(c'[q], records', convs', artifacts')
  BY <1>1, StepGrows, GrowsKeeps DEF IInv, TypeOK
<1>3. artifacts \subseteq Artifacts
  BY DEF IInv, TypeOK
<1> QED BY <1>2, <1>3, IndexStep, RecordStep, ConversationStep, ResponseStep, ReplyStep
        DEF IInv, TypeOK

(* A step of role_wait adds an artifact of a started run or decides one.   *)
LEMMA WaitIInv ==
  ASSUME IInv, NEW r \in RunIds, SaveArtifact(r) \/ Decide(r)
  PROVE  IInv'
<1>1. /\ records \in [RunIds -> Records \cup {NoRecord}] /\ records[r].job
      /\ \A a \in artifacts : ArtifactInv(a, records, convs)
      /\ \A s \in RunIds : RecordInv(s, records, convs)
      /\ \A v \in convs : Known(v.run, records)
  BY DEF IInv, TypeOK, SaveArtifact, Decide, Undecided, ConversationInv
<1>2. records[r] \in Records
  BY <1>1 DEF NoRecord
<1>3. UNCHANGED <<index, convs, c, resp, calls, faults>>
  BY DEF SaveArtifact, Decide
<1>4. /\ Grows
      /\ records' \in [RunIds -> Records \cup {NoRecord}]
      /\ \A s \in RunIds : records'[s].job = records[s].job /\ records'[s].role = records[s].role
  <2>1. CASE SaveArtifact(r)
    BY <1>1, <1>3, <2>1 DEF SaveArtifact, Grows
  <2>2. CASE Decide(r)
    <3>1. PICK s \in Statuses : records' = [records EXCEPT ![r].status = s]
      BY <2>2 DEF Decide, Statuses
    <3>2. UNCHANGED artifacts
      BY <2>2 DEF Decide
    <3> QED BY <1>1, <1>2, <1>3, <3>1, <3>2 DEF Grows, Records
  <2> QED BY <2>1, <2>2
<1>5. \A s \in RunIds : RecordInv(s, records', convs')
  BY <1>1, <1>3, <1>4 DEF RecordInv
<1>6. artifacts' \subseteq Artifacts /\ \A a \in artifacts' : ArtifactInv(a, records', convs')
  <2>1. \A a \in artifacts : ArtifactInv(a, records', convs')
    BY <1>1, <1>3, <1>4 DEF ArtifactInv, Known
  <2>2. artifacts \subseteq Artifacts
    BY DEF IInv, TypeOK
  <2>3. CASE UNCHANGED artifacts
    BY <2>1, <2>2, <2>3
  <2>4. ASSUME NEW a \in Products(records[r].role), artifacts' = artifacts \cup {a}
        PROVE  artifacts' \subseteq Artifacts /\ \A b \in artifacts' : ArtifactInv(b, records', convs')
    <3>1. PICK v \in convs : v.run = r
      BY <1>1 DEF RecordInv
    <3>2. ArtifactInv(a, records', convs')
      BY <1>3, <1>4, <2>4, <3>1 DEF ArtifactInv
    <3>3. a \in Artifacts
      BY <1>2, <2>4 DEF Records, Artifacts
    <3> QED BY <2>1, <2>2, <2>4, <3>2, <3>3
  <2> QED BY <2>3, <2>4 DEF SaveArtifact, Decide
<1> QED BY <1>3, <1>4, <1>5, <1>6, GrowsKeeps DEF IInv, TypeOK

-------------------------------------------------------------------------------
(* The invariant and what follows from it.                                 *)

LEMMA InitIInv == Init => IInv
<1> SUFFICES ASSUME Init PROVE IInv
  OBVIOUS
<1>1. index \in Indices /\ IndexInv(index, records, convs)
  BY DEF Init, EmptyIndex, Indices, IndexInv
<1>2. Idle \in Locals /\ NoReply \in Replies
  BY DEF Idle, Locals, Points, Indices, EmptyIndex, NoReply, Replies
<1>3. c \in [Callers -> Locals] /\ \A p \in Callers : CallInv(c[p], records, convs, artifacts)
  BY <1>2, IdleCall DEF Init
<1>4. records \in [RunIds -> Records \cup {NoRecord}]
        /\ \A r \in RunIds : RecordInv(r, records, convs)
  BY DEF Init, RecordInv, NoRecord
<1>5. \A p \in Callers : ReplyInv(resp[p], records, convs)
  BY DEF Init, NoReply, ReplyInv
<1> QED BY <1>1, <1>2, <1>3, <1>4, <1>5, RoleCallAssumption DEF Init, IInv, TypeOK

THEOREM Invariance == Spec => []IInv
<1>1. IInv /\ [Next]_vars => IInv'
  <2> SUFFICES ASSUME IInv, [Next]_vars PROVE IInv'
    OBVIOUS
  <2>1. CASE \E p \in Callers : Step(p)
    BY <2>1, StepIInv
  <2>2. CASE \E r \in RunIds : SaveArtifact(r) \/ Decide(r)
    BY <2>2, WaitIInv
  <2>3. CASE UNCHANGED vars
    BY <2>3 DEF vars, IInv, TypeOK
  <2> QED BY <2>1, <2>2, <2>3 DEF Next
<1> QED BY InitIInv, <1>1, PTL DEF Spec

(* The variables of role_call keep their types.                            *)
THEOREM RoleCallTypes == Spec => []TypeOK
<1>1. IInv => TypeOK
  BY DEF IInv
<1> QED BY <1>1, Invariance, PTL

(* Every entry of the index names a run whose conversation was begun for   *)
(* that scope, for every number of servers that share the state directory. *)
THEOREM IndexIsSound == Spec => []IndexedRunStarted
<1>1. IInv => IndexedRunStarted
  BY DEF IInv, IndexInv, Started, Begins, BegunFor, IndexedRunStarted
<1> QED BY <1>1, Invariance, PTL

(* Whoever is answered with a run can wait for it, and it is of the role   *)
(* asked for, whatever other servers do and whatever fails.                *)
THEOREM AnswersAreSound == Spec => []AnsweredRunStarted
<1>1. IInv => AnsweredRunStarted
  <2> SUFFICES ASSUME IInv, NEW p \in Callers, resp[p].run # None
               PROVE  /\ records[resp[p].run].role = resp[p].req.role
                      /\ records[resp[p].run].job
                      /\ BegunFor(resp[p].run, idempotency_scope(resp[p].req))
    BY DEF AnsweredRunStarted
  <2>1. /\ resp[p].req \in Requests
        /\ Started(resp[p].run, idempotency_scope(resp[p].req), records, convs)
    BY DEF IInv, ReplyInv
  <2> QED BY <2>1 DEF IInv, Started, Begins, BegunFor, ConversationInv
<1> QED BY <1>1, Invariance, PTL

(* No role is started without what it needs, or with what no role wrote.   *)
THEOREM PipelineOrder == Spec => []PrerequisiteStarted
<1>1. IInv => PrerequisiteStarted
  BY DEF IInv, ConversationInv, ArtifactInv, PrerequisiteStarted
<1> QED BY <1>1, Invariance, PTL

-------------------------------------------------------------------------------
(***************************************************************************)
(* What role_call's idempotency key achieves when calls do not overlap, as *)
(* the MCP server executes them: an entry of the index is never lost or    *)
(* redirected, and without faults no scope gets a second conversation.     *)
(* For any roles, requests, number of calls and of runs.                   *)
(***************************************************************************)

CONSTANT p     \* the only caller

OneCaller == Callers = {p}

-------------------------------------------------------------------------------
(* A call that starts a run found its scope free, and it is still free     *)
(* when the call saves; the index it saves over is the one it read; and,   *)
(* without faults, a conversation that is not in the index yet is that of  *)
(* the call about to enter it.                                             *)
Starting == {"create", "mark_starting", "post", "mark_failed", "mark_running",
             "load_index", "save_index"}
Entering == {"mark_running", "load_index", "save_index"}

CallScope == idempotency_scope(c[p].req)

ScopeFree == c[p].pc \in Starting => index[CallScope] = None
CurrentIndex == c[p].pc = "save_index" => c[p].copy = index
Entered ==
  faults = 0 =>
    \A v \in convs : \/ index[v.scope] = v.run
                     \/ c[p].pc \in Entering /\ v.scope = CallScope /\ v.run = c[p].run

DedupInv == ScopeFree /\ CurrentIndex /\ Entered

LEMMA TheCaller ==
  ASSUME OneCaller, IInv
  PROVE  /\ p \in Callers /\ DOMAIN c = Callers /\ c[p] \in Locals
         /\ c[p].pc # "idle" => CallScope \in Scopes
         /\ faults \in Nat
<1>1. p \in Callers /\ c \in [Callers -> Locals] /\ faults \in 0..MaxFaults
  BY DEF OneCaller, IInv, TypeOK
<1>2. c[p].pc # "idle" => c[p].req \in Requests
  BY <1>1 DEF IInv, CallInv
<1> QED BY <1>1, <1>2, RoleCallAssumption DEF Scopes, CallScope

(* The steps that leave index, conversations and faults as they are.       *)
LEMMA QuietStep ==
  ASSUME OneCaller, IInv, DedupInv, UNCHANGED <<index, convs, faults>>,
         \/ c'[p].pc \in {"idle", "lookup", "reuse"} /\ c[p].pc \notin Entering
         \/ /\ c'[p].req = c[p].req /\ c'[p].run = c[p].run /\ c'[p].copy = c[p].copy
            /\ c[p].pc \in Starting /\ c'[p].pc \in Starting /\ c'[p].pc # "save_index"
            /\ c[p].pc \in Entering => c'[p].pc \in Entering
         \/ UNCHANGED c
  PROVE  DedupInv'
<1>1. ScopeFree /\ CurrentIndex /\ Entered
  BY DEF DedupInv
<1>2. CASE c'[p].pc \in {"idle", "lookup", "reuse"} /\ c[p].pc \notin Entering
  BY <1>1, <1>2 DEF DedupInv, ScopeFree, CurrentIndex, Entered, Starting
<1>3. CASE /\ c'[p].req = c[p].req /\ c'[p].run = c[p].run /\ c'[p].copy = c[p].copy
           /\ c[p].pc \in Starting /\ c'[p].pc \in Starting /\ c'[p].pc # "save_index"
           /\ c[p].pc \in Entering => c'[p].pc \in Entering
  <2>1. CallScope' = CallScope
    BY <1>3 DEF CallScope
  <2> QED BY <1>1, <1>3, <2>1 DEF DedupInv, ScopeFree, CurrentIndex, Entered
<1>4. CASE UNCHANGED c
  BY <1>1, <1>4 DEF DedupInv, ScopeFree, CurrentIndex, Entered, CallScope
<1> QED BY <1>2, <1>3, <1>4

LEMMA DedupStep ==
  ASSUME OneCaller, IInv, DedupInv, Step(p)
  PROVE  DedupInv'
<1>1. /\ p \in Callers /\ DOMAIN c = Callers /\ c[p] \in Locals /\ faults \in Nat
      /\ c[p].pc # "idle" => CallScope \in Scopes
  BY TheCaller
<1>2. ScopeFree /\ CurrentIndex /\ Entered
  BY DEF DedupInv
<1>3. CallInv(c[p], records, convs, artifacts) /\ index \in Indices
  BY <1>1 DEF IInv, TypeOK
<1>4. Idle.pc = "idle"
  BY DEF Idle
<1>5. CASE Call(p)
  <2>1. c'[p] = Idle \/ \E q : c'[p] = [c[p] EXCEPT !.pc = "lookup", !.req = q]
    BY <1>1, <1>5 DEF Call, Return
  <2>2. c'[p].pc \in {"idle", "lookup"}
    BY <1>1, <1>4, <2>1 DEF Locals
  <2>3. c[p].pc \notin Entering /\ UNCHANGED <<index, convs, faults>>
    BY <1>5 DEF Call, At, Entering
  <2> QED BY <2>2, <2>3, QuietStep
<1>6. CASE FindRun(p)
  <2> DEFINE run == index[CallScope]
  <2>1. /\ c'[p] = [c[p] EXCEPT !.run = run, !.pc = IF run = None THEN "create" ELSE "reuse"]
        /\ c[p].pc = "lookup" /\ UNCHANGED <<index, convs, faults>>
    BY <1>1, <1>6 DEF FindRun, At, CallScope
  <2>2. CASE run # None
    <3>1. c'[p].pc = "reuse"
      BY <1>1, <2>1, <2>2 DEF Locals
    <3> QED BY <2>1, <3>1, QuietStep DEF Entering
  <2>3. CASE run = None
    <3>1. c'[p].pc = "create" /\ c'[p].req = c[p].req
      BY <1>1, <2>1, <2>3 DEF Locals
    <3>2. index'[CallScope'] = None
      BY <2>1, <2>3, <3>1 DEF CallScope
    <3>3. Entered'
      BY <1>2, <2>1 DEF Entered, Entering
    <3> QED BY <3>1, <3>2, <3>3 DEF DedupInv, ScopeFree, CurrentIndex
  <2> QED BY <2>2, <2>3
<1>7. CASE Reuse(p) \/ MarkFailed(p)
  <2>1. c'[p] = Idle /\ c[p].pc \notin Entering /\ UNCHANGED <<index, convs, faults>>
    BY <1>1, <1>7 DEF Reuse, MarkFailed, Return, At, Entering
  <2> QED BY <1>4, <2>1, QuietStep
<1>8. CASE Create(p)
  <2>1. PICK r \in RunIds : c'[p] = [c[p] EXCEPT !.run = r, !.pc = "mark_starting"]
    BY <1>1, <1>8 DEF Create
  <2>2. c'[p].pc = "mark_starting" /\ c'[p].req = c[p].req
    BY <1>1, <2>1 DEF Locals
  <2>3. c[p].pc = "create" /\ UNCHANGED <<index, convs, faults>>
    BY <1>8 DEF Create, At
  <2>4. ScopeFree' /\ CurrentIndex'
    BY <1>2, <2>2, <2>3 DEF ScopeFree, CurrentIndex, CallScope, Starting
  <2>5. Entered'
    BY <1>2, <2>3 DEF Entered, Entering
  <2> QED BY <2>4, <2>5 DEF DedupInv
<1>9. CASE MarkStarting(p) \/ MarkRunning(p)
  <2>1. /\ c'[p].req = c[p].req /\ c'[p].run = c[p].run /\ c'[p].copy = c[p].copy
        /\ \/ c[p].pc = "mark_starting" /\ c'[p].pc = "post"
           \/ c[p].pc = "mark_running" /\ c'[p].pc = "load_index"
    BY <1>1, <1>9 DEF MarkStarting, MarkRunning, Goto, At, Locals
  <2>2. UNCHANGED <<index, convs, faults>>
    BY <1>9 DEF MarkStarting, MarkRunning
  <2> QED BY <2>1, <2>2, QuietStep DEF Starting, Entering
<1>10. CASE StartConversation(p)
  <2>1. /\ c'[p].req = c[p].req /\ c'[p].run = c[p].run
        /\ c[p].pc = "post" /\ c'[p].pc = "mark_running"
    BY <1>1, <1>10 DEF StartConversation, Goto, At, Locals
  <2>2. convs' = Begun(p) /\ UNCHANGED <<index, faults>>
    BY <1>10 DEF StartConversation
  <2>3. ScopeFree' /\ CurrentIndex'
    BY <1>2, <2>1, <2>2 DEF ScopeFree, CurrentIndex, CallScope, Starting
  <2>4. ASSUME faults' = 0, NEW v \in convs'
        PROVE  \/ index'[v.scope] = v.run
               \/ c'[p].pc \in Entering /\ v.scope = CallScope' /\ v.run = c'[p].run
    <3>1. CASE v \in convs
      <4>1. faults = 0 /\ c[p].pc \notin Entering /\ index' = index
        BY <2>1, <2>2, <2>4 DEF Entering
      <4>2. index[v.scope] = v.run
        BY <1>2, <3>1, <4>1 DEF Entered
      <4> QED BY <4>1, <4>2
    <3>2. CASE v \notin convs
      <4>1. v.scope = idempotency_scope(c[p].req) /\ v.run = c[p].run
        BY <2>2, <2>4, <3>2 DEF Begun
      <4> QED BY <2>1, <4>1 DEF CallScope, Entering
    <3> QED BY <3>1, <3>2
  <2> QED BY <2>3, <2>4 DEF DedupInv, Entered
<1>11. CASE StartFails(p)
  <2>1. /\ c'[p].req = c[p].req /\ c[p].pc = "post" /\ c'[p].pc = "mark_failed"
    BY <1>1, <1>11 DEF StartFails, Goto, At, Locals
  <2>2. index' = index /\ faults' = faults + 1
    BY <1>11 DEF StartFails
  <2> QED BY <1>1, <1>2, <2>1, <2>2
          DEF DedupInv, ScopeFree, CurrentIndex, Entered, CallScope, Starting
<1>12. CASE LoadIndex(p)
  <2>1. /\ c'[p] = [c[p] EXCEPT !.copy = index, !.pc = "save_index"]
        /\ c[p].pc = "load_index" /\ UNCHANGED <<index, convs, faults>>
    BY <1>1, <1>12 DEF LoadIndex, At
  <2>2. /\ c'[p].copy = index /\ c'[p].pc = "save_index"
        /\ c'[p].req = c[p].req /\ c'[p].run = c[p].run
    BY <1>1, <2>1 DEF Locals
  <2> QED BY <1>2, <2>1, <2>2
          DEF DedupInv, ScopeFree, CurrentIndex, Entered, CallScope, Starting, Entering
<1>13. CASE SaveIndex(p)
  <2>1. /\ c'[p] = Idle /\ c[p].pc = "save_index" /\ UNCHANGED <<convs, faults>>
        /\ index' = [index EXCEPT ![CallScope] = c[p].run]
    BY <1>1, <1>2, <1>13 DEF SaveIndex, Return, At, CurrentIndex, CallScope
  <2>2. CallScope \in Scopes /\ DOMAIN index = Scopes
    BY <1>1, <1>3, <2>1 DEF Indices
  <2>3. index'[CallScope] = c[p].run /\ \A s \in Scopes : s # CallScope => index'[s] = index[s]
    BY <2>1, <2>2
  <2>4. \A v \in convs : v.scope \in Scopes /\ v.run # None
    BY RoleCallAssumption DEF IInv, TypeOK
  <2>5. index[CallScope] = None
    BY <1>2, <2>1 DEF ScopeFree, Starting
  <2>6. Entered'
    BY <1>2, <2>1, <2>3, <2>4, <2>5 DEF Entered
  <2> QED BY <1>4, <2>1, <2>6 DEF DedupInv, ScopeFree, CurrentIndex, Starting
<1>14. CASE Crash(p)
  <2>1. c'[p] = Idle /\ faults' = faults + 1
    BY <1>1, <1>14 DEF Crash, Return
  <2> QED BY <1>1, <1>4, <2>1 DEF DedupInv, ScopeFree, CurrentIndex, Entered, Starting
<1> QED
  BY <1>5, <1>6, <1>7, <1>8, <1>9, <1>10, <1>11, <1>12, <1>13, <1>14 DEF Step

-------------------------------------------------------------------------------
(* However calls fail and die, the invariant holds.                        *)
THEOREM OneCallerInvariance ==
  ASSUME OneCaller
  PROVE  Spec => [](IInv /\ DedupInv)
<1>1. Init => DedupInv
  <2> SUFFICES ASSUME Init PROVE DedupInv
    OBVIOUS
  <2>1. c[p].pc = "idle" /\ convs = {}
    BY DEF OneCaller, Init, Idle
  <2> QED BY <2>1 DEF DedupInv, ScopeFree, CurrentIndex, Entered, Starting
<1>2. IInv /\ DedupInv /\ [Next]_vars => DedupInv'
  <2> SUFFICES ASSUME IInv, DedupInv, [Next]_vars PROVE DedupInv'
    OBVIOUS
  <2>1. CASE UNCHANGED vars \/ \E r \in RunIds : SaveArtifact(r) \/ Decide(r)
    <3>1. UNCHANGED <<index, convs, c, faults>>
      BY <2>1 DEF vars, SaveArtifact, Decide
    <3> QED BY <3>1, QuietStep
  <2> QED BY <2>1, DedupStep DEF OneCaller, Next
<1> QED BY <1>1, <1>2, Invariance, PTL DEF Spec

(* What a caller was answered under a key it is answered again, whatever   *)
(* calls fail or die in between, if they do not overlap.                   *)
THEOREM KeyKeepsItsRun ==
  ASSUME OneCaller
  PROVE  Spec => ScopeKeepsItsRun
<1>1. IInv /\ DedupInv /\ [Next]_vars =>
        [\A s \in Scopes : index[s] # None => index'[s] = index[s]]_vars
  <2> SUFFICES ASSUME IInv, DedupInv, [Next]_vars, NEW s \in Scopes, index[s] # None
               PROVE  index'[s] = index[s]
    OBVIOUS
  <2>1. CASE UNCHANGED index
    BY <2>1
  <2>2. CASE SaveIndex(p)
    <3>1. c[p].pc = "save_index" /\ c[p].copy = index /\ index[CallScope] = None
      BY <2>2 DEF SaveIndex, At, DedupInv, CurrentIndex, ScopeFree, Starting
    <3>2. index' = [index EXCEPT ![CallScope] = c[p].run]
      BY <2>2, <3>1 DEF SaveIndex, CallScope
    <3>3. index \in Indices
      BY DEF IInv, TypeOK
    <3> QED BY <3>1, <3>2, <3>3 DEF Indices
  <2> QED
    BY <2>1, <2>2 DEF OneCaller, Next, vars, SaveArtifact, Decide, Step, Call, FindRun, Reuse,
       Create, MarkStarting, StartConversation, StartFails, MarkFailed, MarkRunning,
       LoadIndex, Crash
<1> QED BY <1>1, OneCallerInvariance, PTL DEF Spec, ScopeKeepsItsRun

(* While nothing has failed, a repeated call never begins a second         *)
(* conversation for its scope, if calls do not overlap.                    *)
THEOREM OneConversation ==
  ASSUME OneCaller
  PROVE  Spec => []OneConversationWithoutFaults
<1>1. IInv /\ DedupInv => OneConversationWithoutFaults
  <2> SUFFICES ASSUME IInv, DedupInv, faults = 0, NEW u \in convs, NEW v \in convs,
                      u.scope = v.scope
               PROVE  u.run = v.run
    BY DEF OneConversationWithoutFaults, RetriesDeduplicated
  <2>1. u.run # None /\ v.run # None
    BY RoleCallAssumption DEF IInv, TypeOK
  <2>2. c[p].pc \in Entering => index[CallScope] = None
    BY DEF DedupInv, ScopeFree, Starting, Entering
  <2> QED BY <2>1, <2>2 DEF DedupInv, Entered
<1> QED BY <1>1, OneCallerInvariance, PTL
===============================================================================
