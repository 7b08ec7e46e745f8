---------------------------- MODULE PipelineProofs ----------------------------
(***************************************************************************)
(* What holds of the pipeline whatever the orchestrator goes by, forgets   *)
(* or garbles, however many answers are lost and starts fail: types, one   *)
(* role at a time, and that a role is only given the reports it requires.  *)
(***************************************************************************)
EXTENDS Pipeline, TLAPS

(* The ids among the fields are those of certain runs, each in the field   *)
(* its report is named for; of completed runs.                             *)
Held(given, done) ==
  \A f \in Fields : given[f] \in Roles =>
    output_artifact[given[f]] = f /\ given[f] \in done
Own(given) == Held(given, Status("completed"))

CompletedEnded == \A r \in Roles : runs[r].status = "completed" => runs[r].ended

StartedOwn ==
  \A r \in Roles : runs[r] # NoRun =>
    /\ Missing(r, runs[r].given) = {}
    /\ Own(runs[r].given)
    /\ \A f \in Fields : runs[r].given[f] # Invented

(* The one running role is what the orchestrator waits for, or what it     *)
(* calls again because it was not told that the run has started.           *)
RunningIsTodo ==
  \A r \in Roles : runs[r].status = "running" =>
    /\ todo.role = r
    /\ \/ todo.tool = "role_wait"
       \/ todo.tool = "role_call" /\ todo.given = runs[r].given

(* Each failed start leaves at most one agent at work.                     *)
StraysFailed == \A r \in Roles : strays[r] <= failed

IInv ==
  /\ TypeOK
  /\ StraysFailed
  /\ CompletedEnded
  /\ Own(known) /\ Own(todo.given)
  /\ StartedOwn
  /\ RunningIsTodo

-------------------------------------------------------------------------------
(* The catalogue: every report is required under a field, and is produced  *)
(* by a role.                                                              *)
LEMMA Catalogue ==
  /\ \A r \in Roles : \A n \in DOMAIN requires_artifacts[r] :
       /\ n \in 1..3
       /\ requires_artifacts[r][n] \in Fields
       /\ _MISSING_ARTIFACT_TO_ROLE[requires_artifacts[r][n]] \in Roles
  /\ \A r \in DOMAIN next_role_map : next_role_map[r] \in Roles
  /\ {"reviewer", "coder_fix", "publisher"} \subseteq Roles
  /\ "architect_plan" \in Fields
<1>1. Roles = {"scout", "architect", "coder", "reviewer", "publisher", "coder_fix"}
  BY DEF Roles, output_artifact
<1>2. Fields = {"scout_report", "architect_plan", "coder_report", "reviewer_report",
                "publisher_instructions"}
  BY <1>1 DEF Fields, output_artifact
<1>3. ASSUME NEW r \in Roles, NEW n \in DOMAIN requires_artifacts[r]
      PROVE  /\ n \in 1..3
             /\ requires_artifacts[r][n] \in Fields
             /\ _MISSING_ARTIFACT_TO_ROLE[requires_artifacts[r][n]] \in Roles
  <2>1. CASE r = "scout"
    BY <2>1 DEF requires_artifacts
  <2>2. CASE r = "architect"
    BY <1>1, <1>2, <2>2 DEF requires_artifacts, _MISSING_ARTIFACT_TO_ROLE
  <2>3. CASE r = "coder"
    BY <1>1, <1>2, <2>3 DEF requires_artifacts, _MISSING_ARTIFACT_TO_ROLE
  <2>4. CASE r = "reviewer"
    BY <1>1, <1>2, <2>4 DEF requires_artifacts, _MISSING_ARTIFACT_TO_ROLE
  <2>5. CASE r = "publisher"
    BY <1>1, <1>2, <2>5 DEF requires_artifacts, _MISSING_ARTIFACT_TO_ROLE
  <2>6. CASE r = "coder_fix"
    BY <1>1, <1>2, <2>6 DEF requires_artifacts, _MISSING_ARTIFACT_TO_ROLE
  <2>7. QED
    BY <1>1, <2>1, <2>2, <2>3, <2>4, <2>5, <2>6
<1>4. QED
  BY <1>1, <1>2, <1>3 DEF next_role_map

Todos == [tool : {"role_call", "role_wait", "none"}, role : Roles, given : Givens]

LEMMA Types ==
  /\ NoIds \in Givens
  /\ \A r \in Roles, g \in Givens : Call(r, g) \in Todos
  /\ \A r \in Roles : Wait(r) \in Todos /\ Stop(r) \in Todos
  /\ \A r \in Roles, g \in Givens : Filled(r, g) \in Givens
  BY DEF NoIds, Givens, Ids, Call, Wait, Stop, Todos, Filled

(* The advice on a missing artifact is a role.                             *)
LEMMA AdviceIsARole ==
  ASSUME NEW r \in Roles, NEW g \in Givens, Missing(r, g) # {}
  PROVE  ProducerOfMissing(r, g) \in Roles
<1>1. Missing(r, g) \subseteq 1..3 /\ Missing(r, g) \subseteq DOMAIN requires_artifacts[r]
  BY Catalogue DEF Missing
<1>2. \E n \in Missing(r, g) : \A m \in Missing(r, g) : n <= m
  BY <1>1
<1>3. QED
  BY <1>1, <1>2, Catalogue DEF ProducerOfMissing

-------------------------------------------------------------------------------
(* What the orchestrator is told to do next keeps the ids in their fields. *)
LEMMA HeldFilled ==
  ASSUME NEW r \in Roles, NEW done, NEW g, Held(g, done)
  PROVE  Held(Filled(r, g), done)
  BY PipelineAssumption DEF Held, Filled

LEMMA HeldNoIds == ASSUME NEW done PROVE Held(NoIds, done)
  BY PipelineAssumption DEF Held, NoIds

LEMMA HeldLearned ==
  ASSUME NEW done, NEW r \in done, r \in Roles, known \in Givens, Held(known, done)
  PROVE  Learned(r) \in Givens /\ Held(Learned(r), done)
<1>1. Learned(r) \in Givens
  BY DEF Learned, Givens, Ids
<1>2. Held(Learned(r), done)
  BY DEF Held, Learned
<1>3. QED
  BY <1>1, <1>2

LEMMA HeldRoute ==
  ASSUME TypeOK, NEW done, NEW r \in done, r \in Roles, Held(known, done), NEW a
  PROVE  Route(r, a) \in Todos /\ Held(Route(r, a).given, done)
<1>1. known \in Givens /\ routing \in {"next_action", "loop", "head_of_it"}
  BY PipelineAssumption DEF TypeOK
<1>2. Learned(r) \in Givens /\ Held(Learned(r), done)
  BY <1>1, HeldLearned
<1>3. \A n \in Roles : Hinted(r, n) \in Givens /\ Held(Hinted(r, n), done)
  <2> SUFFICES ASSUME NEW n \in Roles PROVE Hinted(r, n) \in Givens /\ Held(Hinted(r, n), done)
    OBVIOUS
  <2>1. Filled(n, Learned(r)) \in Givens /\ Held(Filled(n, Learned(r)), done)
    BY <1>2, Types, HeldFilled
  <2>2. Hinted(r, n) \in Givens
    BY <2>1 DEF Hinted, Givens, Ids
  <2>3. Held(Hinted(r, n), done)
    BY <2>1 DEF Hinted, Held, Givens, _ROLE_OUTPUT_HINT_MAP
  <2>4. QED
    BY <2>2, <2>3
<1>4. NextAction(r) \in Todos /\ Held(NextAction(r).given, done)
  <2>1. CASE r \in DOMAIN next_role_map
    BY <1>3, <2>1, Catalogue, Types DEF NextAction, Call
  <2>2. CASE r \notin DOMAIN next_role_map
    BY <2>2, Types, HeldNoIds DEF NextAction, Stop
  <2>3. QED
    BY <2>1, <2>2
<1>5. ReviewLoop(r, a) \in Todos /\ Held(ReviewLoop(r, a).given, done)
  <2>1. \A n \in Roles, g \in Givens : Held(g, done) =>
          Call(n, Filled(n, g)) \in Todos /\ Held(Call(n, Filled(n, g)).given, done)
    BY Types, HeldFilled DEF Call
  <2>2. Stop(r) \in Todos /\ Held(Stop(r).given, done)
    BY Types, HeldNoIds DEF Stop
  <2>3. \/ ReviewLoop(r, a) = Call("coder_fix", Filled("coder_fix", Learned(r)))
        \/ ReviewLoop(r, a) = Stop(r)
        \/ ReviewLoop(r, a) = Call("reviewer", Filled("reviewer", known))
        \/ ReviewLoop(r, a) = NextAction(r)
    BY DEF ReviewLoop
  <2>4. QED
    BY <1>1, <1>2, <1>4, <2>1, <2>2, <2>3, Catalogue
<1>6. \A c \in Todos : Held(c.given, done) => PlanOnly(c) \in Todos /\ Held(PlanOnly(c).given, done)
  <2> SUFFICES ASSUME NEW c \in Todos, Held(c.given, done)
               PROVE  PlanOnly(c) \in Todos /\ Held(PlanOnly(c).given, done)
    OBVIOUS
  <2> DEFINE Plan == [NoIds EXCEPT !["architect_plan"] = c.given["architect_plan"]]
  <2>1. c.given \in Givens
    BY DEF Todos
  <2>2. Plan \in Givens
    BY <2>1, Types, Catalogue DEF Givens
  <2>3. Held(Plan, done)
    BY <2>1, HeldNoIds, Types DEF Held, Givens
  <2>4. PlanOnly(c) = c \/ PlanOnly(c) = [c EXCEPT !.given = Plan]
    BY DEF PlanOnly
  <2>5. QED
    BY <2>2, <2>3, <2>4 DEF Todos
<1>7. QED
  BY <1>1, <1>4, <1>5, <1>6 DEF Route

-------------------------------------------------------------------------------
(* An answer changes what the orchestrator knows and does, or it is lost.  *)
LEMMA Answered ==
  ASSUME TypeOK, NEW next \in Todos, NEW ids \in Givens, Answer(next, ids)
  PROVE  /\ known' \in Givens /\ todo' \in Todos /\ lost' \in 0..MaxLost
         /\ \/ known' = ids /\ todo' = next
            \/ known' = known /\ todo' = todo
  BY PipelineAssumption DEF Answer, TypeOK, Todos

(* Steps that leave the runs alone.                                        *)
LEMMA SameRuns ==
  ASSUME IInv, UNCHANGED <<runs, strays, failed, started, routing, slips>>,
         NEW next \in Todos, NEW ids \in Givens, Answer(next, ids),
         Own(next.given), Own(ids),
         \A r \in Roles : runs[r].status = "running" => next = Wait(r)
  PROVE  IInv'
<1> USE DEF IInv
<1>1. TypeOK'
  BY Answered DEF TypeOK, Todos
<1>2. CompletedEnded' /\ StartedOwn' /\ StraysFailed'
  BY DEF StraysFailed, CompletedEnded, StartedOwn, Missing, Own, Held, Status
<1>3. Own(known)' /\ Own(todo.given)'
  BY Answered DEF Own, Held, Status
<1>4. RunningIsTodo'
  BY Answered DEF RunningIsTodo, Wait
<1>5. QED
  BY <1>1, <1>2, <1>3, <1>4

(* If the call to be made is none that a run was started by, no role runs. *)
LEMMA NoneRunning ==
  ASSUME IInv, todo.tool = "none" \/ (Asked /\ ~Valid)
  PROVE  \A r \in Roles : runs[r].status # "running"
<1> SUFFICES ASSUME NEW r \in Roles, runs[r].status = "running" PROVE FALSE
  OBVIOUS
<1>1. todo.tool = "role_call" /\ todo.role = r /\ todo.given = runs[r].given
  BY DEF IInv, RunningIsTodo, Asked
<1>2. runs[r] # NoRun
  BY DEF NoRun
<1>3. Missing(r, todo.given) = {} /\ \A f \in Fields : todo.given[f] # Invented
  BY <1>1, <1>2 DEF IInv, StartedOwn
<1>4. todo.given \in Givens
  BY DEF IInv, TypeOK
<1>5. ASSUME NEW f \in Fields, todo.given[f] # None
      PROVE  todo.given[f] \in Readable
  <2>1. todo.given[f] \in Roles
    BY <1>3, <1>4, <1>5 DEF Givens, Ids
  <2>2. runs[todo.given[f]].status = "completed"
    BY <2>1 DEF IInv, Own, Held, Status
  <2>3. QED
    BY <2>1, <2>2 DEF IInv, CompletedEnded, Readable
<1>6. ~Unreadable(todo.given)
  BY <1>5 DEF Unreadable
<1>7. QED
  BY <1>1, <1>3, <1>6 DEF Valid, Complete, Asked

LEMMA InitIInv == Init => IInv
<1> SUFFICES ASSUME Init PROVE IInv
  OBVIOUS
<1>1. NoIds \in Givens
  BY Types
<1>2. TypeOK
  BY <1>1, PipelineAssumption, Types DEF Init, TypeOK, NoRun, Todos
<1>3. CompletedEnded /\ StartedOwn /\ RunningIsTodo /\ StraysFailed
  BY DEF Init, StraysFailed, CompletedEnded, StartedOwn, RunningIsTodo, NoRun
<1>4. Own(known) /\ Own(todo.given)
  BY HeldNoIds DEF Init, Call, Own
<1>5. QED
  BY <1>2, <1>3, <1>4 DEF IInv

LEMMA MissingIInv ==
  ASSUME IInv, MissingRequiredArtifact, UNCHANGED <<strays, failed, routing, slips>>
  PROVE  IInv'
<1> DEFINE producer == ProducerOfMissing(todo.role, todo.given)
<1>1. todo.role \in Roles /\ todo.given \in Givens /\ known \in Givens
  BY DEF IInv, TypeOK
<1>2. producer \in Roles
  BY <1>1, AdviceIsARole DEF MissingRequiredArtifact, Complete
<1>3. Filled(producer, known) \in Givens /\ Own(Filled(producer, known))
  BY <1>1, <1>2, Types, HeldFilled DEF IInv, Own
<1>4. Call(producer, Filled(producer, known)) \in Todos
  BY <1>2, <1>3, Types
<1>5. \A r \in Roles : runs[r].status # "running"
  BY NoneRunning DEF MissingRequiredArtifact, Valid
<1>6. Answer(Call(producer, Filled(producer, known)), known) /\ UNCHANGED <<runs, started>>
  BY DEF MissingRequiredArtifact
<1>7. Own(Call(producer, Filled(producer, known)).given)
  BY <1>3 DEF Call
<1> HIDE DEF producer
<1>8. QED
  BY <1>1, <1>4, <1>5, <1>6, <1>7, SameRuns DEF IInv

LEMMA ReadErrorIInv ==
  ASSUME IInv, ArtifactReadError, UNCHANGED <<strays, failed, routing, slips>>
  PROVE  IInv'
<1>1. todo.role \in Roles /\ known \in Givens
  BY DEF IInv, TypeOK
<1>2. Stop(todo.role) \in Todos /\ Own(Stop(todo.role).given)
  BY <1>1, Types, HeldNoIds DEF Stop, Own
<1>3. \A r \in Roles : runs[r].status # "running"
  BY NoneRunning DEF ArtifactReadError, Complete
<1>4. Answer(Stop(todo.role), known) /\ UNCHANGED <<runs, started>>
  BY DEF ArtifactReadError
<1>5. QED
  BY <1>1, <1>2, <1>3, <1>4, SameRuns DEF IInv

LEMMA ExistingIInv ==
  ASSUME IInv, ExistingRun, UNCHANGED <<strays, failed, routing, slips>>
  PROVE  IInv'
<1> DEFINE ids == IF todo.role \in Status("completed") THEN Learned(todo.role) ELSE known
<1>1. todo.role \in Roles /\ known \in Givens
  BY DEF IInv, TypeOK
<1>2. Wait(todo.role) \in Todos /\ Own(Wait(todo.role).given)
  BY <1>1, Types, HeldNoIds DEF Wait, Own
<1>3. ids \in Givens /\ Own(ids)
  BY <1>1, HeldLearned DEF IInv, Status, Own
<1>4. \A r \in Roles : runs[r].status = "running" => Wait(todo.role) = Wait(r)
  BY DEF IInv, RunningIsTodo
<1>5. Answer(Wait(todo.role), ids) /\ UNCHANGED <<runs, started>>
  BY DEF ExistingRun
<1> HIDE DEF ids
<1>6. QED
  BY <1>2, <1>3, <1>4, <1>5, SameRuns

LEMMA StillRunningIInv ==
  ASSUME IInv, StillRunning, UNCHANGED <<strays, failed, routing, slips>>
  PROVE  IInv'
<1>1. todo.role \in Roles /\ known \in Givens
  BY DEF IInv, TypeOK
<1>2. Wait(todo.role) \in Todos /\ Own(Wait(todo.role).given)
  BY <1>1, Types, HeldNoIds DEF Wait, Own
<1>3. \A r \in Roles : runs[r].status = "running" => Wait(todo.role) = Wait(r)
  BY DEF IInv, RunningIsTodo
<1>4. Answer(Wait(todo.role), known) /\ UNCHANGED <<runs, started>>
  BY DEF StillRunning
<1>5. QED
  BY <1>1, <1>2, <1>3, <1>4, SameRuns DEF IInv

LEMMA DecidedIInv ==
  ASSUME IInv, Decided, UNCHANGED <<strays, failed, routing, slips>>
  PROVE  IInv'
<1> DEFINE r == todo.role
<1>1. r \in Roles /\ known \in Givens
  BY DEF IInv, TypeOK
<1>2. \A q \in Roles : runs[q].status # "running"
  BY <1>1 DEF IInv, RunningIsTodo, Decided, Status
<1>3. CASE runs[r].status = "completed"
  <2>1. Route(r, runs[r].action) \in Todos /\ Own(Route(r, runs[r].action).given)
    BY <1>1, <1>3, HeldRoute DEF IInv, Own, Status
  <2>2. Learned(r) \in Givens /\ Own(Learned(r))
    BY <1>1, <1>3, HeldLearned DEF IInv, Own, Status
  <2>3. Answer(Route(r, runs[r].action), Learned(r)) /\ UNCHANGED <<runs, started>>
    BY <1>3 DEF Decided, Told
  <2> HIDE DEF r
  <2>4. QED
    BY <1>2, <2>1, <2>2, <2>3, SameRuns
<1>4. CASE runs[r].status # "completed"
  <2>1. Stop(r) \in Todos /\ Own(Stop(r).given)
    BY <1>1, Types, HeldNoIds DEF Stop, Own
  <2>2. Answer(Stop(r), known) /\ UNCHANGED <<runs, started>>
    BY <1>4 DEF Decided, Told
  <2> HIDE DEF r
  <2>3. QED
    BY <1>1, <1>2, <2>1, <2>2, SameRuns DEF IInv
<1>5. QED
  BY <1>3, <1>4

(* Steps that change a run: what is recorded of others stays as it was.    *)
LEMMA HeldMore ==
  ASSUME NEW g, NEW done, NEW more, done \subseteq more, Held(g, done)
  PROVE  Held(g, more)
  BY DEF Held

LEMMA StartIInv ==
  ASSUME IInv, StartRun, UNCHANGED <<strays, failed, routing, slips>>
  PROVE  IInv'
<1> DEFINE r == todo.role
           run == [NoRun EXCEPT !.status = "running", !.given = todo.given]
<1>1. r \in Roles /\ todo \in Todos /\ todo.given \in Givens /\ known \in Givens
  BY DEF IInv, TypeOK, Todos
<1>2. runs[r] = NoRun /\ runs' = [runs EXCEPT ![r] = run]
  BY DEF StartRun, New
<1>3. /\ run.status = "running" /\ run.given = todo.given /\ run # NoRun
      /\ run \in [status : {"none", "running", "completed", "failed"}, ended : BOOLEAN,
                  action : Verdicts \cup {None}, given : Givens]
  BY <1>1 DEF NoRun
<1>4. /\ runs'[r] = run
      /\ \A q \in Roles : q # r => runs'[q] = runs[q]
  BY <1>1, <1>2 DEF IInv, TypeOK
<1>5. Wait(r) \in Todos /\ Own(Wait(r).given)
  BY <1>1, Types, HeldNoIds DEF Wait, Own
<1>6. Answer(Wait(r), known)
  BY DEF StartRun
<1>7. Status("completed") \subseteq Status("completed")'
  BY <1>2, <1>4 DEF NoRun, Status
<1> HIDE DEF run
<1>8. TypeOK'
  <2>1. started' \in Seq(Roles)
    BY <1>1 DEF IInv, TypeOK, StartRun
  <2>2. known' \in Givens /\ todo' \in Todos /\ lost' \in 0..MaxLost
    BY <1>1, <1>5, <1>6, Answered DEF IInv
  <2>3. QED
    BY <1>1, <1>2, <1>3, <2>1, <2>2 DEF IInv, TypeOK, Todos
<1>9. CompletedEnded'
  BY <1>3, <1>4 DEF IInv, CompletedEnded
<1>10. Own(known)' /\ Own(todo.given)'
  <2>1. Own(known)' /\ Own(todo.given)'
    <3>1. known' = known
      BY <1>6 DEF Answer
    <3>2. todo' = todo \/ todo' = Wait(r)
      BY <1>6 DEF Answer
    <3>3. Own(known) /\ Own(todo.given)
      BY DEF IInv
    <3>4. QED
      BY <1>5, <1>7, <3>1, <3>2, <3>3, HeldMore DEF Own
  <2>2. QED
    BY <2>1
<1>11. StartedOwn'
  <2> SUFFICES ASSUME NEW q \in Roles, runs'[q] # NoRun
               PROVE  /\ Missing(q, runs'[q].given) = {}
                      /\ Own(runs[q].given)'
                      /\ \A f \in Fields : runs'[q].given[f] # Invented
    BY DEF StartedOwn, Missing
  <2>1. CASE q = r
    <3>1. Missing(q, run.given) = {}
      BY <1>3, <2>1 DEF StartRun, New, Valid, Complete
    <3>2. Held(run.given, Status("completed")')
      BY <1>3, <1>7, HeldMore DEF IInv, Own
    <3>3. \A f \in Fields : run.given[f] # Invented
      BY <1>3, PipelineAssumption DEF StartRun, New, Valid, Unreadable, Readable
    <3>4. QED
      BY <1>4, <2>1, <3>1, <3>2, <3>3 DEF Own
  <2>2. CASE q # r
    <3>1. runs'[q] = runs[q] /\ Own(runs[q].given)
      BY <1>4, <2>2 DEF IInv, StartedOwn
    <3>2. QED
      BY <1>7, <2>2, <3>1, HeldMore DEF IInv, StartedOwn, Own
  <2>3. QED
    BY <2>1, <2>2
<1>12. RunningIsTodo'
  <2> SUFFICES ASSUME NEW q \in Roles, runs'[q].status = "running"
               PROVE  /\ todo'.role = q
                      /\ \/ todo'.tool = "role_wait"
                         \/ todo'.tool = "role_call" /\ todo'.given = runs'[q].given
    BY DEF RunningIsTodo
  <2>1. q = r
    <3>1. runs[q].status = "running" => q = r
      BY DEF IInv, RunningIsTodo
    <3>2. QED
      BY <1>4, <3>1
  <2>2. todo' = todo \/ todo' = Wait(r)
    BY <1>6 DEF Answer
  <2>3. QED
    BY <1>3, <1>4, <2>1, <2>2 DEF Wait, StartRun, New, Valid, Complete, Asked
<1>13. StraysFailed'
  BY DEF IInv, StraysFailed
<1>14. QED
  BY <1>8, <1>9, <1>10, <1>11, <1>12, <1>13 DEF IInv

(* A start that fails leaves the runs alone, and no role was running.      *)
LEMMA StartFailsIInv ==
  ASSUME IInv, StartFails, UNCHANGED <<routing, slips>>
  PROVE  IInv'
<1>1. /\ todo.role \in Roles /\ todo \in Todos /\ failed \in 0..MaxFailed
      /\ strays \in [Roles -> 0..MaxFailed]
  BY DEF IInv, TypeOK, Todos
<1>2. /\ todo' \in {todo, Stop(todo.role)} /\ failed < MaxFailed /\ failed' = failed + 1
      /\ UNCHANGED <<runs, started, known, lost>>
  BY DEF StartFails
<1>3. \A r \in Roles : runs[r].status # "running"
  <2> SUFFICES ASSUME NEW r \in Roles, runs[r].status = "running" PROVE FALSE
    OBVIOUS
  <2>1. todo.role = r
    BY DEF IInv, RunningIsTodo
  <2>2. QED
    BY <2>1 DEF StartFails, New, NoRun
<1>4. /\ todo' \in Todos /\ Own(todo'.given)
      /\ Own(known)
  <2>1. Stop(todo.role) \in Todos /\ Own(Stop(todo.role).given)
    BY <1>1, Types, HeldNoIds DEF Stop, Own
  <2>2. QED
    BY <1>1, <1>2, <2>1 DEF IInv
<1>5. strays' \in [Roles -> 0..MaxFailed] /\ StraysFailed'
  <2>1. failed' \in Nat /\ failed' <= MaxFailed /\ failed < failed' /\ MaxFailed \in Nat
    BY <1>1, <1>2, PipelineAssumption
  <2>2. \A r \in Roles : strays[r] \in Nat /\ strays[r] + 1 <= failed'
    BY <1>1, <1>2 DEF IInv, StraysFailed
  <2>3. CASE UNCHANGED strays
    BY <1>1, <2>1, <2>2, <2>3 DEF StraysFailed
  <2>4. CASE strays' = [strays EXCEPT ![todo.role] = @ + 1]
    <3>1. \A r \in Roles : strays'[r] \in 0..MaxFailed /\ strays'[r] <= failed'
      BY <1>1, <2>1, <2>2, <2>4
    <3>2. QED
      BY <1>1, <2>4, <3>1 DEF StraysFailed
  <2>5. QED
    BY <2>3, <2>4 DEF StartFails
<1>6. TypeOK'
  BY <1>1, <1>2, <1>4, <1>5, PipelineAssumption DEF IInv, TypeOK, Todos
<1>7. CompletedEnded' /\ StartedOwn' /\ RunningIsTodo'
  BY <1>2, <1>3 DEF IInv, CompletedEnded, StartedOwn, Missing, RunningIsTodo, Own, Held, Status
<1>8. Own(known)' /\ Own(todo.given)'
  BY <1>2, <1>4 DEF Own, Held, Status
<1>9. QED
  BY <1>5, <1>6, <1>7, <1>8 DEF IInv

LEMMA DecideIInv ==
  ASSUME IInv, Decide, UNCHANGED <<strays, failed, routing, slips>>
  PROVE  IInv'
<1> DEFINE r == todo.role
<1>1. r \in Roles /\ known \in Givens /\ runs[r].status = "running" /\ runs[r].ended
  BY DEF IInv, TypeOK, Decide, Status
<1>2. PICK o \in Outcomes(r) :
        /\ runs' = [runs EXCEPT ![r] = [@ EXCEPT !.status = o.status, !.action = o.action]]
        /\ Told(r, o)
  BY DEF Decide
<1>3. o.status \in {"completed", "failed"} /\ o.action \in Verdicts \cup {None}
  BY <1>2 DEF Outcomes
<1>4. /\ runs'[r].status = o.status /\ runs'[r].ended /\ runs'[r].given = runs[r].given
      /\ \A q \in Roles : q # r => runs'[q] = runs[q]
  BY <1>1, <1>2 DEF IInv, TypeOK
<1>5. \A q \in Roles : runs'[q].status # "running"
  BY <1>3, <1>4 DEF IInv, RunningIsTodo
<1>6. Status("completed") \subseteq Status("completed")'
  BY <1>1, <1>4 DEF Status
<1>7. runs' \in [Roles -> [status : {"none", "running", "completed", "failed"}, ended : BOOLEAN,
                          action : Verdicts \cup {None}, given : Givens]]
  <2> DEFINE Runs == [status : {"none", "running", "completed", "failed"}, ended : BOOLEAN,
                      action : Verdicts \cup {None}, given : Givens]
             run == [runs[r] EXCEPT !.status = o.status, !.action = o.action]
  <2>1. runs \in [Roles -> Runs]
    BY DEF IInv, TypeOK
  <2>2. run \in Runs
    BY <1>1, <1>3, <2>1
  <2>3. runs' = [runs EXCEPT ![r] = run]
    BY <1>2
  <2> HIDE DEF Runs, run
  <2>4. runs' \in [Roles -> Runs]
    BY <1>1, <2>1, <2>2, <2>3
  <2> QED BY <2>4 DEF Runs
<1>8. /\ known' \in Givens /\ todo' \in Todos /\ lost' \in 0..MaxLost
      /\ Own(known)' /\ Own(todo.given)'
  <2>1. CASE o.status = "completed"
    <3> DEFINE next == Route(r, o.action)
               done == Status("completed")'
    <3>1. Answer(next, Learned(r))
      BY <1>2, <2>1 DEF Told
    <3>2. /\ next \in Todos /\ Held(next.given, done)
          /\ Learned(r) \in Givens /\ Held(Learned(r), done)
      <4>1. Held(known, done) /\ r \in done
        BY <1>1, <1>4, <1>6, <2>1, HeldMore DEF IInv, Own, Status
      <4>2. QED
        BY <1>1, <4>1, HeldRoute, HeldLearned DEF IInv
    <3> HIDE DEF next
    <3>3. QED
      BY <1>6, <3>1, <3>2, Answered, HeldMore DEF IInv, Own
  <2>2. CASE o.status # "completed"
    <3>1. Answer(Stop(r), known)
      BY <1>2, <2>2 DEF Told
    <3>2. Stop(r) \in Todos /\ Own(Stop(r).given)
      BY <1>1, Types, HeldNoIds DEF Stop, Own
    <3>3. QED
      BY <1>1, <1>6, <3>1, <3>2, Answered DEF IInv, Own, Held, Status
  <2>3. QED
    BY <2>1, <2>2
<1>9. TypeOK'
  BY <1>7, <1>8 DEF IInv, TypeOK, Todos, Decide
<1>10. CompletedEnded'
  BY <1>4 DEF IInv, CompletedEnded
<1>11. StartedOwn'
  <2> SUFFICES ASSUME NEW q \in Roles, runs'[q] # NoRun
               PROVE  /\ Missing(q, runs'[q].given) = {}
                      /\ Own(runs[q].given)'
                      /\ \A f \in Fields : runs'[q].given[f] # Invented
    BY DEF StartedOwn, Missing
  <2>1. runs[q] # NoRun /\ runs'[q].given = runs[q].given
    BY <1>1, <1>4 DEF NoRun
  <2>2. QED
    BY <1>6, <2>1 DEF IInv, StartedOwn, Own, Held, Status
<1>12. RunningIsTodo'
  BY <1>5 DEF RunningIsTodo
<1>13. StraysFailed'
  BY DEF IInv, StraysFailed
<1>14. QED
  BY <1>8, <1>9, <1>10, <1>11, <1>12, <1>13 DEF IInv

LEMMA AgentIInv ==
  ASSUME IInv, NEW r \in Roles, AgentEnds(r)
  PROVE  IInv'
<1>1. /\ runs[r].status = "running" /\ runs' = [runs EXCEPT ![r].ended = TRUE]
      /\ UNCHANGED <<strays, started, routing, known, todo, slips, lost, failed>>
  BY DEF AgentEnds, Status
<1>2. \A q \in Roles : /\ runs'[q].status = runs[q].status /\ runs'[q].given = runs[q].given
                       /\ q # r => runs'[q] = runs[q]
  BY <1>1 DEF IInv, TypeOK
<1>3. Status("completed")' = Status("completed")
  BY <1>2 DEF Status
<1>4. TypeOK' /\ CompletedEnded'
  <2>1. runs[r] \in [status : {"none", "running", "completed", "failed"}, ended : BOOLEAN,
                     action : Verdicts \cup {None}, given : Givens]
    BY DEF IInv, TypeOK
  <2>2. /\ runs'[r] = [runs[r] EXCEPT !.ended = TRUE]
        /\ DOMAIN runs' = Roles /\ runs' = [q \in Roles |-> runs'[q]]
    BY <1>1 DEF IInv, TypeOK
  <2>3. runs'[r] \in [status : {"none", "running", "completed", "failed"}, ended : BOOLEAN,
                      action : Verdicts \cup {None}, given : Givens]
    BY <2>1, <2>2
  <2>4. TypeOK'
    BY <1>1, <1>2, <2>2, <2>3 DEF IInv, TypeOK
  <2>5. CompletedEnded'
    BY <1>1, <1>2 DEF IInv, CompletedEnded
  <2>6. QED
    BY <2>4, <2>5
<1>5. Own(known)' /\ Own(todo.given)'
  BY <1>1, <1>3 DEF IInv, Own
<1>6. StartedOwn'
  <2> SUFFICES ASSUME NEW q \in Roles, runs'[q] # NoRun
               PROVE  /\ Missing(q, runs'[q].given) = {}
                      /\ Own(runs[q].given)'
                      /\ \A f \in Fields : runs'[q].given[f] # Invented
    BY DEF StartedOwn, Missing
  <2>1. runs[q] # NoRun
    BY <1>1, <1>2 DEF NoRun
  <2>2. QED
    BY <1>2, <1>3, <2>1 DEF IInv, StartedOwn, Own
<1>7. RunningIsTodo' /\ StraysFailed'
  BY <1>1, <1>2 DEF IInv, RunningIsTodo, StraysFailed
<1>8. QED
  BY <1>4, <1>5, <1>6, <1>7 DEF IInv

LEMMA StrayIInv ==
  ASSUME IInv, NEW r \in Roles, StrayEnds(r)
  PROVE  IInv'
<1>1. /\ strays[r] > 0 /\ strays' = [strays EXCEPT ![r] = @ - 1]
      /\ UNCHANGED <<runs, started, routing, known, todo, slips, lost, failed>>
  BY DEF StrayEnds
<1>2. strays \in [Roles -> 0..MaxFailed] /\ failed \in 0..MaxFailed
  BY DEF IInv, TypeOK
<1>3. \A q \in Roles : strays'[q] \in 0..MaxFailed /\ strays'[q] <= failed
  <2>1. \A q \in Roles : strays[q] \in Nat /\ strays[q] <= MaxFailed /\ strays[q] <= failed
    BY <1>2, PipelineAssumption DEF IInv, StraysFailed
  <2>2. strays'[r] = strays[r] - 1 /\ \A q \in Roles : q # r => strays'[q] = strays[q]
    BY <1>1, <1>2
  <2>3. failed \in Nat /\ MaxFailed \in Nat
    BY <1>2, PipelineAssumption
  <2>4. QED
    BY <1>1, <2>1, <2>2, <2>3
<1>4. strays' \in [Roles -> 0..MaxFailed] /\ StraysFailed'
  BY <1>1, <1>2, <1>3 DEF StraysFailed
<1>5. TypeOK'
  BY <1>1, <1>4 DEF IInv, TypeOK
<1>6. CompletedEnded' /\ StartedOwn' /\ RunningIsTodo' /\ Own(known)' /\ Own(todo.given)'
  BY <1>1 DEF IInv, CompletedEnded, StartedOwn, Missing, RunningIsTodo, Own, Held, Status
<1>7. QED
  BY <1>4, <1>5, <1>6 DEF IInv

LEMMA SlipIInv == IInv /\ Slip => IInv'
<1> SUFFICES ASSUME IInv, Slip PROVE IInv'
  OBVIOUS
<1>1. PICK f \in Fields, id \in {None, Invented} :
        known[f] \in Roles /\ known' = [known EXCEPT ![f] = id]
  BY DEF Slip
<1>2. UNCHANGED <<runs, strays, started, routing, todo, lost, failed>>
  BY DEF Slip
<1>3. TypeOK'
  BY <1>1, <1>2, PipelineAssumption DEF IInv, TypeOK, Slip, Givens, Ids
<1>4. Own(known)'
  BY <1>1, <1>2, PipelineAssumption DEF IInv, TypeOK, Givens, Own, Held, Status
<1>5. CompletedEnded' /\ StartedOwn' /\ RunningIsTodo' /\ Own(todo.given)' /\ StraysFailed'
  BY <1>2 DEF IInv, StraysFailed, CompletedEnded, StartedOwn, Missing, RunningIsTodo, Own, Held, Status
<1>6. QED
  BY <1>3, <1>4, <1>5 DEF IInv

LEMMA NextIInv == IInv /\ [Next]_vars => IInv'
<1> SUFFICES ASSUME IInv, [Next]_vars PROVE IInv'
  OBVIOUS
<1>1. CASE Tool
  <2>1. UNCHANGED <<routing, slips>>
    BY <1>1 DEF Tool
  <2>2. CASE MissingRequiredArtifact /\ UNCHANGED <<strays, failed>>
    BY <2>1, <2>2, MissingIInv
  <2>3. CASE ArtifactReadError /\ UNCHANGED <<strays, failed>>
    BY <2>1, <2>3, ReadErrorIInv
  <2>4. CASE ExistingRun /\ UNCHANGED <<strays, failed>>
    BY <2>1, <2>4, ExistingIInv
  <2>5. CASE StartRun /\ UNCHANGED <<strays, failed>>
    BY <2>1, <2>5, StartIInv
  <2>6. CASE StillRunning /\ UNCHANGED <<strays, failed>>
    BY <2>1, <2>6, StillRunningIInv
  <2>7. CASE Decide /\ UNCHANGED <<strays, failed>>
    BY <2>1, <2>7, DecideIInv
  <2>8. CASE Decided /\ UNCHANGED <<strays, failed>>
    BY <2>1, <2>8, DecidedIInv
  <2>9. CASE StartFails
    BY <2>1, <2>9, StartFailsIInv
  <2>10. QED
    BY <1>1, <2>2, <2>3, <2>4, <2>5, <2>6, <2>7, <2>8, <2>9 DEF Tool
<1>2. CASE Slip
  BY <1>2, SlipIInv
<1>3. ASSUME NEW r \in Roles, AgentEnds(r) PROVE IInv'
  BY <1>3, AgentIInv
<1>4. ASSUME NEW r \in Roles, StrayEnds(r) PROVE IInv'
  BY <1>4, StrayIInv
<1>5. CASE UNCHANGED vars
  BY <1>5 DEF vars, IInv, TypeOK, StraysFailed, CompletedEnded, StartedOwn, Missing,
              RunningIsTodo, Own, Held, Status
<1>6. QED
  BY <1>1, <1>2, <1>3, <1>4, <1>5 DEF Next

THEOREM Invariance == Spec => []IInv
  BY InitIInv, NextIInv, PTL DEF Spec

-------------------------------------------------------------------------------
(* The pipeline is well typed: the advice only ever names roles, and a     *)
(* field only ever holds an id.                                            *)
THEOREM PipelineTypes == Spec => []TypeOK
<1>1. IInv => TypeOK
  BY DEF IInv
<1>2. QED
  BY <1>1, Invariance, PTL

(* Of the runs that keys lead to, an orchestrator that follows the advice  *)
(* never has two undecided, however many answers are lost, ids forgotten   *)
(* and starts failed; and until a start fails, only one agent is at work.  *)
THEOREM OneAtATime == Spec => []OneRoleAtATime
<1>1. IInv => OneRoleAtATime
  <2> SUFFICES ASSUME IInv PROVE OneRoleAtATime
    OBVIOUS
  <2>1. \A r, s \in Status("running") : r = s
    BY DEF IInv, RunningIsTodo, Status
  <2>2. ASSUME failed = 0, NEW r \in AtWork PROVE r \in Status("running")
    <3>1. strays[r] \in Nat /\ strays[r] <= 0
      BY <2>2 DEF IInv, TypeOK, StraysFailed, AtWork
    <3>2. QED
      BY <2>2, <3>1 DEF AtWork
  <2>3. QED
    BY <2>1, <2>2 DEF OneRoleAtATime
<1>2. QED
  BY <1>1, Invariance, PTL

(* A role is only ever started with the completed reports it requires,     *)
(* each in the field named for it.                                         *)
THEOREM ReportsAreOwn == Spec => []OwnReports
<1>1. IInv => OwnReports
  <2> SUFFICES ASSUME IInv, NEW r \in Roles, runs[r] # NoRun
               PROVE  /\ Missing(r, runs[r].given) = {}
                      /\ \A f \in Fields : LET id == runs[r].given[f] IN
                           id # None => id \in Status("completed") /\ output_artifact[id] = f
    BY DEF OwnReports
  <2>1. /\ Missing(r, runs[r].given) = {} /\ Own(runs[r].given)
        /\ \A f \in Fields : runs[r].given[f] # Invented
    BY DEF IInv, StartedOwn
  <2>2. runs[r].given \in Givens
    BY DEF IInv, TypeOK
  <2>3. QED
    BY <2>1, <2>2 DEF Own, Held, Givens, Ids
<1>2. QED
  BY <1>1, Invariance, PTL
===============================================================================
