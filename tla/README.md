# Formal model of the OpenHands role server

TLA+ modules, TLC configurations and TLAPS proofs for the program in `src/`: an
MCP server (`src/mcp_agent`) through which an orchestrating language model runs
a pipeline of roles (scout, architect, coder, reviewer, publisher), and the
backend service (`src/openhands_llm`) that turns each role into a conversation
of an OpenHands agent.

## 1. The system

    orchestrator (LLM)  --MCP tools-->  server.py: role_list, role_call, role_wait
                                          |
                              role_lifecycle.py: start / wait
                               |        |         |
                     role_store.py  artifact_store.py  summary_validator.py
                     (JSON records,  (files + .meta)
                      idempotency index)
                                          | HTTP: POST /v1/call_lm, GET /v1/jobs/{uid}
                              openhands_llm/server.py -> openhands_llm_call.py
                                          | HTTP
                                   OpenHands API: conversations, events

`role_call` validates a request, looks for a run under the same idempotency
scope, writes a role run record, starts a conversation and returns at once.
`role_wait` polls that conversation, stores the agent's answer as the role's
*primary artifact*, asks for a machine-readable summary **in the same
conversation**, validates the answer and completes the record. Both add a
`next_action` to their answers, which the orchestrator follows. Nothing remains
in memory between two tool calls: all state is in files below
`OPENHANDS_ROLE_STATE_DIR`.

| component | state | operations | hard behaviour |
|---|---|---|---|
| role_wait (`role_lifecycle.py`) | the run's record, its artifacts; locals of a call | enter, revalidate, poll, save, summary turn, fallback, complete | a call ends anywhere (crash, HTTP error) and is repeated from the top; several calls at once; a conversation whose "newest answer" changes meaning |
| role_call (`role_lifecycle.py`) | records, idempotency index | validate, find, create, start, save index | the start is not atomic with the index; failed and lost starts; retries; artifact ids that a language model passes on |
| role store (`role_store.py`) | `<id>.json`, `idempotency_index.json` | create, get, update, find, save index | load-change-save under a lock that no other store object shares |
| artifact store (`artifact_store.py`) | `.artifact` and `.meta.json` files | save, list, get, get_by_path, get_content_by_id | two files, each truncated and written |
| summary validator (`summary_validator.py`) | none | parse, validate, derive, fallback | damaged answers; two formats; a verdict drawn from free text |
| job status (`openhands_llm/server.py`, `openhands_llm_call.py`, `role_lifecycle.py`) | none | three normalisations in a row | a status one layer knows and the next does not |
| backend (`openhands_llm`) | none of its own | start, continue, poll, collect the final answer | events that appear while they are read page by page; three loops with limits; retry with a deadline; `SystemExit` as an error |
| lock manager (`lock_manager.py`) | one lock file per key | acquire, release, get | check-then-act on files; expiry; crashed holders |
| tool surface (`server.py`) | loop-guard counters | unwrap arguments, loop guard, `next_action` | advice that must lead through the pipeline although ids are forgotten and answers lost |
| role catalogue (`roles.yaml`, `roles.py`) | configuration | read only | what a role requires and produces |
| active-role scan (`role_tools.py`) | records | refresh, find | called by nothing |
| prompts, logging, mock server | none | read only | none |

What makes them correct:

* a run is decided once; a decided run is never reopened, and `completed`
  implies a readable, non-empty primary artifact and a control summary;
* PASS, which lets the publisher start, comes from the agent and nowhere else;
* the primary artifact is the answer to the role's own prompt;
* a summary that is accepted says what the agent meant, and every answer,
  however damaged, yields a decision that can be acted on;
* an event search skips nothing it could reach and keeps its order; an empty
  result is never false; the answer is that of the newest finished turn; every
  request of the backend ends;
* a caller that repeats `role_wait` eventually learns the decision, and what it
  was told stays true;
* one idempotency scope has one conversation; the index names only started runs;
* a role starts only with the completed reports of its own predecessors, one
  role runs at a time, and following the advice leads to the publisher after a
  review that passes;
* one role run holds the lock of a branch.

Some of these fail. Section 5 lists where the code and its documents part.

## 2. Modules

| module | models |
|---|---|
| `JobStatus` | `_get_job_status`, `conversation_is_done` and `_get_task_status_once` as operators on what OpenHands reports |
| `Conversation` | an OpenHands conversation as the backend reads it, `search_v1_events` page by page and `collect_final_text_from_events` |
| `FinalAnswer` | `GET /v1/jobs/{uid}` on a `Conversation`: status, search, choice of the answer, retry loop |
| `CallLM` | `POST /v1/call_lm` on a `Conversation`: start and start task, send-message, read only, the loop that collects answers |
| `RoleWait` | `role_lifecycle_wait_impl` on one run, with the record, the artifact's files, the conversation, any number of calls at once |
| `RoleRun` | the abstract run: decided at most once, report fixed with the decision, PASS on the agent's word |
| `RoleCall` | `role_call_start_impl`, the records, the artifacts by id and the idempotency index |
| `SummaryValidator` | the two summary parsers, the derivation of the reviewer's action and the fallback, over the lines of a damaged answer |
| `Pipeline` | the tools with their `next_action`, the catalogue, and an orchestrator that follows one or the other advice |
| `LockManager` | `RoleLockManager`: acquire, release, expiry |
| `RoleWaitProofs`, `RoleCallProofs`, `ConversationProofs`, `FinalAnswerProofs`, `CallLMProofs`, `SummaryProofs`, `PipelineProofs`, `LockManagerProofs` | theorems about them |
| `MC...` | finite texts, requests and symmetry sets for TLC, one module per checked module |

How they are put together: `FinalAnswer` and `CallLM` are the two ways in which
the backend reads the same `Conversation`, which they extend; `Conversation`
and `RoleWait` extend `JobStatus`, so the word for a job is the same on both
sides of the HTTP API. `RoleWait` implements `RoleRun` through the instance
`Run`. `Pipeline` composes `role_call` and `role_wait` over all roles with one
step for each tool call; `RoleCall` and `RoleWait` take these steps apart.

### RoleWait

`rec` is the record as far as the code reads it back: `status`,
`lifecycle_state`, the action of `result_summary` (`absent` while there is
none; `artifacts` is always written by the same update) and whether
`openhands_task_id` is set. `primary` is the content file and whether its
metadata file is there and readable. `summary` is the summary artifact. `conv`
is the conversation. `w[p]` holds the local variables of call `p`, with a
program point for every access to shared state, in the order of the code:

    idle -Enter-> revalidate | poll | reply
    poll -> emptied | ended | received -> open -> write -> open_meta -> write_meta
         -> check -> prompting -> send -> summary_poll -> answered
         -> [unparsed] -> save_summary -> stored -> finishing -> reply
    send -(exception)-> fallback -> finishing

`update_role_run` is two steps (`LoadRecord`, then the update of the point)
because each call builds its own `RoleRunStore` and so its own lock.
`ArtifactStore.save` is four: `write_text` truncates before it writes, and the
metadata file follows the content file. A call may end at any point (`Crash`),
a status request may fail (`PollFails`), the backend may not find the
conversation (`PollFindsNothing`), and the summary prompt may be delivered
although the request failed (`SendFails`).

A reader of the code will look for these abstractions:

* Texts are members of small sets. `Parsed` (what `validate_summary` makes of a
  text) and `Derived` (what `derive_reviewer_action_from_main_artifact` finds)
  are constants, so the proofs hold for every classification;
  `SummaryValidator` says which classification the code has.
* The conversation is external. A turn ends with a new answer or leaves the old
  one as the newest; a prompt restarts the conversation at once
  (`PromptRestarts`) or is taken up later (`pending`). Both occur behind an HTTP
  API that promises neither.
* The status and the answer of one poll are read together. The backend reads
  the conversation first and its events afterwards; `FinalAnswer` models that, and
  says when the newest answer is what a poll gets.
* Time is a choice: `Deadline` may follow any poll that found the run running,
  `SummaryDeadline` comes at any moment. The clamping arithmetic guarantees the
  one poll before `Deadline`.
* A write that raises an exception is a `Crash` at that point.

### RoleCall

`records`, `index` and `convs` are the files and the conversations the backend
has begun; `artifacts` holds which run's report or summary each artifact id
names. `Valid` is steps 1 to 5 of the function, which write nothing: a
request's `given` says which kind of artifact the caller puts into each field,
its own or a wrong one, and the code resolves the id without a look at the
content. Steps 6
to 8 are one action per access: `FindRun`, `Reuse`, `Create` (status `running`),
`MarkStarting`, `StartConversation` or `StartFails` (the conversation may have
begun all the same), `MarkRunning` or `MarkFailed`, `LoadIndex`, `SaveIndex`.
`idempotency_scope` distinguishes the caller's key from the fallback made of
role, task, repository and feature. `SaveReport` and `Decide` are the effect of
`role_wait` on a started run, as `RoleWait` establishes it: the report is
readable before the run is completed, and a cancelled or timed-out run is polled
again.

### Conversation

`log` holds the events of a conversation, oldest first; the API returns the
first `visible` of them. An event is reduced to its turn, its kind (`finish`,
`message`, `other`) and whether its text is an answer or a filler such as
"done". The agent writes, events become visible, turns end and prompts arrive at
any moment, also between two pages. A search is a record: the ids collected in
their order, the offset of the next page, how many pages were read, and what was
visible when it began and when the last page was read. A page begins at an
offset from the newest visible event, so events that appear push older ones onto
the next page (`seen_ids` drops what comes twice) and, if more appear than a page
holds, are themselves collected behind older ones. The order and the offsets of
the pages are OpenHands' and external.
The parsers that find a text in an event (`content_to_text`,
`extract_finish_action_text`) are reduced to the event's kind; the observation
that repeats a finish action's text is one event with it.

### FinalAnswer

`job` is the request: `GetConversation`
reads the status once, `ReadPage` takes a page, `ReadFails` ends the search with
what there is, `ReadRaises` ends the request, `Judge` chooses an answer
or goes on, `Sleep` waits and begins a new search. `left` is the time to the
deadline; requests take time too (`Tick`). `reply` records beside the answer what
the properties compare it with: the turn when the request began, the search with
the number of events visible when it began (`seen`), whether a page failed
(`cut`).

### CallLM

`call` is the request with the point it has reached and the locals of
`main`: `collected` (the texts in the order met), `ids` (`seen_event_ids`),
`attempt` (looks of the current phase), `final` (the looks after the end of the
conversation). A new conversation goes through a start task that OpenHands works
on (`task`); `SendMessage` adds a prompt to an existing one. One look is a
search page by page and `Collect`; `GetStatus` reads the conversation and decides
for another poll, the final looks or the end. Every request may fail:
`fail()` raises `SystemExit`, which the service turns into an error answer
(`RequestRaises`, `PromptFails`), a page or the status that cannot be read is
swallowed (`PageFails`, `GetStatusFails`). Sleeping is left out, the limits on the
number of looks are kept. What a new conversation is started
with is data of the first request.

### SummaryValidator

A text is a sequence of lines (`Begin`, `End`, a field, a bullet, a blank, a
remark, a `next_role:` line, a JSON object on one line). The agent means to write
one summary, `Written` in the structured format or as JSON; then mishaps befall
the lines: one is lost, doubled or displaced, the rest is cut off, something is
put in between, the format it was shown is repeated first (`Echo`). The
structured parser is `ReadLines`, a recursive function that applies `ReadLine` to
the lines between the markers one after the other; `Named` lists the verdicts a report
names, which the fallback takes the first of;
`validate_summary` decides between the two parsers as the code does;
`DecideBySummary` and `DecideByFallback` are what `role_wait` makes of the
result. Values are reduced to a known one, the missing one, and `"?"` for
anything that the format does not know. One JSON object is kept or lost as a
whole: half of one is no JSON. `AcceptedAsMeant` allows for one case in which the risk is
lost: a `RISK: ?` of the format that was shown, left in the text by a mishap, overwrites the
risk that was meant, and since the parser knows no such risk it keeps none. That takes
more mishaps than the run has; the attempt to prove the property for any number of
them found it.

### Pipeline

`runs` is the run that each role's key leads to, `strays` counts the agents of each
role that work in other conversations, `todo` is the tool call the orchestrator
makes next, `known` the artifact id it remembers for each field, `started` the
order of starts. All calls carry the key `feature-<role>` that `README.md` and
`prompts/head_of_it.md` prescribe, so a key leads to at most one run of a role. The tool
calls are actions in the order of their checks (`MissingRequiredArtifact`,
`ArtifactReadError`, `ExistingRun`, `StartRun`, `StartFails`; `StillRunning`, `Decide`,
`Decided`), each with the advice it adds. `StartFails` is every end of a start that
saves no key: an exception of the request, an answer without an id, a server that dies
before the key is saved. The conversation may have begun all the same; then its
agent works on in `strays` until it ends (`StrayEnds`). The orchestrator repeats
the call, or stops after the one answer that is not retryable. An answer may be lost,
then the call is repeated; an id may be forgotten or garbled (`Slip`). `routing` says which advice
the orchestrator goes by: the server's `next_action`, the loop of reviews and
fixes of `prompts/head_of_it.md`, or that loop with the reviewer's call as it is
written there.

### LockManager

One lock file; keys have separate files. `created_at` is an age in ticks that
stops growing one tick beyond the TTL, so time needs no bound. `acquire` is
`Acquire` (takes `created_at`), `Get`, `Decide`, `_write_lock`; `release` is
`Release`, `Get`, `Compare`, `Unlink`, whose `OSError` is swallowed. With
`Concurrent = FALSE` calls do not overlap; the runs go on between them.
A malformed lock file, which `get` reads as none, is not modelled: files appear
under their name only by rename, after fsync.

## 3. Runs

| run | configuration | checks | shows |
|---|---|---|---|
| `one` | one `role_wait` at a time, reviewer, 2 crashes or HTTP errors anywhere, queued prompts | `TypeOK`, `CompletedReadable`, `PrimaryIsMainWithoutFaults`, `DecisionFinal`, `PromptAfterArtifact`, `ImplementsRoleRun` | repeated calls implement the abstract run |
| `two` | two calls at once, no faults | `CompletedHasResult`, `PassOnlyFromAgent` | no interleaving of the updates completes a run without a summary or makes up a PASS |
| `retry` | one call at a time, another role, 2 HTTP errors, fairness | `ReportedCompletionHolds`, `EventuallySettled` | what a caller was told stays true; the run is decided |
| `calls` | four `role_call` calls in sequence, one fault | `TypeOK`, `ScopeKeepsItsRun`, `OneConversationWithoutFaults` | deduplication |
| `pair` | two `role_call` calls at once, three in all, right and wrong artifact ids, one fault | `IndexedRunStarted`, `AnsweredRunStarted`, `PrerequisiteStarted` | the index, the answers and the order of roles survive every interleaving |
| `answer` | two turns, four events visible late, two pages of one event, one HTTP error, fairness | `TypeOK`, `NewestFirst`, `NothingSkipped`, `NoAnswerMissed`, `AnswerOfFinishedTurn`, `RequestEnds` | a poll gets the right answer if the turn ended with a finish action, and never a false empty result |
| `blocking` | seven kinds of request on a conversation of two turns, two events, one HTTP error, two looks in each loop, fairness | `TypeOK`, `CollectedOnce`, `EmptyAfterAllLooks`, `EmptyOnlyIfSilent`, `FinishWins`, `CallEnds` | the loop that collects answers loses none while it looks, counts none twice but one that the last look ends with, and ends |
| `summaries` | both kinds of role, both formats, every unknown value, two mishaps | `TypeOK`, `ReadAsDeclared`, `AcceptedAsMeant`, `CutOffRejected`, `FormatsAgree`, `AlwaysRoutable` | a damaged summary is refused or read as meant; every answer gives a decision |
| `locks` | three runs, TTL 1, calls do not overlap, crashes, failing unlinks, fairness | `Mutex`, `OrphanRecovered` | expiry and ownership |
| `pipeline` | all six roles as the first call, three kinds of orchestrator, two slips, two lost answers, two failed starts, fairness | `TypeOK`, `OneRoleAtATime`, `OwnReports`, `Published` | the advice keeps the order of roles, whatever is lost or fails, and leads to the publisher if the review passes |
| `overwrite` | one HTTP error | violates `PrimaryIsMainAnswer` | section 5, 2 |
| `unreviewed` | no slip, nothing lost | violates `PublisherAfterPass` | section 5, 3 |

More configurations, to be run by hand with `tlc -config <file>.cfg <MC module>`:

| configuration | shows |
|---|---|
| `MCFinalAnswer_answer_done` | run `answer` with fillers beside answers, and `RequestAdvances`; passes |
| `MCCallLM_blocking_long` | run `blocking` with three events, and `CallAdvances`; passes |
| `MCRoleWait_crash` | violates `ReportedCompletionHolds` (section 5, 1) |
| `MCRoleWait_overlap` | two calls at once, no faults; violates `ReportedCompletionHolds` (16) |
| `MCRoleWait_endless` | no assumption on the agent; violates `EventuallySettled` (15) |
| `MCRoleCall_twice` | violates `RetriesDeduplicated` (13) |
| `MCPipeline_parallel` | one failed start; violates `NoParallelRoles` (14) |
| `MCRoleWait_queued` | violates `SummaryFromSummaryTurn` (4) |
| `MCFinalAnswer_stale_answer` | violates `AnswerOfLastTurn` (5) |
| `MCCallLM_interim` | violates `FinalAnswerReturned` (6) |
| `MCCallLM_old_answer` | violates `NewAnswer` (7) |
| `MCSummaryValidator_verdict` | violates `FallbackKeepsVerdict` (8) |
| `MCPipeline_unfixed` | violates `FixReviewed` (9) |
| `MCPipeline_plan_only` | violates `Reviewed` (10) |
| `MCRoleCall_slots` | violates `SlotHoldsItsArtifact` (11) |
| `MCLockManager_lock_race` | violates `Mutex` (12) |

**The bounds.** `RoleWait`: three main answers and three summaries are one of each
class that `Parsed` and `Derived` distinguish; a reviewer's run is the case with
the most outcomes, and `retry` takes the other. Two faults are enough for a fault
in the call that recovers from the first. The number of `role_wait` calls is not
bounded: a caller repeats for ever. `two` has texts that never say PASS, so any
PASS in the record would be made up, and leaves the responses out of the state
(`VIEW`), which none of its properties reads. `RoleCall`: the scout and the
architect are the shortest pipeline; four calls allow a start, its retry, the
next role and its retry; a spare run id is left for each call. `Conversation`:
pages of one event and searches of two make every event a page boundary and the
third one fall out of reach; four events fill a search while it goes on and push
two out; two turns are the main turn and the summary turn. `FinalAnswer`: a retry
time of one tick with an interval of one is looked at in full, after a tick, and
at the deadline. `CallLM`: two looks in each of the three loops are one that
goes on and one that is the last; `max_polls` and the others are limits of the
code, not of the model. `SummaryValidator`: two mishaps are one that damages a
block and one that could hide it; two blockers give a first and a last one.
`Pipeline`: two slips are an id forgotten twice or an id forgotten and one
garbled; two failed starts leave two agents of one role or of two roles without a key,
or fail the start that repeats the first; its tool calls are not bounded, only slips,
lost answers and failed starts are.
`LockManager`: a TTL of
one tick distinguishes a fresh from a stale lock; three runs are a holder, the
run that overtakes it and the run that would profit from a wrong release.

**Deadlock** is checked except where the system stops: `MaxCalls` ends the runs of
`RoleCall`, a decided answer those of `SummaryValidator`, and an orchestrator
that has no advice left, or whose start was refused for good, those of `Pipeline`.

**Fairness.** `role_wait` is run by a server that goes on with a call it has begun,
and `prompts/head_of_it.md` tells the orchestrator to call again until it gets
`completed` or `failed`: weak fairness of each call's steps and of starting the
next one. Turns of the agent end (`TurnsEnd`): the code has no limit of its own,
and without this assumption `EventuallySettled` is false, which is point 15 of section 5.
A request of the backend that was begun goes on (`Request`, `Step`); neither time
nor the conversation need go on for its loops to end. In `Pipeline` the
orchestrator makes the call it was told to make (`Tool`) and agents end
(`AgentEnds`), which `TurnsEnd` is in `RoleWait`; an agent that no key leads to
(`StrayEnds`) may go on for ever. For the lock, time passes, a call goes
on, some run keeps asking, and writing a
temporary file succeeds if tried for ever (strong fairness, because a failed
write starts over). Nothing makes a holder release.

## 4. Proofs

Checked by TLAPS, for every value of the constants that satisfies the named
assumptions (`RoleWaitAssumption`, `RoleCallAssumption`, `ConversationAssumption`,
`FinalAnswerAssumption`, `CallLMAssumption`, `SummaryAssumption`,
`PipelineAssumption`, `LockAssumption`; TLC
evaluates them on every run). A module about a component proves one inductive
invariant `IInv`
in the theorem `Invariance`, with one lemma for each action or group of actions,
and draws the properties from it; TLC checked `IInv` on the instances of section 3
before it was proved. The second parts of `RoleWaitProofs` and `RoleCallProofs` add to
the invariant what holds when calls do not overlap. Every invariant and every action
property of the passing runs is stated by one of the theorems.

* `RoleWaitProofs`: `TypeCorrect`, `CompletionCarriesResult`, `PassIsTheAgents`,
  for any set of concurrent calls and any number of faults. `CompletedHasResult`
  is not inductive: an update saves a *copy* of the record loaded earlier, so the
  invariant says of every loaded copy what it says of the record, and of a call
  at `finishing` that it carries an action. For PASS the invariant says that every
  action a call or a copy carries has a passing answer behind it in `conv.said`,
  which only grows, and that texts held by a call were said.
* `RoleWaitProofs`, second part, under `OneCall` (one `role_wait` at a time on a run, the MCP
  server's way; `Waiters = {p}`): `ImplementsRun`, `DecidedForGood`,
  `CompletedIsReadable`, `ReportBeforePrompt`, `ReportIsMainAnswer`,
  `ReportedHolds`. `IInvOne` adds to `IInv` that a loaded copy is current, that a
  call works on the run only while it is undecided, that the report is readable
  from the check on and in every completed run, and that it is something the agent
  said. The steps then fall into seven kinds (`Kinds`): the agent's, those that only
  read, those that write the report, the three that update the record (`Failing`,
  `Advancing`, `MarkCompleted`), and stuttering; each kind maps to a step of `RoleRun` or
  to none. The last two theorems add an invariant each: while nothing has failed, the summary
  prompt is out only if a call is past sending it or the run is completed
  (`Asked`), so `Poll` sees the main turn only; and without crashes a lifecycle
  that counts as summarised means completed, unless the call that saved the
  summary is about to complete it (`SavedIsCompleted`). Both are false with the faults
  they exclude: points 1 and 2 of section 5.
* `RoleCallProofs`: `RoleCallTypes`, `IndexIsSound`, `AnswersAreSound`,
  `PipelineOrder`. The index needs that a call past `post` has begun its conversation, that every copy of
  the index is sound too, and that run ids in use are those of non-empty
  records. An answer inherits this from the index or from the
  save, and its role from the scope, which names the role in both of its forms
  (`ScopeNamesRole`). The order of the pipeline rests on artifacts existing only for roles
  whose conversation was begun, and on a call remembering a request that was
  valid when it was checked: artifacts are never taken away.
* `RoleCallProofs`, second part, under `OneCaller` (one `role_call` at a time): `KeyKeepsItsRun`,
  `OneConversation`. While a call starts a run its scope is free (`ScopeFree`), the
  index it saves over is the current one (`CurrentIndex`), and, while nothing has
  failed, a conversation that the index does not name is the one this call is about to
  enter (`Entered`).
* `ConversationProofs`: what one more page does to a search that goes on while
  events appear (`AfterPageOK`), and what its last page means
  (`LastPageMeetsAll`). The invariant of a search (`SearchOK`) has five parts:
  no id is collected twice (`Once`); in descending order (`Descending`), with
  nothing below the end of its last page (`Above`) and that page's events
  all collected (`LastPageMet`), unless `overtaken`; and every event that the
  search began with and that lies above that end is collected (`Reached`). The
  step from page to page compares the end of the last page, seen from the newest
  event of that moment, with the offset of the next, seen from the newest event
  now: events that appeared in between move the next page up by as many. `CallLM`
  needs more, because it compares one search with the next: between an event that
  was collected and the end of the last page nothing is missing, also in a search
  that was overtaken (`Gapless`, `AfterPageGapless`), and the agent adds to the log and
  takes nothing back (`AgentKeepsLog`). `Taken` says which event
  `collect_final_text_from_events` takes from a list: the first finish action in it, or else
  the first message.
* `FinalAnswerProofs`: `JobTypes`, `SearchKeepsOrder`, `SearchIsComplete`,
  `EmptyIsTrue`, `AnswerIsOfFinishedTurn`, `RequestGetsNearer`, for every size and number of pages,
  every retry time and any number of turns, events and errors. The order of a
  search is what makes the first finish action in the list the newest one, and
  its completeness is what makes an empty result true; the reply keeps both when
  the job has gone.
  `RequestGetsNearer` proves `RequestAdvances`: `Remaining` counts the looks that are left,
  each worth more than all its pages, and nothing, neither the agent nor an error nor
  time, makes it grow while a request goes on.
* `CallLMProofs`: `CallTypes`, `TextsCollectedOnce`, `EmptyIsLast`, `EmptyIsTrue`,
  `FinishIsAnswer`, `CallGetsNearer`, for any requests, limits, page sizes and number of turns, events
  and errors. `CollectedOnce` says nothing of how the list came about, so the
  invariant has two parts. `SearchInv` is about the search of the present look: what
  `SearchOK` and `Gapless` say of it, and that one that was neither cut nor overtaken met
  everything it could reach. `MetInv` is about all looks so far: every id in
  `seen_event_ids` whose event has a text is in the list, once, and below each such id
  no event is missing down to the end of the reach (`Horizon`), as long as no page
  failed. The second half is what `FinishWins` needs: an event that a look meets for the
  first time is then newer than everything collected before, and only within one look
  may a newer text stand before an older one. The reply is not in `MetInv`: the
  last look at an end that brings nothing new adds the text it ends with once more, and
  `RepliesOnce` says that this is the only one that a reply has twice (`ReplyOf` draws
  it from the list the reply is made of). `CallGetsNearer` proves `CallAdvances`: the
  start task, the polls and the final looks are counted in one measure, which the
  beginning of the final looks, where `attempt` starts over, lowers too.
* `SummaryProofs`: `SummaryTypes`, `BlockIsRead`, `AcceptedIsMeant`, `CutOffIsRejected`,
  `FormatsRead`, `DecisionIsRoutable`, for any number of mishaps, any set of
  summaries an agent may mean and any reports. What a step does to the text matters
  only through the lines it leaves: the invariant says that a line is one the agent
  meant, one of the format it was shown, or says nothing (`Sayable`), which every
  mishap keeps. What the parser makes of *any* such text is `ReadsAll`, by induction
  over its lines (`ReadSoFar`): the value of a field is that of its last line
  (`LastValues`), and the blockers are the bullets under a `BLOCKERS` heading with
  nothing but bullets and blanks in between (`Headed`), in their order (`InOrder`).
  An accepted summary is then compared with what was meant field by field.
* `PipelineProofs`: `PipelineTypes`, `OneAtATime`, `ReportsAreOwn`, for any
  starts, routings, verdicts, slips, lost answers and failed starts. `role_call` has
  no guard against a second role, so the invariant is about what the orchestrator
  holds: while a run that a key leads to is undecided, `todo` is the `role_wait` for it,
  or the `role_call` whose answer was lost (`RunningIsTodo`); each failed start
  leaves one agent at most without a key (`StraysFailed`), so there is none before the
  first; and every
  id it remembers or is about to pass on is forgotten, garbled or the completed report that
  the field is named for (`Own`). The catalogue's facts that this needs (every
  required report has a field and a producer) are the lemma `Catalogue`.
* `LockManagerProofs`: `MutualExclusion`, under `~Concurrent`. A holder within
  its TTL is the owner in the file with the same age, and what the only call in
  progress has read still holds when it acts.

A step that changes several locals of one call is written
`[w EXCEPT ![p] = [@ EXCEPT !.pc = ..., !.main = ...]]`. The equivalent form with one
path per field (`![p].pc = ..., ![p].main = ...`) must not come back: where `w[p]` is known to be
a record, tlapm 1.4.5 sends it to Z3 in a way that contradicts the old value of a
field, and such a leaf proves anything.

What recursive functions compute (`NewTexts`, `ReadLines`, `Named`) is proved
by induction over the places of a sequence of given length. The library's induction
theorems take an operator as a parameter, which the provers here cannot be given,
but a statement about places is a set of places: `Least` draws from
the well-foundedness of `<` that a non-empty set of naturals has a least member,
`Induction` applies it to the places at which a statement fails, and `LoopExists` shows
that a function given by its first value and its step exists.

Only model-checked: the liveness properties `EventuallySettled`, `RequestEnds`,
`CallEnds`, `Published`, `OrphanRecovered`. They rest on fairness, hence on `ENABLED`, which
is beyond the prover. For `RequestEnds` and `CallEnds` what is left to TLC is only that a
request that was begun always has a step to take: that it takes finitely many is proved.
The properties of the two runs that expect a violation are false, as are those of the
configurations that violate theirs.

## 5. Where the code and its documents part

1. **Completed without a summary** (`crash`). A process that ends between saving
   the summary artifact and completing the record leaves `summary_artifact_saved`
   with status `running`. Every later `role_wait` answers `completed` with an empty
   control summary and no artifacts, and the record never becomes completed.
2. **Primary artifact overwritten** (`overwrite`). One failed status request
   during the summary turn ends the call; the repeated one starts at the main
   poll and stores the answer to the *summary* prompt as the role's report.
3. **Published after a failed review** (`unreviewed`). `role_wait`'s `next_action` for
   a completed reviewer is the publisher, whatever `control_summary.action` says,
   against `README.md:363-366`.
4. **Summary of the wrong turn** (`queued`). The first poll after the summary
   prompt may still see the finished main turn; its answer is then validated as
   the summary, which `docs/continue-conversation-smoke-test.md:67` excludes.
5. **Answer of the wrong turn** (`stale_answer`). A finish action anywhere in the
   conversation is preferred to a newer message, so a summary that the agent
   gives as a plain message is not seen: the main report is taken for it.
6. **Interim message for the final answer** (`interim`). `/v1/call_lm` returns the last
   text of its list, but a look appends its texts newest first: a message that
   becomes visible together with the finish action after it is returned.
7. **Old answer to a new prompt** (`old_answer`). A call on an existing conversation
   starts with no seen ids and collects the earlier turns' answers; they are
   returned if nothing newer is collected.
8. **A verdict found by chance** (`verdict`). The fallback takes the first
   `ACTION: PASS` or `ACTION: BLOCKER` anywhere in a report; the verdicts
   `NEEDS_FIX` and `BLOCKED` of `prompts/reviewer.md` are not looked for.
9. **The fix is never reviewed** (`unfixed`). The key prescribed for the reviewer
   finds the first review again.
10. **The prompt's reviewer never starts** (`plan_only`). It passes one of the three
    artifacts that `config/roles.yaml` requires; the advice on the error starts
    over.
11. **Any artifact in any field** (`slots`). An id is resolved, not compared with
    the field it fills.
12. **Lock race** (`lock_race`). `acquire` checks and then renames: two
    overlapping calls both get the lock. No tool call takes it at all, against
    `README.md:458`.
13. **Retry starts twice.** The idempotency key is saved after the start, so a
    lost answer makes the retry begin a second conversation, against `README.md:463`
    (`twice`). Run `calls` checks the same without a fault.
14. **Parallel roles** (`parallel`). `README.md:410` says the server prevents them by
    scanning the records; no tool call scans. A start that fails is retryable: if its
    conversation has begun, the repeated call begins another one, and when that is
    completed the advice starts the next role beside the first agent. What
    does hold, `OneRoleAtATime`, is of the runs that keys lead to, and of an
    orchestrator that makes one call after the other as it is told, not of the server.
15. **No time limit** (`endless`). `timeout_minutes` is not passed on, against
    `README.md:453-456`: a run whose agent does not end is never decided.
16. **A completion is lost** (`overlap`). Two `role_wait` calls at once save whole records:
    one completes the run and reports it, the other saves the copy it loaded before,
    and the run is running again, against the comment at `role_lifecycle.py:1205`.
17. Smaller ones (values and blockers that the structured parser drops silently,
    scope and field name of deduplication, statuses of a
    deduplicated answer, a failed run that keeps its key, the answer of a failed
    job) are in `PROJECT.json`.

## 6. Not modelled

* `_find_active_role_run`, the refresh of stale records and the error for a
  second running role (`role_tools.py`, `server.py`): called by nothing. A model
  of them would be a model of code that never runs.
* The loop guard, the check for nested payloads and the check for artifact
  content in `server.py`: they look for values that are no strings, and the
  declared type of every field (`McpString`) has made strings of them before.
* The arithmetic of `timeout_seconds` and `poll_interval_seconds`: one `max` and
  one `min` each. `RoleWait` relies on what it guarantees: one poll at least.
* `repair_summary` (builds a prompt, called by nothing); `list`, `get` and
  `get_by_path` of the artifact store (only read, reached by no tool call: the
  server lets only ids through); `save_artifact`, `get_artifact` and
  `clear_idempotency_scope` of the role store (called by tests only).
* `GET /v1/jobs/{uid}/events` (relays events unread), the configuration from the
  environment, the command line's output.
* Unwrapping of arguments, prompt templates, logging: formatting.
  `mock_server.py` is a double for tests; Docker files.

What could be added: a measure like that of the two backend requests for
`EventuallySettled` and `Published`, where it holds only between two faults, slips or new
prompts.
