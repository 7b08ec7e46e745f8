----------------------------- MODULE Conversation -----------------------------
(***************************************************************************)
(* An OpenHands conversation as openhands_llm_call.py reads it: the status *)
(* and the event log, page by page, newest event first.                    *)
(*                                                                         *)
(* The conversation belongs to OpenHands: an agent writes events turn by   *)
(* turn, they become visible in order but possibly after the end of the    *)
(* turn is, and a page begins at an offset from the newest visible event,  *)
(* so that pages overlap when events appear while they are read.           *)
(***************************************************************************)
EXTENDS JobStatus, Naturals, Sequences

CONSTANTS
  limit,           \* events of a page
  max_pages,       \* pages of a search
  Lag,             \* do events become visible later than they are written
  Words,           \* the events in which the agent says something
  MaxTurns,        \* bounds: prompts, events of the conversation,
  MaxEvents,
  MaxFaults        \* HTTP errors

ASSUME ConversationAssumption ==
  /\ limit \in Nat \ {0} /\ max_pages \in Nat \ {0}
  /\ Lag \in BOOLEAN
  /\ Words \subseteq [kind : {"finish", "message"}, text : {"answer", "done"}]
  /\ MaxTurns \in Nat \ {0} /\ MaxEvents \in Nat /\ MaxFaults \in Nat
  /\ NoText \notin {"answer", "done"}

VARIABLES
  log,       \* the events written, oldest first; an event's id is its place
  visible,   \* how many of them the API returns
  turn,      \* prompts sent so far
  execution_status

conversation == <<log, visible, turn, execution_status>>

-------------------------------------------------------------------------------
(* "done" is a text that extract_final_answer takes for no answer; Silence *)
(* stands for every event with no text of the agent.                       *)
Silence == [kind |-> "other", text |-> NoText]
Events == [turn : 1..MaxTurns, kind : {"finish", "message", "other"},
           text : {"answer", "done", NoText}]

NoEvent == 0
Text(e) == IF e = NoEvent THEN NoText ELSE log[e].text

(* What get_v1_conversation returns; nothing if the request fails.         *)
Found(status) ==
  [found |-> TRUE, execution_status |-> status, status |-> "none", runtime_status |-> "none"]
NotFound == [Found("none") EXCEPT !.found = FALSE]

(* A finish action is the agent's last word of a turn.                     *)
Finished == \E e \in DOMAIN log : log[e].turn = turn /\ log[e].kind = "finish"

Write ==
  /\ execution_status = "running" /\ Len(log) < MaxEvents
  /\ \E w \in IF Finished THEN {Silence} ELSE Words \cup {Silence} :
       log' = Append(log, [turn |-> turn, kind |-> w.kind, text |-> w.text])
  /\ visible' = IF Lag THEN visible ELSE Len(log')
  /\ UNCHANGED <<turn, execution_status>>

Flush ==
  /\ visible < Len(log)
  /\ visible' = visible + 1
  /\ UNCHANGED <<log, turn, execution_status>>

EndTurn ==
  /\ execution_status = "running"
  /\ execution_status' \in {"finished", "error"}
  /\ UNCHANGED <<log, visible, turn>>

Prompt ==
  /\ execution_status # "running" /\ turn < MaxTurns
  /\ turn' = turn + 1
  /\ execution_status' = "running"
  /\ UNCHANGED <<log, visible>>

Agent == Write \/ Flush \/ EndTurn

ConversationOK ==
  /\ log \in Seq(Events) /\ Len(log) <= MaxEvents /\ visible \in 0..Len(log)
  /\ turn \in 0..MaxTurns
  /\ execution_status \in {"starting", "running", "finished", "error"}

-------------------------------------------------------------------------------
(* search_v1_events: `events' are the ids collected so far, page_id the    *)
(* offset of the next page; `top' is the newest event when the last page   *)
(* was read, `seen' when the search began.  A page that cannot be read     *)
(* ends the search with what there is (`cut').  A search is `overtaken'    *)
(* when more events than a page holds appeared between two of its pages.   *)
Searches ==
  [page_id : Nat, pages : 0..max_pages, events : Seq(1..MaxEvents),
   top : 0..MaxEvents, seen : 0..MaxEvents, cut : BOOLEAN, overtaken : BOOLEAN]
NoSearch == [page_id |-> 0, pages |-> 0, events |-> <<>>, top |-> 0, seen |-> 0,
             cut |-> FALSE, overtaken |-> FALSE]
NewSearch == [NoSearch EXCEPT !.top = visible, !.seen = visible]

PageSize(s) ==
  IF visible <= s.page_id THEN 0
  ELSE IF visible - s.page_id < limit THEN visible - s.page_id ELSE limit
FromZero(s) ==            \* mutant: a page begins one event too late
  [n \in 1..PageSize(s) |-> visible - s.page_id - n]
Page(s) == [n \in 1..PageSize(s) |-> visible - s.page_id - n + 1]

(* Of a page, the events not collected yet, in its order: newest first.    *)
Collected(s) == {s.events[m] : m \in DOMAIN s.events}
EveryItem(s) == {Page(s)} \* mutant: no seen_ids
NewItems(s) ==
  LET fresh == {Page(s)[n] : n \in DOMAIN Page(s)} \ Collected(s)
  IN {new \in UNION {[1..k -> fresh] : k \in 0..limit} :
        /\ \A e \in fresh : \E n \in DOMAIN new : new[n] = e
        /\ \A m, n \in DOMAIN new : m < n => new[m] > new[n]}

AfterPage(s, new) ==
  [s EXCEPT !.events = @ \o new, !.page_id = @ + limit, !.pages = @ + 1,
            !.top = visible, !.overtaken = @ \/ visible > s.top + limit]
LastPage(s) == s.page_id + limit >= visible \/ s.pages + 1 >= max_pages

(* What a complete search must have met: the events visible when it began  *)
(* and not pushed out of its pages since.                                  *)
MetSince(seen) == {e \in 1..seen : visible - e < limit * max_pages}

-------------------------------------------------------------------------------
(* A finish action anywhere in the list before any message, then the first *)
(* message: the list is newest first.                                      *)
First(events, kind) ==
  LET hits == {n \in DOMAIN events : log[events[n]].kind = kind}
  IN IF hits = {} THEN NoEvent ELSE events[CHOOSE n \in hits : \A m \in hits : n <= m]
MessageFirst(events) ==        \* mutant: messages are preferred
  IF First(events, "message") # NoEvent THEN First(events, "message")
                                        ELSE First(events, "finish")
collect_final_text_from_events(events) ==
  IF First(events, "finish") # NoEvent THEN First(events, "finish")
                                       ELSE First(events, "message")
===============================================================================
