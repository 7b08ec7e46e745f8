----------------------------- MODULE CallLMProofs -----------------------------
(***************************************************************************)
(* Invariants of CallLM for every set of requests, every number of polls,  *)
(* of looks and of faults, and pages of any size: what is collected over   *)
(* several looks is collected once and completely, so that an empty result *)
(* is never false and a finish action is not overtaken by an older text.   *)
(***************************************************************************)
EXTENDS CallLM, ConversationProofs

(* The states of a call; a request that is none is that of NoCall.         *)
PCs == {"idle", "start", "task", "send", "poll", "page", "collect", "status"}
Calls ==
  [pc : PCs, request : Requests \cup {NoCall.request}, final : BOOLEAN, attempt : Nat,
   over : Nat, collected : Seq(1..MaxEvents), ids : SUBSET (1..MaxEvents), late : Nat,
   whole : BOOLEAN, search : Searches]

(* A start task belongs to a conversation without a prompt; a prompt is    *)
(* sent only where one more is allowed.                                    *)
TaskInv ==
  /\ task \in {"none", "working", "READY", "ERROR"}
  /\ turn \in 0..MaxTurns
  /\ execution_status \in {"starting", "running", "finished", "error"}
  /\ turn = 0 <=> task # "READY"
  /\ execution_status = "running" => turn # 0
  /\ call.pc = "start" => task \in {"none", "ERROR"}
  /\ call.pc = "send" => turn \in 1..(MaxTurns - 1)

(* The looks of a phase are counted up to its limit.                       *)
Limit == IF call.final THEN final_retries ELSE max_polls
LooksInv ==
  /\ call.pc # "idle" => call.request \in Requests
  /\ call.pc \in {"start", "task", "send"} => ~call.final
  /\ call.pc \in {"idle", "start", "send"} => call.attempt = 0
  /\ call.pc = "task" => call.attempt < start_attempts
  /\ call.pc = "poll" => call.attempt < Limit
  /\ call.pc \in {"page", "collect", "status"} => call.attempt <= Limit
  /\ call.pc = "status" => ~call.final
  /\ call.request.mode = "read_only" =>
       ~call.final /\ call.pc \in {"poll", "page", "collect"}

(* The search of the present look, or of the last one.                     *)
SearchInv ==
  /\ SearchOK(call.search) /\ Gapless(call.search)
  /\ call.search.top <= visible /\ call.over <= visible
  /\ call.pc = "page" => call.search.pages < max_pages
  /\ call.pc \in {"collect", "status"} /\ call.whole =>
       call.search.page_id >= call.search.top \/ call.search.pages = max_pages
  /\ call.pc \in {"page", "collect"} => call.over <= call.search.seen
  /\ call.pc = "status" => Collected(call.search) \subseteq call.ids
  /\ ~call.final => call.over = 0

(* What earlier looks met: every text of it is collected, once; and from   *)
(* each of its events down to the end of the reach nothing is missing, so  *)
(* that an event met for the first time is newer than all of them.         *)
Horizon ==
  (IF call.pc \in {"page", "collect"} THEN call.search.seen ELSE visible) - limit * max_pages
MetInv ==
  /\ \A m, n \in DOMAIN call.collected : m # n => call.collected[m] # call.collected[n]
  /\ Ids(call.collected) \subseteq call.ids
  /\ \A e \in call.ids : e <= visible
  /\ call.request.mode # "read_only" =>
       \A e \in call.ids : log[e].text # NoText => e \in Ids(call.collected)
  /\ call.whole => \A i \in call.ids : \A e \in 1..i : e \in call.ids \/ e <= Horizon

ReplyInv ==
  /\ reply.answer \in 0..Len(log)
  /\ EmptyAfterAllLooks /\ EmptyOnlyIfSilent /\ FinishWins

IInv ==
  /\ LogOK /\ call \in Calls
  /\ TaskInv /\ LooksInv /\ SearchInv /\ MetInv /\ ReplyInv
  /\ faults \in 0..MaxFaults

USE ConversationAssumption, CallLMAssumption

-------------------------------------------------------------------------------
LEMMA Numbers ==
  /\ limit \in Nat \ {0} /\ max_pages \in Nat \ {0} /\ MaxTurns \in Nat \ {0}
  /\ MaxEvents \in Nat /\ MaxFaults \in Nat /\ NoText \notin {"answer", "done"}
  /\ max_polls \in Nat \ {0} /\ start_attempts \in Nat \ {0} /\ final_retries \in Nat \ {0}
  /\ limit * max_pages \in Nat /\ Limit \in Nat \ {0}
<1>1. /\ limit \in Nat \ {0} /\ max_pages \in Nat \ {0} /\ MaxTurns \in Nat \ {0}
      /\ MaxEvents \in Nat /\ MaxFaults \in Nat /\ NoText \notin {"answer", "done"}
      /\ max_polls \in Nat \ {0} /\ start_attempts \in Nat \ {0}
      /\ final_retries \in Nat \ {0}
  BY DEF ConversationAssumption, CallLMAssumption
<1>2. limit * max_pages \in Nat
  BY <1>1
<1> QED BY <1>1, <1>2 DEF Limit

LEMMA Modes ==
  /\ \A request \in Requests : request.mode \in {"new", "continue", "read_only"}
  /\ NoCall.request.mode = "none"
BY DEF CallLMAssumption, NoCall

LEMMA VisibleBound ==
  ASSUME LogOK
  PROVE  /\ Len(log) \in Nat /\ DOMAIN log = 1..Len(log)
         /\ visible \in 0..MaxEvents /\ visible \in Nat /\ visible <= Len(log)
BY Numbers DEF LogOK

-------------------------------------------------------------------------------
(* The loop over the events of a look, place by place: it is well defined, *)
(* and after n events it has kept the fresh texts among them.              *)
Fresh(e) == e \notin call.ids /\ Text(e) # NoText
Loop(events, new, k) ==
  new = [n \in 0..k |-> IF n = 0 THEN <<>>
                        ELSE IF Fresh(events[n]) THEN Append(new[n - 1], events[n])
                        ELSE new[n - 1]]

LEMMA LoopExists ==
  ASSUME NEW events \in Seq(1..MaxEvents)
  PROVE  \E new : Loop(events, new, Len(events)) /\ NewTexts(events) = new[Len(events)]
<1> DEFINE N == Len(events)
           T == {k \in 0..N : \E new : Loop(events, new, k)}
<1>1. N \in Nat
  OBVIOUS
<1>2. 0 \in T
  <2>1. Loop(events, [n \in 0..0 |-> <<>>], 0)
    BY DEF Loop
  <2> QED BY <1>1, <2>1
<1>3. ASSUME NEW k \in 0..N, k + 1 \in 0..N, k \in T
      PROVE  k + 1 \in T
  <2>1. PICK new : Loop(events, new, k)
    BY <1>3
  <2> DEFINE more == [n \in 0..(k + 1) |->
                        IF n = k + 1
                          THEN IF Fresh(events[k + 1]) THEN Append(new[k], events[k + 1])
                               ELSE new[k]
                          ELSE new[n]]
  <2>2. /\ DOMAIN more = 0..(k + 1)
        /\ \A n \in 0..(k + 1) :
             more[n] = IF n = 0 THEN <<>>
                       ELSE IF Fresh(events[n]) THEN Append(more[n - 1], events[n])
                       ELSE more[n - 1]
    <3> SUFFICES ASSUME NEW n \in 0..(k + 1)
                 PROVE  more[n] = IF n = 0 THEN <<>>
                                  ELSE IF Fresh(events[n]) THEN Append(more[n - 1], events[n])
                                  ELSE more[n - 1]
      OBVIOUS
    <3>1. CASE n = k + 1
      <4>1. n # 0 /\ n - 1 = k /\ k \in 0..(k + 1) /\ k # k + 1
        BY <3>1
      <4> QED BY <3>1, <4>1
    <3>2. CASE n # k + 1
      <4>1. n \in 0..k /\ (n # 0 => n - 1 \in 0..k /\ n - 1 # k + 1 /\ n - 1 \in 0..(k + 1))
        BY <3>2
      <4>2. new[n] = IF n = 0 THEN <<>>
                     ELSE IF Fresh(events[n]) THEN Append(new[n - 1], events[n])
                     ELSE new[n - 1]
        BY <2>1, <4>1 DEF Loop
      <4>3. more[n] = new[n] /\ (n # 0 => more[n - 1] = new[n - 1])
        BY <3>2, <4>1
      <4> HIDE DEF more
      <4> QED BY <4>2, <4>3
    <3> QED BY <3>1, <3>2
  <2>3. Loop(events, more, k + 1)
    BY <2>2 DEF Loop
  <2> HIDE DEF more
  <2> QED BY <1>3, <2>3
<1>4. N \in T
  <2> HIDE DEF T, N
  <2>1. 0..N \subseteq T
    BY <1>1, <1>2, <1>3, Induction
  <2> QED BY <1>1, <2>1
<1>5. \E new : Loop(events, new, N)
  BY <1>4
<1> QED BY <1>5 DEF Loop, NewTexts, Fresh

Kept(events, q, k) ==
  /\ q \in Seq(1..MaxEvents)
  /\ \A i \in 1..Len(q) : \E n \in 1..k : q[i] = events[n] /\ Fresh(events[n])
  /\ \A n \in 1..k : Fresh(events[n]) => \E i \in 1..Len(q) : q[i] = events[n]
  /\ (\A m, n \in DOMAIN events : m < n => events[m] # events[n]) =>
       \A i, j \in 1..Len(q) : i < j => q[i] # q[j]

LEMMA KeptStep ==
  ASSUME NEW events \in Seq(1..MaxEvents), NEW k \in 0..Len(events), k + 1 \in 0..Len(events),
         NEW q, Kept(events, q, k)
  PROVE  Kept(events, IF Fresh(events[k + 1]) THEN Append(q, events[k + 1]) ELSE q, k + 1)
<1> DEFINE e == events[k + 1]
<1>1. /\ q \in Seq(1..MaxEvents) /\ Len(q) \in Nat /\ k \in Nat /\ k + 1 \in 1..Len(events)
      /\ e \in 1..MaxEvents /\ DOMAIN events = 1..Len(events)
  BY DEF Kept
<1>2. \A n \in 1..(k + 1) : n \in 1..k \/ n = k + 1
  BY <1>1
<1>3. \A n \in 1..k : n \in 1..(k + 1) /\ n \in DOMAIN events /\ n < k + 1
  BY <1>1
<1>4. CASE Fresh(e)
  <2> DEFINE r == Append(q, e)
  <2>1. /\ r \in Seq(1..MaxEvents) /\ Len(r) = Len(q) + 1 /\ r[Len(q) + 1] = e
        /\ \A i \in 1..Len(q) : r[i] = q[i]
    BY <1>1
  <2>2. \A i \in 1..Len(r) : i \in 1..Len(q) \/ i = Len(q) + 1
    BY <1>1, <2>1
  <2>3. \A i \in 1..Len(q) : i \in 1..Len(r) /\ i < Len(q) + 1
    BY <1>1, <2>1
  <2>4. Len(q) + 1 \in 1..Len(r)
    BY <1>1, <2>1
  <2> HIDE DEF r
  <2>5. \A i \in 1..Len(r) : \E n \in 1..(k + 1) : r[i] = events[n] /\ Fresh(events[n])
    <3> TAKE i \in 1..Len(r)
    <3>1. CASE i \in 1..Len(q)
      BY <1>3, <2>1, <3>1 DEF Kept
    <3>2. CASE i = Len(q) + 1
      BY <1>1, <1>4, <2>1, <3>2
    <3> QED BY <2>2, <3>1, <3>2
  <2>6. \A n \in 1..(k + 1) : Fresh(events[n]) => \E i \in 1..Len(r) : r[i] = events[n]
    <3> TAKE n \in 1..(k + 1)
    <3> HAVE Fresh(events[n])
    <3>1. CASE n \in 1..k
      <4>1. PICK i \in 1..Len(q) : q[i] = events[n]
        BY <3>1 DEF Kept
      <4> QED BY <2>1, <2>3, <4>1
    <3>2. CASE n = k + 1
      BY <2>1, <2>4, <3>2
    <3> QED BY <1>2, <3>1, <3>2
  <2>7. ASSUME \A m, n \in DOMAIN events : m < n => events[m] # events[n],
               NEW i \in 1..Len(r), NEW j \in 1..Len(r), i < j
        PROVE  r[i] # r[j]
    <3>1. i \in 1..Len(q)
      BY <1>1, <2>1, <2>7
    <3>2. CASE j \in 1..Len(q)
      BY <2>1, <2>7, <3>1, <3>2 DEF Kept
    <3>3. CASE j = Len(q) + 1
      <4>1. PICK n \in 1..k : q[i] = events[n]
        BY <3>1 DEF Kept
      <4>2. events[n] # e
        BY <1>1, <1>3, <2>7, <4>1
      <4> QED BY <2>1, <3>1, <3>3, <4>1, <4>2
    <3> QED BY <2>2, <3>2, <3>3
  <2>8. Kept(events, r, k + 1)
    BY <2>1, <2>5, <2>6, <2>7 DEF Kept
  <2> QED BY <1>4, <2>8 DEF r
<1>5. CASE ~Fresh(e)
  <2>1. \A i \in 1..Len(q) : \E n \in 1..(k + 1) : q[i] = events[n] /\ Fresh(events[n])
    BY <1>3 DEF Kept
  <2>2. \A n \in 1..(k + 1) : Fresh(events[n]) => \E i \in 1..Len(q) : q[i] = events[n]
    BY <1>2, <1>5 DEF Kept
  <2>3. Kept(events, q, k + 1)
    BY <2>1, <2>2 DEF Kept
  <2> QED BY <1>5, <2>3
<1> QED BY <1>4, <1>5

(* What is new of a look: its fresh texts, all of them, each once.         *)
LEMMA NewTextsAre ==
  ASSUME NEW events \in Seq(1..MaxEvents)
  PROVE  Kept(events, NewTexts(events), Len(events))
<1> DEFINE N == Len(events)
<1>1. PICK new : Loop(events, new, N) /\ NewTexts(events) = new[N]
  BY LoopExists
<1> DEFINE T == {k \in 0..N : Kept(events, new[k], k)}
<1>2. N \in Nat
  OBVIOUS
<1>3. 0 \in T
  <2>1. new[0] = <<>>
    BY <1>1, <1>2 DEF Loop
  <2>2. Kept(events, <<>>, 0)
    BY DEF Kept
  <2> QED BY <1>2, <2>1, <2>2
<1>4. ASSUME NEW k \in 0..N, k + 1 \in 0..N, k \in T
      PROVE  k + 1 \in T
  <2>1. k + 1 # 0 /\ k + 1 - 1 = k
    BY <1>4
  <2>4. \A n \in 0..N : new[n] = IF n = 0 THEN <<>>
                               ELSE IF Fresh(events[n]) THEN Append(new[n - 1], events[n])
                               ELSE new[n - 1]
    BY <1>1 DEF Loop
  <2>2. new[k + 1] = IF Fresh(events[k + 1]) THEN Append(new[k], events[k + 1]) ELSE new[k]
    <3> HIDE DEF T, N
    <3> QED BY <1>4, <2>1, <2>4
  <2>3. Kept(events, new[k + 1], k + 1)
    BY <1>4, <2>2, KeptStep
  <2> QED BY <1>4, <2>3
<1>5. N \in T
  <2> HIDE DEF T, N
  <2>1. 0..N \subseteq T
    BY <1>2, <1>3, <1>4, Induction
  <2> QED BY <1>2, <2>1
<1> QED BY <1>1, <1>5

(* The answer of a list is its last text that is more than a filler.       *)
LEMMA LastAnswer ==
  ASSUME NEW collected \in Seq(1..MaxEvents)
  PROVE  \/ /\ extract_final_answer(collected) = NoEvent
            /\ \A n \in DOMAIN collected : Text(collected[n]) # "answer"
         \/ \E n \in DOMAIN collected :
              /\ extract_final_answer(collected) = collected[n]
              /\ Text(collected[n]) = "answer"
              /\ \A m \in DOMAIN collected : Text(collected[m]) = "answer" => m <= n
<1> DEFINE answers == {n \in DOMAIN collected : Text(collected[n]) = "answer"}
           N == Len(collected)
<1>1. N \in Nat /\ DOMAIN collected = 1..N
  OBVIOUS
<1>2. CASE answers = {}
  BY <1>2 DEF extract_final_answer
<1>3. CASE answers # {}
  <2> DEFINE behind == {k \in 0..N : \E n \in answers : k = N - n}
             last == CHOOSE n \in answers : \A m \in answers : m <= n
  <2>1. answers \subseteq 1..N
    BY <1>1
  <2>2. \E n \in answers : \A m \in answers : m <= n
    <3> HIDE DEF answers, N
    <3>4. \A m \in answers : N - m \in behind
      BY <1>1, <2>1
    <3>1. behind \in SUBSET Nat /\ behind # {}
      <4>1. behind \in SUBSET Nat
        BY <1>1
      <4> HIDE DEF behind
      <4> QED BY <1>3, <3>4, <4>1
    <3>2. PICK k \in behind : \A j \in behind : k <= j
      <4> HIDE DEF behind
      <4> QED BY <3>1, Least
    <3>3. PICK n \in answers : k = N - n
      BY <3>2
    <3>5. ASSUME NEW m \in answers PROVE m <= n
      <4>1. k <= N - m
        <5> HIDE DEF behind
        <5> QED BY <3>2, <3>4
      <4>2. m \in Nat /\ n \in Nat
        BY <1>1, <2>1
      <4> QED BY <1>1, <3>3, <4>1, <4>2
    <3> QED BY <3>5
  <2>3. last \in answers /\ \A m \in answers : m <= last
    <3> HIDE DEF answers
    <3> QED BY <2>2
  <2>4. extract_final_answer(collected) = collected[last]
    BY <1>3 DEF extract_final_answer
  <2> HIDE DEF last
  <2> QED BY <2>3, <2>4
<1> QED BY <1>2, <1>3

-------------------------------------------------------------------------------
(* What a look makes of a call.                                            *)
LEMMA LookedIs ==
  ASSUME call \in Calls
  PROVE  /\ Looked \in Calls
         /\ Looked.pc = call.pc /\ Looked.request = call.request
         /\ Looked.final = call.final /\ Looked.attempt = call.attempt
         /\ Looked.over = call.over /\ Looked.whole = call.whole /\ Looked.search = call.search
         /\ Looked.ids = call.ids \cup Collected(call.search)
         /\ Looked.late = Len(NewTexts(call.search.events))
         /\ LET new == NewTexts(call.search.events)
                final == collect_final_text_from_events(call.search.events)
            IN Looked.collected =
                 IF call.request.mode = "read_only"
                   THEN IF final = NoEvent THEN <<>> ELSE <<final>>
                 ELSE IF call.final /\ new = <<>> /\ final # NoEvent
                   THEN Append(call.collected, final)
                 ELSE call.collected \o new
<1> DEFINE ev == call.search.events
           new == NewTexts(ev)
           final == collect_final_text_from_events(ev)
           more == IF call.request.mode = "read_only"
                     THEN IF final = NoEvent THEN <<>> ELSE <<final>>
                   ELSE IF call.final /\ new = <<>> /\ final # NoEvent
                     THEN Append(call.collected, final)
                   ELSE call.collected \o new
<1>1. /\ ev \in Seq(1..MaxEvents) /\ call.collected \in Seq(1..MaxEvents)
      /\ call.ids \in SUBSET (1..MaxEvents)
  BY DEF Calls, Searches
<1>2. new \in Seq(1..MaxEvents) /\ Len(new) \in Nat
  BY <1>1, NewTextsAre DEF Kept
<1>3. final = NoEvent \/ final \in 1..MaxEvents
  <2>1. final = NoEvent \/ \E n \in DOMAIN ev : final = ev[n]
    BY <1>1, Taken
  <2> HIDE DEF final
  <2> QED BY <1>1, <2>1
<1>4. Ids(ev) \in SUBSET (1..MaxEvents) /\ Ids(ev) = Collected(call.search)
  BY <1>1 DEF Ids, Collected
<1>5. Looked = [call EXCEPT !.ids = call.ids \cup Ids(ev), !.late = Len(new),
                            !.collected = more]
  BY DEF Looked
<1>6. more \in Seq(1..MaxEvents)
  <2>1. call.collected \o new \in Seq(1..MaxEvents)
    BY <1>1, <1>2
  <2>2. final # NoEvent =>
          <<final>> \in Seq(1..MaxEvents) /\ Append(call.collected, final) \in Seq(1..MaxEvents)
    <3> HIDE DEF final
    <3> QED BY <1>1, <1>3
  <2>3. <<>> \in Seq(1..MaxEvents)
    OBVIOUS
  <2> HIDE DEF final, new, ev
  <2> QED BY <2>1, <2>2, <2>3
<1> HIDE DEF more, new, ev
<1> QED BY <1>1, <1>2, <1>4, <1>5, <1>6 DEF Calls, more, new, ev

(* How the list of texts grows: by everything new, or by the one text that *)
(* collect_final_text_from_events finds where nothing is new.              *)
LEMMA Gathered ==
  ASSUME IInv, call.pc = "collect", call.request.mode # "read_only"
  PROVE  /\ \A e \in Looked.ids : log[e].text # NoText => e \in Ids(Looked.collected)
         /\ Ids(call.collected) \subseteq Ids(Looked.collected)
         /\ Ids(Looked.collected) \subseteq Looked.ids
         /\ \/ /\ call.final /\ Looked.late = 0 /\ Looked.collected # call.collected
               /\ \E f \in 1..MaxEvents : Looked.collected = Append(call.collected, f)
            \/ /\ Looked.collected = call.collected \o NewTexts(call.search.events)
               /\ \A m, n \in DOMAIN Looked.collected :
                    m # n => Looked.collected[m] # Looked.collected[n]
<1> DEFINE s == call.search
           ev == s.events
           old == call.collected
           new == NewTexts(ev)
           final == collect_final_text_from_events(ev)
<1>1. /\ call \in Calls /\ SearchOK(s) /\ s \in Searches
      /\ ev \in Seq(1..MaxEvents) /\ old \in Seq(1..MaxEvents)
  BY DEF IInv, SearchInv, SearchOK, Calls, Searches
<1>2. Kept(ev, new, Len(ev))
  BY <1>1, NewTextsAre
<1>3. /\ Looked.ids = call.ids \cup Collected(s)
      /\ Looked.collected = IF call.final /\ new = <<>> /\ final # NoEvent
                              THEN Append(old, final) ELSE old \o new
  BY <1>1, LookedIs
<1>4. /\ new \in Seq(1..MaxEvents) /\ Len(new) \in Nat /\ Len(old) \in Nat
      /\ DOMAIN new = 1..Len(new) /\ DOMAIN old = 1..Len(old) /\ DOMAIN ev = 1..Len(ev)
  BY <1>1, <1>2 DEF Kept
<1>5. \A e : e \in Collected(s) <=> \E n \in 1..Len(ev) : e = ev[n]
  BY <1>4 DEF Collected
<1>6. \A e \in Collected(s) : e \in 1..MaxEvents /\ e # NoEvent
  <2> TAKE e \in Collected(s)
  <2>1. PICK n \in 1..Len(ev) : e = ev[n]
    BY <1>5
  <2>2. e \in 1..MaxEvents
    BY <1>1, <1>4, <2>1
  <2> QED BY <2>2, Numbers DEF NoEvent
<1>7. \A i \in 1..Len(new) : new[i] \in Collected(s) /\ new[i] \notin call.ids
  BY <1>2, <1>5 DEF Kept, Fresh
<1>8. \A e \in Collected(s) :
        e \notin call.ids /\ log[e].text # NoText => \E i \in 1..Len(new) : new[i] = e
  <2> TAKE e \in Collected(s)
  <2> HAVE e \notin call.ids /\ log[e].text # NoText
  <2>1. PICK n \in 1..Len(ev) : e = ev[n]
    BY <1>5
  <2>2. Fresh(ev[n])
    BY <1>6, <2>1 DEF Fresh, Text
  <2> HIDE DEF new, ev
  <2> QED BY <1>2, <2>1, <2>2 DEF Kept
<1>9. /\ Ids(old) \subseteq call.ids
      /\ \A e \in call.ids : log[e].text # NoText => e \in Ids(old)
      /\ \A m, n \in 1..Len(old) : m # n => old[m] # old[n]
  BY <1>4 DEF IInv, MetInv
<1>10. \A i, j \in 1..Len(new) : i # j => new[i] # new[j]
  <2>1. \A m, n \in DOMAIN ev : m < n => ev[m] # ev[n]
    BY <1>1 DEF SearchOK, Once
  <2>2. \A i, j \in 1..Len(new) : i < j => new[i] # new[j]
    BY <1>2, <2>1 DEF Kept
  <2>3. \A i, j \in 1..Len(new) : i # j => i < j \/ j < i
    BY <1>4
  <2> QED BY <2>2, <2>3
<1> HIDE DEF new, final, ev, old
<1>11. CASE call.final /\ new = <<>> /\ final # NoEvent
  <2>1. final \in Collected(s) /\ final \in 1..MaxEvents
    <3>1. \E n \in DOMAIN ev : final = ev[n]
      BY <1>1, <1>11, Taken DEF final, ev
    <3>2. final \in Collected(s)
      BY <1>4, <1>5, <3>1
    <3> QED BY <1>6, <3>2
  <2> DEFINE more == Append(old, final)
  <2>2. /\ Looked.collected = more /\ DOMAIN more = 1..(Len(old) + 1) /\ Len(more) = Len(old) + 1
        /\ more[Len(old) + 1] = final /\ \A n \in 1..Len(old) : more[n] = old[n]
    BY <1>1, <1>3, <1>11, <2>1
  <2> HIDE DEF more
  <2>3. more # old
    <3>1. \A k \in Nat : k + 1 # k
      OBVIOUS
    <3> QED BY <1>4, <2>2, <3>1
  <2>4. \A n \in 1..Len(old) : n \in DOMAIN more
    BY <1>4, <2>2
  <2>5. \A n \in DOMAIN more : n \in 1..Len(old) \/ n = Len(old) + 1
    BY <1>4, <2>2
  <2>6. Ids(old) \subseteq Ids(more)
    BY <1>4, <2>2, <2>4 DEF Ids
  <2>7. Ids(more) \subseteq Looked.ids
    <3> SUFFICES ASSUME NEW n \in DOMAIN more PROVE more[n] \in Looked.ids
      BY DEF Ids
    <3>1. CASE n \in 1..Len(old)
      BY <1>3, <1>4, <1>9, <2>2, <3>1 DEF Ids
    <3>2. CASE n = Len(old) + 1
      BY <1>3, <2>1, <2>2, <3>2
    <3> QED BY <2>5, <3>1, <3>2
  <2>8. \A e \in Looked.ids : log[e].text # NoText => e \in Ids(more)
    <3> SUFFICES ASSUME NEW e \in Looked.ids, log[e].text # NoText, e \notin call.ids
                 PROVE  FALSE
      BY <1>9, <2>6
    <3>1. \E i \in 1..Len(new) : new[i] = e
      BY <1>3, <1>8
    <3> QED BY <1>11, <3>1
  <2>9. Looked.late = 0
    <3>1. Looked.late = Len(new)
      BY <1>1, LookedIs DEF new, ev
    <3> QED BY <1>11, <3>1
  <2>10. \E f \in 1..MaxEvents : Looked.collected = Append(call.collected, f)
    BY <2>1, <2>2 DEF more, old
  <2> QED BY <1>11, <2>2, <2>3, <2>6, <2>7, <2>8, <2>9, <2>10 DEF old
<1>12. CASE ~(call.final /\ new = <<>> /\ final # NoEvent)
  <2> DEFINE more == old \o new
  <2>1. /\ Looked.collected = more /\ DOMAIN more = 1..(Len(old) + Len(new))
        /\ \A n \in 1..Len(old) : more[n] = old[n]
        /\ \A n \in 1..Len(new) : more[Len(old) + n] = new[n]
    BY <1>1, <1>3, <1>4, <1>12
  <2> HIDE DEF more
  <2>2. \A n \in 1..Len(old) : n \in DOMAIN more
    BY <1>4, <2>1
  <2>3. \A n \in 1..Len(new) : Len(old) + n \in DOMAIN more
    BY <1>4, <2>1
  <2>4. \A n \in DOMAIN more :
          \/ n \in 1..Len(old) /\ more[n] = old[n]
          \/ n - Len(old) \in 1..Len(new) /\ more[n] = new[n - Len(old)]
    <3> SUFFICES ASSUME NEW n \in DOMAIN more, n \notin 1..Len(old)
                 PROVE  n - Len(old) \in 1..Len(new) /\ more[n] = new[n - Len(old)]
      BY <2>1
    <3>1. n - Len(old) \in 1..Len(new) /\ Len(old) + (n - Len(old)) = n
      BY <1>4, <2>1, Behind
    <3> QED BY <2>1, <3>1
  <2>5. Ids(old) \subseteq Ids(more)
    BY <1>4, <2>1, <2>2 DEF Ids
  <2>6. \A i \in 1..Len(new) : new[i] \in Ids(more)
    BY <2>1, <2>3 DEF Ids
  <2>7. Ids(more) \subseteq Looked.ids
    <3> SUFFICES ASSUME NEW n \in DOMAIN more PROVE more[n] \in Looked.ids
      BY DEF Ids
    <3>1. CASE n \in 1..Len(old) /\ more[n] = old[n]
      BY <1>3, <1>4, <1>9, <3>1 DEF Ids
    <3>2. CASE n - Len(old) \in 1..Len(new) /\ more[n] = new[n - Len(old)]
      BY <1>3, <1>7, <3>2
    <3> QED BY <2>4, <3>1, <3>2
  <2>8. \A e \in Looked.ids : log[e].text # NoText => e \in Ids(more)
    <3> SUFFICES ASSUME NEW e \in Looked.ids, log[e].text # NoText
                 PROVE  e \in Ids(more)
      OBVIOUS
    <3>1. CASE e \in call.ids
      BY <1>9, <2>5, <3>1
    <3>2. CASE e \notin call.ids
      BY <1>3, <1>8, <2>6, <3>2
    <3> QED BY <3>1, <3>2
  <2>9. \A m, n \in DOMAIN more : m # n => more[m] # more[n]
    <3> SUFFICES ASSUME NEW m \in DOMAIN more, NEW n \in DOMAIN more, m # n
                 PROVE  more[m] # more[n]
      OBVIOUS
    <3>1. \A i \in 1..Len(old) : old[i] \in call.ids
      BY <1>4, <1>9 DEF Ids
    <3>2. m \in Nat /\ n \in Nat
      BY <2>1
    <3>3. m - Len(old) # n - Len(old)
      BY <1>4, <3>2
    <3> QED BY <1>7, <1>9, <1>10, <2>4, <3>1, <3>3
  <2>10. Looked.collected = call.collected \o NewTexts(call.search.events)
    BY <2>1 DEF more, old, new, ev
  <2> QED BY <2>1, <2>5, <2>7, <2>8, <2>9, <2>10 DEF old
<1> QED BY <1>11, <1>12

-------------------------------------------------------------------------------
(* What is answered at the end of the looks.                               *)
LEMMA Completed ==
  ASSUME IInv, UNCHANGED conversation, NEW looked \in Calls, completed_result(looked),
         \A n \in DOMAIN looked.collected : looked.collected[n] <= visible,
         looked.over <= looked.search.seen,
         looked.collected = <<>> =>
           \/ looked.request.mode = "read_only"
           \/ looked.attempt = IF looked.final THEN final_retries ELSE max_polls,
         extract_final_answer(looked.collected) = NoEvent /\ looked.whole =>
           \A e \in MetSince(looked.search.seen) : log[e].text = "answer" =>
             looked.request.mode = "read_only" /\ \E d \in DOMAIN log : log[d].text = "done",
         \A last : /\ looked.final /\ looked.late <= 1
                   /\ looked.whole /\ ~looked.search.overtaken
                   /\ looked.collected # <<>> /\ last = looked.collected[Len(looked.collected)]
                   => \A e \in MetSince(looked.search.seen) :
                        log[e].kind = "finish" => last >= e
  PROVE  ReplyInv'
<1> DEFINE q == looked.collected
           answer == extract_final_answer(q)
<1>1. /\ log' = log /\ visible' = visible /\ Len(log) \in Nat /\ DOMAIN log = 1..Len(log)
      /\ visible \in Nat /\ visible <= Len(log)
  BY VisibleBound DEF conversation, IInv
<1>2. /\ q \in Seq(1..MaxEvents) /\ looked.search \in Searches
      /\ Len(q) \in Nat /\ DOMAIN q = 1..Len(q)
  BY DEF Calls
<1>3. /\ reply'.answer = answer
      /\ reply'.status = IF answer = NoEvent THEN "completed_empty_result" ELSE "completed"
      /\ reply'.call.collected = q /\ reply'.call.request = looked.request
      /\ reply'.call.attempt = looked.attempt /\ reply'.call.final = looked.final
      /\ reply'.call.late = looked.late /\ reply'.call.whole = looked.whole
      /\ reply'.call.over = looked.over /\ reply'.call.search.seen = looked.search.seen
      /\ reply'.call.search.overtaken = looked.search.overtaken
  BY <1>2 DEF completed_result, Calls, Searches
<1>4. \/ answer = NoEvent /\ \A n \in DOMAIN q : Text(q[n]) # "answer"
      \/ \E n \in DOMAIN q :
           /\ answer = q[n] /\ Text(q[n]) = "answer"
           /\ \A m \in DOMAIN q : Text(q[m]) = "answer" => m <= n
  BY <1>2, LastAnswer
<1>5. \A n \in DOMAIN q : q[n] \in 1..Len(log)
  <2> TAKE n \in DOMAIN q
  <2>1. q[n] \in 1..MaxEvents /\ q[n] <= visible
    BY <1>2
  <2> QED BY <1>1, <2>1, Numbers
<1>6. \A seen : MetSince(seen)' = MetSince(seen)
  BY <1>1 DEF MetSince
<1>7. \A e : Text(e)' = Text(e)
  BY <1>1 DEF Text
<1> HIDE DEF answer
<1>8. answer \in 0..Len(log)
  BY <1>1, <1>4, <1>5 DEF NoEvent
<1>9. EmptyAfterAllLooks'
  BY <1>3 DEF EmptyAfterAllLooks
<1>10. EmptyOnlyIfSilent'
  <2>1. looked.over \in Nat /\ looked.search.seen \in Nat /\ ~(looked.over > looked.search.seen)
    BY <1>2, Numbers DEF Calls, Searches
  <2> SUFFICES ASSUME answer = NoEvent, looked.whole,
                      NEW e \in MetSince(looked.search.seen), log[e].text = "answer"
               PROVE  /\ looked.request.mode = "read_only"
                      /\ \E d \in DOMAIN log : log[d].text = "done"
    BY <1>1, <1>3, <1>6, <2>1 DEF EmptyOnlyIfSilent
  <2> QED BY DEF answer
<1>11. FinishWins'
  <2> SUFFICES ASSUME answer # NoEvent, looked.final, looked.late <= 1, looked.whole,
                      ~looked.search.overtaken, Text(q[Len(q)]) = "answer",
                      NEW e \in MetSince(looked.search.seen), log[e].kind = "finish"
               PROVE  answer >= e
    BY <1>1, <1>3, <1>6, <1>7 DEF FinishWins
  <2>1. PICK n \in DOMAIN q : answer = q[n] /\ \A m \in DOMAIN q : Text(q[m]) = "answer" => m <= n
    BY <1>4
  <2>2. Len(q) \in DOMAIN q /\ q # <<>>
    BY <1>2, <2>1
  <2>3. n = Len(q)
    <3>1. Len(q) <= n
      BY <2>1, <2>2
    <3>2. n \in 1..Len(q)
      BY <1>2, <2>1
    <3> QED BY <1>2, <3>1, <3>2
  <2> QED BY <2>1, <2>2, <2>3
<1> QED BY <1>1, <1>3, <1>8, <1>9, <1>10, <1>11 DEF ReplyInv

(* The end of the looks at a conversation after its texts were collected.  *)
LEMMA Searched ==
  ASSUME IInv, call.pc = "collect"
  PROVE  LET s == call.search
         IN /\ s \in Searches /\ SearchOK(s) /\ s.top <= visible /\ s.seen <= s.top
            /\ call.over <= s.seen
            /\ \A e \in Collected(s) : e \in 1..Len(log) /\ e <= s.top
            /\ call.whole => \A e \in MetSince(s.seen) : e \in Collected(s)
<1> DEFINE s == call.search
<1>1. /\ s \in Searches /\ SearchOK(s) /\ s.top <= visible /\ s.seen <= s.top
      /\ call.over <= s.seen
      /\ call.whole => s.page_id >= s.top \/ s.pages = max_pages
  BY DEF IInv, SearchInv, SearchOK
<1>2. /\ visible \in 0..MaxEvents /\ visible \in Nat /\ visible <= Len(log) /\ Len(log) \in Nat
  BY VisibleBound DEF IInv
<1>3. \A e \in Collected(s) : e \in 1..Len(log) /\ e <= s.top
  <2> SUFFICES ASSUME NEW n \in DOMAIN s.events
               PROVE  s.events[n] \in 1..Len(log) /\ s.events[n] <= s.top
    BY DEF Collected
  <2>1. s.events[n] \in 1..MaxEvents /\ s.events[n] <= s.top /\ s.top \in Nat
    BY <1>1 DEF SearchOK, Searches
  <2> QED BY <1>1, <1>2, <2>1, Numbers
<1>4. call.whole => \A e \in MetSince(s.seen) : e \in Collected(s)
  BY <1>1, <1>2, LastPageMeetsAll
<1> QED BY <1>1, <1>3, <1>4

(* The one look of read_only.                                              *)
LEMMA ReadOnlyReply ==
  ASSUME IInv, call.pc = "collect", call.request.mode = "read_only",
         UNCHANGED conversation, completed_result(Looked)
  PROVE  ReplyInv'
<1> DEFINE s == call.search
           ev == s.events
           taken == collect_final_text_from_events(ev)
           Are(kind) == {n \in DOMAIN ev : log[ev[n]].kind = kind}
           q == IF taken = NoEvent THEN <<>> ELSE <<taken>>
<1>1. /\ s \in Searches /\ SearchOK(s) /\ s.top <= visible /\ s.seen <= s.top
      /\ call.over <= s.seen
      /\ \A e \in Collected(s) : e \in 1..Len(log) /\ e <= s.top
      /\ call.whole => \A e \in MetSince(s.seen) : e \in Collected(s)
  BY Searched
<1>2. /\ call \in Calls /\ Looked \in Calls /\ Looked.request = call.request /\ Looked.final = FALSE
      /\ Looked.over = call.over /\ Looked.whole = call.whole /\ Looked.search = s
      /\ Looked.collected = q
  BY LookedIs DEF IInv, LooksInv
<1>3. ev \in Seq(1..MaxEvents) /\ s.top \in Nat
  BY <1>1 DEF Searches
<1>4. /\ visible \in Nat /\ visible <= Len(log) /\ Len(log) \in Nat /\ DOMAIN log = 1..Len(log)
  BY VisibleBound DEF IInv
<1>5. \/ \E n \in Are("finish") : taken = ev[n] /\ \A m \in Are("finish") : n <= m
      \/ /\ Are("finish") = {}
         /\ \E n \in Are("message") : taken = ev[n] /\ \A m \in Are("message") : n <= m
      \/ Are("finish") = {} /\ Are("message") = {} /\ taken = NoEvent
  BY <1>3, Taken
<1>6. \A n \in DOMAIN ev : ev[n] \in Collected(s) /\ ev[n] # NoEvent
  BY <1>1 DEF Collected, NoEvent
<1> HIDE DEF taken
<1>7. taken = NoEvent \/ taken \in Collected(s)
  BY <1>5, <1>6
<1>8. \A n \in DOMAIN q : q[n] <= visible
  <2>1. \A e \in Collected(s) : e <= visible
    BY <1>1, <1>3, <1>4
  <2> QED BY <1>7, <2>1
<1>9. ASSUME extract_final_answer(q) = NoEvent, call.whole,
             NEW e \in MetSince(s.seen), log[e].text = "answer"
      PROVE  \E d \in DOMAIN log : log[d].text = "done"
  <2>1. PICK m \in DOMAIN ev : ev[m] = e
    BY <1>1, <1>9 DEF Collected
  <2>2. \A n \in DOMAIN ev :
          /\ ev[n] \in DOMAIN log /\ log[ev[n]] \in Events
          /\ log[ev[n]].kind = "other" <=> log[ev[n]].text = NoText
    <3> TAKE n \in DOMAIN ev
    <3>1. ev[n] \in DOMAIN log
      BY <1>1, <1>4, <1>6
    <3> QED BY <3>1 DEF IInv, LogOK
  <2>3. log[e].kind \in {"finish", "message"}
    BY <1>9, <2>1, <2>2, Numbers DEF Events
  <2>4. m \in Are("finish") \cup Are("message")
    BY <2>1, <2>3
  <2>5. PICK n \in DOMAIN ev : taken = ev[n] /\ log[ev[n]].kind \in {"finish", "message"}
    BY <1>5, <2>4
  <2>6. taken # NoEvent /\ q = <<taken>>
    BY <1>6, <2>5
  <2>7. q \in Seq(1..MaxEvents)
    BY <1>2 DEF Calls
  <2>8. Text(taken) # "answer"
    <3>1. \A i \in DOMAIN q : q[i] = taken
      BY <2>6
    <3>2. 1 \in DOMAIN q
      BY <2>6
    <3>3. \A i \in DOMAIN q : q[i] # NoEvent
      BY <2>6, <3>1
    <3> HIDE DEF q
    <3> QED BY <1>9, <2>7, <3>1, <3>2, <3>3, LastAnswer
  <2>9. log[ev[n]].text = "done"
    BY <2>2, <2>5, <2>6, <2>8 DEF Text, Events
  <2> QED BY <2>2, <2>9
<1> HIDE DEF q
<1> QED BY <1>1, <1>2, <1>8, <1>9, Completed

(* The one text that is new is newer than all that was met before it, and  *)
(* the text taken where nothing is new is no older than any finish action. *)
LEMMA NoneOlder ==
  ASSUME IInv, call.pc = "collect", call.request.mode # "read_only",
         call.final, call.whole, ~call.search.overtaken, Looked.late <= 1,
         Looked.collected # <<>>,
         NEW e \in MetSince(call.search.seen), log[e].kind = "finish"
  PROVE  Looked.collected[Len(Looked.collected)] >= e
<1> DEFINE s == call.search
           ev == s.events
           old == call.collected
           new == NewTexts(ev)
           taken == collect_final_text_from_events(ev)
           Are(kind) == {n \in DOMAIN ev : log[ev[n]].kind = kind}
<1>1. /\ s \in Searches /\ SearchOK(s) /\ s.top <= visible /\ s.seen <= s.top
      /\ \A i \in Collected(s) : i \in 1..Len(log) /\ i <= s.top
      /\ e \in Collected(s)
  BY Searched
<1>2. /\ ev \in Seq(1..MaxEvents) /\ DOMAIN ev = 1..Len(ev) /\ s.top \in Nat /\ s.seen \in Nat
      /\ s.page_id \in Nat /\ s.pages \in 0..max_pages /\ s.page_id = limit * s.pages
      /\ call \in Calls /\ old \in Seq(1..MaxEvents) /\ Len(old) \in Nat
  <2>1. /\ ev \in Seq(1..MaxEvents) /\ s.top \in Nat /\ s.seen \in Nat
        /\ s.page_id \in Nat /\ s.pages \in 0..max_pages
    BY <1>1 DEF Searches
  <2>2. s.page_id = limit * s.pages
    BY <1>1 DEF SearchOK
  <2>3. call \in Calls /\ old \in Seq(1..MaxEvents)
    BY DEF IInv, Calls
  <2> HIDE DEF s, ev, old
  <2>4. DOMAIN ev = 1..Len(ev) /\ Len(old) \in Nat
    BY <2>1, <2>3
  <2> QED BY <2>1, <2>2, <2>3, <2>4
<1>3. PICK m \in DOMAIN ev : ev[m] = e
  BY <1>1 DEF Collected
<1>4. /\ Looked.ids = call.ids \cup Collected(s) /\ Looked.late = Len(new)
      /\ Looked.collected = IF call.final /\ new = <<>> /\ taken # NoEvent
                              THEN Append(old, taken) ELSE old \o new
  BY <1>2, LookedIs
<1>5. Kept(ev, new, Len(ev))
  BY <1>2, NewTextsAre
<1>6. new \in Seq(1..MaxEvents) /\ Len(new) \in 0..1
  <2>1. new \in Seq(1..MaxEvents) /\ Len(new) <= 1
    BY <1>4, <1>5 DEF Kept
  <2>2. Len(new) \in Nat
    BY <2>1
  <2>3. \A k \in Nat : k <= 1 => k \in 0..1
    OBVIOUS
  <2> HIDE DEF new
  <2> QED BY <2>1, <2>2, <2>3
<1>7. PICK n \in Are("finish") : taken = ev[n] /\ \A i \in Are("finish") : n <= i
  <2>1. \/ \E n \in Are("finish") : taken = ev[n] /\ \A i \in Are("finish") : n <= i
        \/ /\ Are("finish") = {}
           /\ \E n \in Are("message") : taken = ev[n] /\ \A i \in Are("message") : n <= i
        \/ Are("finish") = {} /\ Are("message") = {} /\ taken = NoEvent
    BY <1>2, Taken
  <2>2. m \in Are("finish")
    BY <1>3
  <2> HIDE DEF taken
  <2> QED BY <2>1, <2>2
<1>8. taken \in 1..MaxEvents /\ taken # NoEvent /\ taken >= e
  <2>1. n \in 1..Len(ev) /\ m \in 1..Len(ev) /\ n <= m
    BY <1>2, <1>3, <1>7
  <2>2. ev[n] \in 1..MaxEvents /\ ev[m] \in 1..MaxEvents
    <3>1. \A i \in DOMAIN ev : ev[i] \in 1..MaxEvents
      <4>1. ev \in Seq(1..MaxEvents)
        BY <1>2
      <4> HIDE DEF ev
      <4> QED BY <4>1
    <3> QED BY <1>2, <2>1, <3>1
  <2>3. n # m => ev[n] > ev[m]
    <3>1. n # m => n < m
      BY <1>2, <2>1
    <3> QED BY <1>1, <1>2, <2>1, <3>1 DEF SearchOK, Descending
  <2>4. ev[n] >= e
    BY <1>3, <2>2, <2>3, Numbers
  <2>5. ev[n] # NoEvent
    BY <2>2, Numbers DEF NoEvent
  <2> QED BY <1>7, <2>2, <2>4, <2>5
<1> HIDE DEF taken, old
<1>9. CASE new = <<>>
  <2> DEFINE more == Append(old, taken)
  <2>1. Len(more) = Len(old) + 1 /\ more[Len(old) + 1] = taken
    BY <1>2, <1>8
  <2>2. Looked.collected = more
    BY <1>4, <1>8, <1>9
  <2> HIDE DEF more
  <2> QED BY <1>8, <2>1, <2>2
<1>10. CASE new # <<>>
  <2>1. Len(new) = 1 /\ DOMAIN new = 1..1
    <3> HIDE DEF new
    <3> QED BY <1>6, <1>10
  <2> DEFINE more == old \o new
  <2>2. /\ Len(more) = Len(old) + 1 /\ more[Len(old) + 1] = new[1]
        /\ new[1] \in 1..MaxEvents
    <3>1. 1 \in 1..Len(new)
      BY <2>1
    <3> HIDE DEF new
    <3>2. new[1] \in 1..MaxEvents
      BY <1>6, <2>1, <3>1
    <3>3. Len(more) = Len(old) + Len(new) /\ \A i \in 1..Len(new) : more[Len(old) + i] = new[i]
      BY <1>2, <1>6
    <3> HIDE DEF more
    <3> QED BY <2>1, <3>1, <3>2, <3>3
  <2>3. Looked.collected = more
    BY <1>4, <1>10
  <2> HIDE DEF more
  <2>4. Looked.collected[Len(Looked.collected)] = new[1]
    BY <2>2, <2>3
  <2>5. PICK k \in 1..Len(ev) : new[1] = ev[k] /\ Fresh(ev[k])
    BY <1>5, <2>1 DEF Kept
  <2>6. new[1] \notin call.ids
    BY <2>5 DEF Fresh
  <2>7. CASE e \notin call.ids
    <3>1. e \in 1..Len(log) /\ e # NoEvent /\ log[e].text # NoText
      <4>1. e \in 1..Len(log)
        BY <1>1
      <4>2. e # NoEvent
        BY <4>1, VisibleBound DEF NoEvent, IInv
      <4>3. log[e].text # NoText
        BY <4>1, VisibleBound DEF IInv, LogOK
      <4> QED BY <4>1, <4>2, <4>3
    <3>2. m \in 1..Len(ev) /\ Fresh(ev[m])
      BY <1>2, <1>3, <2>7, <3>1 DEF Fresh, Text
    <3>3. PICK i \in 1..Len(new) : new[i] = ev[m]
      BY <1>5, <3>2 DEF Kept
    <3>4. i = 1
      <4> HIDE DEF new
      <4> QED BY <2>1
    <3>5. new[1] = e
      BY <1>3, <3>3, <3>4
    <3> QED BY <2>2, <2>4, <3>5, Numbers
  <2>8. CASE e \in call.ids
    <3> SUFFICES ASSUME new[1] < e PROVE FALSE
      <4> HIDE DEF new
      <4>1. e \in Nat
        BY <1>1, VisibleBound DEF IInv
      <4> QED BY <2>2, <2>4, <4>1, Numbers
    <3>1. new[1] \in 1..e
      BY <1>1, <2>2, VisibleBound, Numbers DEF IInv
    <3>2. new[1] <= s.seen - limit * max_pages
      <4>1. \A i \in 1..e : i \in call.ids \/ i <= Horizon
        BY <2>8 DEF IInv, MetInv
      <4>2. Horizon = s.seen - limit * max_pages
        BY DEF Horizon
      <4> QED BY <2>6, <3>1, <4>1, <4>2
    <3>3. new[1] > s.top - s.page_id
      BY <1>1, <1>2, <2>5 DEF SearchOK, Above
    <3>4. s.page_id <= limit * max_pages
      BY <1>2, Numbers
    <3>5. new[1] \in Nat
      BY <2>2, Numbers
    <3>6. \A x, seen, top, page_id, reach \in Nat :
            x <= seen - reach /\ page_id <= reach /\ seen <= top => ~(x > top - page_id)
      OBVIOUS
    <3>7. s.seen <= s.top /\ limit * max_pages \in Nat
      BY <1>1, Numbers
    <3> HIDE DEF new
    <3> QED BY <1>2, <3>2, <3>3, <3>4, <3>5, <3>6, <3>7
  <2> QED BY <2>7, <2>8
<1> QED BY <1>9, <1>10

(* The last look of the others.                                            *)
LEMMA GatheredReply ==
  ASSUME IInv, call.pc = "collect", call.request.mode # "read_only", Enough(Looked),
         UNCHANGED conversation, completed_result(Looked)
  PROVE  ReplyInv'
<1> DEFINE s == call.search
           q == Looked.collected
<1>1. /\ s \in Searches /\ s.top <= visible /\ s.seen <= s.top /\ call.over <= s.seen
      /\ \A e \in Collected(s) : e \in 1..Len(log) /\ e <= s.top
      /\ call.whole => \A e \in MetSince(s.seen) : e \in Collected(s)
  BY Searched
<1>2. /\ call \in Calls /\ Looked \in Calls /\ Looked.request = call.request
      /\ Looked.final = call.final /\ Looked.attempt = call.attempt
      /\ Looked.over = call.over /\ Looked.whole = call.whole /\ Looked.search = s
      /\ Looked.ids = call.ids \cup Collected(s)
  BY LookedIs DEF IInv
<1>3. /\ \A e \in Looked.ids : log[e].text # NoText => e \in Ids(q)
      /\ Ids(call.collected) \subseteq Ids(q)
      /\ Ids(q) \subseteq Looked.ids
  BY Gathered
<1>4. /\ visible \in Nat /\ visible <= Len(log) /\ Len(log) \in Nat /\ DOMAIN log = 1..Len(log)
      /\ s.top \in Nat
  BY <1>1, VisibleBound DEF IInv, Searches
<1>5. \A e \in Looked.ids : e <= visible
  <2> TAKE e \in Looked.ids
  <2>1. CASE e \in call.ids
    BY <2>1 DEF IInv, MetInv
  <2>2. CASE e \in Collected(s)
    BY <1>1, <1>4, <2>2
  <2> QED BY <1>2, <2>1, <2>2
<1>6. \A n \in DOMAIN q : q[n] <= visible
  BY <1>3, <1>5 DEF Ids
<1>7. q = <<>> => Looked.attempt = IF Looked.final THEN final_retries ELSE max_polls
  <2> SUFFICES ASSUME q = <<>> PROVE call.final /\ call.attempt = final_retries
    BY <1>2
  <2>1. call.collected = <<>>
    <3>1. Ids(q) = {}
      BY DEF Ids
    <3>2. DOMAIN call.collected = {}
      <4>1. \A n \in DOMAIN call.collected : call.collected[n] \in Ids(call.collected)
        BY DEF Ids
      <4> HIDE DEF q
      <4> QED BY <1>3, <3>1, <4>1
    <3> QED BY <1>2, <3>2 DEF Calls
  <2>2. call.final /\ call.attempt >= final_retries
    BY <1>2, <2>1 DEF Enough
  <2>3. call.attempt <= final_retries /\ call.attempt \in Nat
    BY <1>2, <2>2 DEF IInv, LooksInv, Limit, Calls
  <2> QED BY <2>2, <2>3, Numbers
<1>8. ASSUME extract_final_answer(q) = NoEvent, Looked.whole,
             NEW e \in MetSince(s.seen), log[e].text = "answer"
      PROVE  FALSE
  <2>1. e \in Looked.ids /\ e \in 1..Len(log)
    BY <1>1, <1>2, <1>8
  <2>2. PICK n \in DOMAIN q : q[n] = e
    BY <1>3, <1>8, <2>1, Numbers DEF Ids
  <2>3. q \in Seq(1..MaxEvents)
    BY <1>2 DEF Calls
  <2>4. Text(q[n]) = "answer" /\ q[n] # NoEvent
    BY <1>4, <1>8, <2>1, <2>2 DEF Text, NoEvent
  <2>5. \A i \in DOMAIN q : q[i] # NoEvent
    BY <2>3, Numbers DEF NoEvent
  <2> HIDE DEF q
  <2> QED BY <1>8, <2>3, <2>4, <2>5, LastAnswer
<1>9. ASSUME NEW last, Looked.final, Looked.late <= 1, Looked.whole, ~s.overtaken,
             q # <<>>, last = q[Len(q)], NEW e \in MetSince(s.seen), log[e].kind = "finish"
      PROVE  last >= e
  BY <1>2, <1>9, NoneOlder
<1> HIDE DEF q
<1>10. q = Looked.collected
  BY DEF q
<1> QED BY <1>1, <1>2, <1>6, <1>7, <1>8, <1>9, <1>10, Completed

-------------------------------------------------------------------------------
(* What the steps have in common.                                          *)

(* A reply that neither has an answer nor claims that there is none.       *)
LEMMA PlainReply ==
  ASSUME reply.answer = NoEvent, reply.status # "completed_empty_result", Len(log) \in Nat
  PROVE  ReplyInv
BY DEF ReplyInv, EmptyAfterAllLooks, EmptyOnlyIfSilent, FinishWins, NoEvent

LEMMA PlainReplyNext ==
  (reply.answer = NoEvent /\ reply.status # "completed_empty_result" /\ Len(log) \in Nat
   => ReplyInv)'
<1>1. reply.answer = NoEvent /\ reply.status # "completed_empty_result" /\ Len(log) \in Nat
      => ReplyInv
  BY PlainReply
<1> QED BY <1>1, PTL

(* A step of the request leaves the conversation's log alone.              *)
LEMMA Unmoved ==
  ASSUME IInv, UNCHANGED conversation
  PROVE  /\ log' = log /\ visible' = visible /\ turn' = turn
         /\ execution_status' = execution_status /\ LogOK' /\ Len(log') \in Nat
         /\ reply' = reply => ReplyInv'
<1>1. /\ log' = log /\ visible' = visible /\ turn' = turn
      /\ execution_status' = execution_status /\ Len(log') \in Nat
  BY VisibleBound DEF conversation, IInv
<1>2. LogOK'
  BY <1>1 DEF IInv, LogOK
<1>3. reply' = reply => ReplyInv'
  BY <1>1 DEF IInv, ReplyInv, EmptyAfterAllLooks, EmptyOnlyIfSilent, FinishWins, MetSince, Text
<1> QED BY <1>1, <1>2, <1>3

(* No request in progress, or one at its beginning.                        *)
Begun ==
  /\ call = [NoCall EXCEPT !.request = call.request, !.pc = call.pc]
  /\ \/ call.pc = "idle" /\ call.request = NoCall.request
     \/ call.pc \in {"start", "send", "poll"} /\ call.request \in Requests
  /\ call.request.mode = "read_only" => call.pc = "poll"

LEMMA BegunInv ==
  ASSUME LogOK, Begun
  PROVE  call \in Calls /\ LooksInv /\ SearchInv /\ MetInv
<1>1. visible \in 0..MaxEvents /\ visible \in Nat
  BY VisibleBound
<1>2. SearchOK(NoSearch) /\ NoSearch \in Searches
  BY <1>1, NewSearchOK DEF SearchOK
<1>3. /\ call.search = NoSearch /\ call.attempt = 0 /\ call.over = 0 /\ call.final = FALSE
      /\ call.collected = <<>> /\ call.ids = {} /\ call.whole = TRUE
      /\ call.pc \in {"idle", "start", "send", "poll"}
  BY DEF Begun, NoCall
<1>4. call \in Calls
  <2>1. NoCall \in [pc : PCs, request : Requests \cup {NoCall.request}, final : BOOLEAN,
                    attempt : Nat, over : Nat, collected : Seq(1..MaxEvents),
                    ids : SUBSET (1..MaxEvents), late : Nat, whole : BOOLEAN, search : Searches]
    BY <1>2 DEF NoCall, PCs
  <2> QED BY <2>1 DEF Begun, Calls, PCs
<1>5. NoSearch.events = <<>> /\ NoSearch.top = 0
  BY DEF NoSearch
<1>6. SearchInv
  <2>1. Gapless(NoSearch)
    BY <1>5 DEF Gapless
  <2> QED BY <1>1, <1>2, <1>3, <1>5, <2>1 DEF SearchInv
<1>7. MetInv
  <2>1. Ids(call.collected) = {} /\ DOMAIN call.collected = {}
    BY <1>3 DEF Ids
  <2> QED BY <1>3, <2>1 DEF MetInv
<1>8. LooksInv
  BY <1>3, Numbers DEF LooksInv, Limit, Begun
<1> QED BY <1>4, <1>6, <1>7, <1>8

LEMMA BegunNext ==
  (LogOK /\ Begun => call \in Calls /\ LooksInv /\ SearchInv /\ MetInv)'
<1>1. LogOK /\ Begun => call \in Calls /\ LooksInv /\ SearchInv /\ MetInv
  BY BegunInv
<1> QED BY <1>1, PTL

LEMMA NoCallBegun ==
  /\ call = NoCall => Begun
  /\ call' = NoCall => Begun'
<1>1. [NoCall EXCEPT !.request = NoCall.request, !.pc = NoCall.pc] = NoCall
  BY DEF NoCall
<1>2. NoCall.pc = "idle" /\ NoCall.request.mode # "read_only"
  BY DEF NoCall
<1>3. call = NoCall => Begun
  BY <1>1, <1>2 DEF Begun
<1>4. call' = NoCall => Begun'
  <2>1. NoCall' = NoCall
    BY DEF NoCall, NoSearch, NoEvent
  <2> QED BY <1>1, <1>2, <2>1 DEF Begun
<1> QED BY <1>3, <1>4

(* While the log grows, and while nothing is looked at, what was met       *)
(* before stays what was met before.                                       *)
LEMMA SameSearch ==
  ASSUME IInv, LogOK', visible' >= visible,
         \A e \in 1..Len(log) : log'[e] = log[e],
         call'.search = call.search, call'.collected = call.collected,
         call'.ids = call.ids, call'.whole = call.whole, call'.request = call.request,
         call'.pc \notin {"page", "collect", "status"} \/ call'.pc = call.pc,
         \/ call'.final = call.final /\ call'.over = call.over
         \/ call'.final /\ call'.over = visible' /\ call'.pc = "poll"
  PROVE  SearchInv' /\ MetInv'
<1>1. /\ visible \in Nat /\ visible' \in Nat /\ visible <= Len(log)
      /\ Len(log) \in Nat /\ DOMAIN log = 1..Len(log)
  BY VisibleBound DEF IInv, LogOK
<1>2. /\ SearchOK(call.search) /\ Gapless(call.search) /\ call \in Calls
      /\ call.search.top \in Nat /\ call.search.seen \in Nat /\ call.over \in Nat
      /\ call.search.seen <= call.search.top /\ call.search.top <= visible /\ call.over <= visible
  BY Numbers DEF IInv, SearchInv, Calls, SearchOK, Searches
<1>3. SearchOK(call.search)' /\ Gapless(call.search)'
  <2>1. SearchOK(call.search)'
    BY <1>2 DEF SearchOK, Once, Descending, Above, LastPageMet, Reached, Collected
  <2>2. Gapless(call.search)'
    BY <1>2 DEF Gapless, Collected
  <2> QED BY <2>1, <2>2
<1>4. Collected(call.search)' = Collected(call.search)
  BY DEF Collected
<1>5. call'.search.top <= visible' /\ call'.over <= visible'
  BY <1>1, <1>2
<1>6. SearchInv'
  BY <1>3, <1>4, <1>5 DEF IInv, SearchInv
<1>7. Horizon' >= Horizon
  <2>1. call.search.seen <= visible /\ visible <= visible' /\ call.search.seen <= visible'
    BY <1>1, <1>2
  <2>2. limit * max_pages \in Nat
    BY Numbers
  <2> DEFINE before == IF call.pc \in {"page", "collect"} THEN call.search.seen ELSE visible
             after == IF call'.pc \in {"page", "collect"} THEN call.search.seen ELSE visible'
  <2>3. before \in Nat /\ after \in Nat /\ before <= after
    BY <1>1, <1>2, <2>1
  <2>4. Horizon = before - limit * max_pages /\ Horizon' = after - limit * max_pages
    BY DEF Horizon
  <2>5. \A x, y, reach \in Nat : x <= y => y - reach >= x - reach
    OBVIOUS
  <2> HIDE DEF before, after
  <2> QED BY <2>2, <2>3, <2>4, <2>5
<1>8. MetInv'
  <2>1. Ids(call.collected)' = Ids(call.collected)
    BY DEF Ids
  <2>2. \A e \in call.ids : e \in 1..Len(log) /\ e <= visible'
    <3> TAKE e \in call.ids
    <3>1. e \in 1..MaxEvents /\ e <= visible
      BY <1>2 DEF IInv, MetInv, Calls
    <3> QED BY <1>1, <3>1, Numbers
  <2>3. call'.request.mode # "read_only" =>
          \A e \in call'.ids : log'[e].text # NoText => e \in Ids(call.collected)
    BY <2>2 DEF IInv, MetInv
  <2>4. ASSUME call'.whole, NEW i \in call.ids, NEW e \in 1..i, e \notin call.ids
        PROVE  e <= Horizon'
    <3>1. e <= Horizon
      BY <2>4 DEF IInv, MetInv
    <3>2. e \in Nat /\ Horizon \in Int /\ Horizon' \in Int
      <4>1. e \in Nat
        BY <1>2, <2>4, Numbers DEF Calls
      <4>2. Horizon \in Int
        BY <1>1, <1>2, Numbers DEF Horizon
      <4>3. Horizon' \in Int
        BY <1>1, <1>2, Numbers DEF Horizon
      <4> QED BY <4>1, <4>2, <4>3
    <3> QED BY <1>7, <3>1, <3>2
  <2>5. \A m, n \in DOMAIN call'.collected : m # n => call'.collected[m] # call'.collected[n]
    BY DEF IInv, MetInv
  <2>6. Ids(call.collected)' \subseteq call'.ids
    BY <2>1 DEF IInv, MetInv
  <2> QED BY <2>1, <2>2, <2>3, <2>4, <2>5, <2>6 DEF MetInv
<1> QED BY <1>6, <1>8

LEMMA InitIInv == Init => IInv
<1> SUFFICES ASSUME Init PROVE IInv
  OBVIOUS
<1>1. LogOK
  BY Numbers DEF Init, LogOK
<1>2. call \in Calls /\ LooksInv /\ SearchInv /\ MetInv
  BY <1>1, BegunInv, NoCallBegun DEF Init
<1>3. TaskInv
  BY Numbers DEF Init, TaskInv, NoCall
<1>4. ReplyInv
  BY <1>1, VisibleBound, PlainReply DEF Init, NoReply
<1> QED BY <1>1, <1>2, <1>3, <1>4, Numbers DEF Init, IInv

-------------------------------------------------------------------------------
(* OpenHands.                                                              *)
LEMMA OpenHandsIInv ==
  ASSUME IInv, OpenHands
  PROVE  IInv'
<1>1. Len(log) \in Nat /\ DOMAIN log = 1..Len(log) /\ LogOK /\ call \in Calls
      /\ LooksInv /\ TaskInv
  BY VisibleBound DEF IInv
<1>2. call' = call /\ faults' = faults
  BY DEF OpenHands, TaskIsReady, TaskFails
<1>3. /\ LogOK' /\ visible' >= visible /\ \A e \in 1..Len(log) : log'[e] = log[e]
      /\ ReplyInv' /\ TaskInv'
  <2>1. CASE Agent /\ reply' = NoReply /\ UNCHANGED task
    <3>1. /\ LogOK' /\ visible' >= visible /\ turn' = turn
          /\ \A e \in 1..Len(log) : log'[e] = log[e]
      BY <1>1, <2>1, AgentKeepsLog
    <3>2. Len(log') \in Nat
      BY <3>1 DEF LogOK
    <3>3. ReplyInv'
      BY <2>1, <3>2, PlainReplyNext DEF NoReply, NoEvent, NoCall, NoSearch
    <3>4. /\ execution_status' \in {"starting", "running", "finished", "error"}
          /\ execution_status' = "running" => execution_status = "running"
      BY <1>1, <2>1 DEF Agent, Write, Flush, EndTurn, TaskInv
    <3>5. TaskInv'
      BY <1>1, <1>2, <2>1, <3>1, <3>4 DEF TaskInv
    <3> QED BY <3>1, <3>3, <3>5
  <2>2. CASE TaskIsReady
    <3>1. log' = log /\ visible' = visible /\ reply' = reply
      BY <2>2 DEF TaskIsReady
    <3>2. LogOK'
      BY <1>1, <2>2, Numbers DEF TaskIsReady, LogOK
    <3>3. ReplyInv'
      BY <3>1 DEF IInv, ReplyInv, EmptyAfterAllLooks, EmptyOnlyIfSilent, FinishWins,
                  MetSince, Text
    <3>4. TaskInv'
      BY <1>1, <1>2, <2>2, Numbers DEF TaskIsReady, TaskInv
    <3>5. visible' >= visible
      BY <3>1, VisibleBound DEF IInv
    <3> QED BY <3>1, <3>2, <3>3, <3>4, <3>5
  <2>3. CASE TaskFails
    <3>1. UNCHANGED conversation /\ reply' = reply
      BY <2>3 DEF TaskFails
    <3>2. log' = log /\ visible' = visible /\ LogOK' /\ ReplyInv' /\ turn' = turn
          /\ execution_status' = execution_status
      BY <3>1, Unmoved
    <3>3. TaskInv'
      BY <1>1, <1>2, <2>3, <3>2 DEF TaskFails, TaskInv
    <3>4. visible' >= visible
      BY <3>2, VisibleBound DEF IInv
    <3> QED BY <3>2, <3>3, <3>4
  <2> QED BY <2>1, <2>2, <2>3 DEF OpenHands
<1>4. SearchInv' /\ MetInv'
  BY <1>2, <1>3, SameSearch
<1>5. LooksInv'
  BY <1>1, <1>2 DEF LooksInv, Limit
<1> QED BY <1>1, <1>2, <1>3, <1>4, <1>5 DEF IInv

-------------------------------------------------------------------------------
(* The beginning of a request.                                             *)
LEMMA CallLMIInv ==
  ASSUME IInv, NEW request \in Requests, CallLM(request)
  PROVE  IInv'
<1>1. UNCHANGED conversation /\ task' = task /\ faults' = faults /\ reply' = NoReply
  BY DEF CallLM
<1>2. /\ log' = log /\ visible' = visible /\ turn' = turn
      /\ execution_status' = execution_status /\ LogOK' /\ Len(log') \in Nat
  BY <1>1, Unmoved
<1>3. call' = [NoCall EXCEPT !.request = request,
                             !.pc = CASE request.mode = "new"       -> "start"
                                      [] request.mode = "continue"  -> "send"
                                      [] request.mode = "read_only" -> "poll"]
  BY DEF CallLM
<1>4. /\ request.mode \in {"new", "continue", "read_only"}
      /\ call'.request = request
      /\ request.mode = "new" => call'.pc = "start"
      /\ request.mode = "continue" => call'.pc = "send"
      /\ request.mode = "read_only" => call'.pc = "poll"
  BY <1>3, Modes DEF NoCall
<1>5. call' = [NoCall EXCEPT !.request = call'.request, !.pc = call'.pc]
  BY <1>3 DEF NoCall
<1>6. Begun'
  BY <1>4, <1>5 DEF Begun, NoCall, NoSearch
<1>7. (call \in Calls)' /\ LooksInv' /\ SearchInv' /\ MetInv'
  BY <1>2, <1>6, BegunNext
<1>8. ReplyInv'
  BY <1>1, <1>2, PlainReplyNext DEF NoReply, NoEvent, NoCall, NoSearch
<1>9. TaskInv'
  <2>1. request.mode = "new" => task \in {"none", "ERROR"}
    BY <1>4 DEF CallLM, IInv, TaskInv
  <2>2. request.mode = "continue" => turn \in 1..(MaxTurns - 1)
    BY <1>4 DEF CallLM
  <2> QED BY <1>1, <1>2, <1>4, <2>1, <2>2 DEF IInv, TaskInv
<1> QED BY <1>1, <1>2, <1>7, <1>8, <1>9 DEF IInv

(* A request that ends without a look at the conversation, or by an error. *)
LEMMA AnsweredInv ==
  ASSUME LogOK', NEW status \in {"error", "no_wait", "running"}, Answered(status, NoEvent)
  PROVE  /\ (call \in Calls)' /\ LooksInv' /\ SearchInv' /\ MetInv' /\ ReplyInv'
         /\ call'.pc = "idle"
<1>1. call' = NoCall /\ reply'.answer = NoEvent /\ reply'.status # "completed_empty_result"
  BY DEF Answered
<1>2. (call \in Calls)' /\ LooksInv' /\ SearchInv' /\ MetInv'
  BY <1>1, NoCallBegun, BegunNext
<1>3. Len(log') \in Nat
  BY DEF LogOK
<1>4. NoEvent' = NoEvent
  BY DEF NoEvent
<1>5. ReplyInv'
  BY <1>1, <1>3, <1>4, PlainReplyNext
<1>6. call'.pc = "idle"
  BY <1>1 DEF NoCall
<1> QED BY <1>2, <1>5, <1>6

(* The prompt reached the conversation: its log is as it was.              *)
LEMMA Prompted ==
  ASSUME IInv, UNCHANGED <<log, visible>>,
         turn' \in 1..MaxTurns \/ UNCHANGED <<turn, execution_status>>
  PROVE  /\ log' = log /\ visible' = visible /\ visible' >= visible /\ LogOK'
         /\ reply' = reply => ReplyInv'
<1>1. log' = log /\ visible' = visible /\ visible \in Nat
  BY VisibleBound DEF IInv
<1>2. LogOK'
  BY <1>1 DEF IInv, LogOK
<1>3. reply' = reply => ReplyInv'
  BY <1>1 DEF IInv, ReplyInv, EmptyAfterAllLooks, EmptyOnlyIfSilent, FinishWins, MetSince, Text
<1> QED BY <1>1, <1>2, <1>3

LEMMA StartConversationIInv ==
  ASSUME IInv, StartConversation
  PROVE  IInv'
<1>1. UNCHANGED <<log, visible>> /\ faults' = faults /\ call.pc = "start"
  BY DEF StartConversation
<1>2. call \in Calls /\ LooksInv /\ TaskInv /\ turn = 0 /\ call.request \in Requests
      /\ ~call.final /\ call.attempt = 0 /\ call.request.mode # "read_only"
  BY <1>1 DEF IInv, TaskInv, LooksInv
<1>3. turn' \in 1..MaxTurns \/ UNCHANGED <<turn, execution_status>>
  BY Numbers DEF StartConversation
<1>4. /\ log' = log /\ visible' = visible /\ visible' >= visible /\ LogOK'
      /\ reply' = reply => ReplyInv'
  BY <1>1, <1>3, Prompted
<1>5. CASE Answered("no_wait", NoEvent)
  <2>1. /\ (call \in Calls)' /\ LooksInv' /\ SearchInv' /\ MetInv' /\ ReplyInv'
        /\ call'.pc = "idle"
    BY <1>4, <1>5, AnsweredInv
  <2>2. TaskInv'
    <3>1. task' \in {"working", "READY"} /\ (task' = "READY" => turn' = 1 /\ execution_status' = "running")
          /\ (task' = "working" => turn' = turn /\ execution_status' = execution_status)
      BY DEF StartConversation
    <3> QED BY <1>2, <2>1, <3>1, Numbers DEF TaskInv
  <2> QED BY <1>1, <1>4, <2>1, <2>2 DEF IInv
<1>6. ASSUME NEW pc \in {"task", "poll"}, call' = [call EXCEPT !.pc = pc], reply' = reply,
             \/ pc = "task" /\ task' = "working" /\ UNCHANGED <<turn, execution_status>>
             \/ pc = "poll" /\ task' = "READY" /\ turn' = 1 /\ execution_status' = "running"
      PROVE  IInv'
  <2>1. /\ (call \in Calls)' /\ call'.pc = pc /\ call'.search = call.search
        /\ call'.collected = call.collected /\ call'.ids = call.ids /\ call'.whole = call.whole
        /\ call'.request = call.request /\ call'.final = call.final /\ call'.over = call.over
        /\ call'.attempt = call.attempt
    BY <1>2, <1>6 DEF Calls, PCs
  <2>2. SearchInv' /\ MetInv'
    BY <1>4, <1>6, <2>1, SameSearch
  <2>3. LooksInv'
    BY <1>2, <1>6, <2>1, Numbers DEF LooksInv, Limit
  <2>4. TaskInv'
    BY <1>2, <1>6, <2>1, Numbers DEF TaskInv
  <2> QED BY <1>1, <1>4, <1>6, <2>1, <2>2, <2>3, <2>4 DEF IInv
<1> QED BY <1>5, <1>6 DEF StartConversation

LEMMA PollStartTaskIInv ==
  ASSUME IInv, PollStartTask
  PROVE  IInv'
<1>1. UNCHANGED conversation /\ task' = task /\ faults' = faults /\ call.pc = "task"
  BY DEF PollStartTask
<1>2. call \in Calls /\ LooksInv /\ TaskInv /\ call.request \in Requests
      /\ ~call.final /\ call.attempt < start_attempts /\ call.request.mode # "read_only"
      /\ call.attempt \in Nat
  BY <1>1 DEF IInv, TaskInv, LooksInv, Calls
<1>3. /\ log' = log /\ visible' = visible /\ turn' = turn /\ LogOK' /\ visible' >= visible
      /\ execution_status' = execution_status
      /\ reply' = reply => ReplyInv'
  BY <1>1, Unmoved, VisibleBound DEF IInv
<1>4. ASSUME NEW status \in {"error", "no_wait", "running"}, Answered(status, NoEvent)
      PROVE  IInv'
  <2>1. /\ (call \in Calls)' /\ LooksInv' /\ SearchInv' /\ MetInv' /\ ReplyInv'
        /\ call'.pc = "idle"
    BY <1>3, <1>4, AnsweredInv
  <2>2. TaskInv'
    BY <1>1, <1>2, <1>3, <2>1 DEF TaskInv
  <2> QED BY <1>1, <1>3, <2>1, <2>2 DEF IInv
<1>5. ASSUME NEW pc \in {"task", "poll"}, NEW attempt \in Nat,
             call' = [call EXCEPT !.pc = pc, !.attempt = attempt], reply' = reply,
             pc = "task" => attempt < start_attempts,
             pc = "poll" => attempt = 0
      PROVE  IInv'
  <2>1. /\ (call \in Calls)' /\ call'.pc = pc /\ call'.search = call.search
        /\ call'.collected = call.collected /\ call'.ids = call.ids /\ call'.whole = call.whole
        /\ call'.request = call.request /\ call'.final = call.final /\ call'.over = call.over
        /\ call'.attempt = attempt
    BY <1>2, <1>5 DEF Calls, PCs
  <2>2. SearchInv' /\ MetInv'
    BY <1>3, <1>5, <2>1, SameSearch
  <2>3. LooksInv'
    BY <1>2, <1>5, <2>1, Numbers DEF LooksInv, Limit
  <2>4. TaskInv'
    BY <1>1, <1>2, <1>3, <1>5, <2>1, Numbers DEF TaskInv
  <2> QED BY <1>1, <1>3, <1>5, <2>1, <2>2, <2>3, <2>4 DEF IInv
<1>6. CASE Answered("no_wait", NoEvent) \/ Failed
  BY <1>4, <1>6 DEF Failed
<1>7. CASE call' = [call EXCEPT !.pc = "poll", !.attempt = 0] /\ UNCHANGED reply
  BY <1>5, <1>7
<1>8. CASE /\ call.attempt + 1 < start_attempts
           /\ call' = [call EXCEPT !.attempt = @ + 1] /\ UNCHANGED reply
  <2>1. call' = [call EXCEPT !.pc = "task", !.attempt = call.attempt + 1]
    BY <1>1, <1>2, <1>8 DEF Calls
  <2>2. call.attempt + 1 \in Nat
    BY <1>2
  <2> QED BY <1>5, <1>8, <2>1, <2>2
<1> QED BY <1>6, <1>7, <1>8 DEF PollStartTask

LEMMA SendMessageIInv ==
  ASSUME IInv, SendMessage
  PROVE  IInv'
<1>1. /\ UNCHANGED <<log, visible>> /\ task' = task /\ faults' = faults /\ call.pc = "send"
      /\ turn' = turn + 1 /\ execution_status' = "running"
  BY DEF SendMessage
<1>2. call \in Calls /\ LooksInv /\ TaskInv /\ call.request \in Requests
      /\ ~call.final /\ call.attempt = 0 /\ call.request.mode # "read_only"
      /\ turn \in 1..(MaxTurns - 1)
  BY <1>1 DEF IInv, TaskInv, LooksInv
<1>3. turn' \in 1..MaxTurns /\ turn # 0 /\ turn' # 0
  BY <1>1, <1>2, Numbers
<1>4. /\ log' = log /\ visible' = visible /\ visible' >= visible /\ LogOK'
      /\ reply' = reply => ReplyInv'
  BY <1>1, <1>3, Prompted
<1>5. CASE Answered("running", NoEvent)
  <2>1. /\ (call \in Calls)' /\ LooksInv' /\ SearchInv' /\ MetInv' /\ ReplyInv'
        /\ call'.pc = "idle"
    BY <1>4, <1>5, AnsweredInv
  <2>2. TaskInv'
    BY <1>1, <1>2, <1>3, <2>1 DEF TaskInv
  <2> QED BY <1>1, <1>4, <2>1, <2>2 DEF IInv
<1>6. CASE call' = [call EXCEPT !.pc = "poll"] /\ UNCHANGED reply
  <2>1. /\ (call \in Calls)' /\ call'.pc = "poll" /\ call'.search = call.search
        /\ call'.collected = call.collected /\ call'.ids = call.ids /\ call'.whole = call.whole
        /\ call'.request = call.request /\ call'.final = call.final /\ call'.over = call.over
        /\ call'.attempt = call.attempt
    BY <1>2, <1>6 DEF Calls, PCs
  <2>2. SearchInv' /\ MetInv'
    BY <1>4, <2>1, SameSearch
  <2>3. LooksInv'
    BY <1>2, <2>1, Numbers DEF LooksInv, Limit
  <2>4. TaskInv'
    BY <1>1, <1>2, <1>3, <2>1 DEF TaskInv
  <2> QED BY <1>1, <1>4, <1>6, <2>1, <2>2, <2>3, <2>4 DEF IInv
<1> QED BY <1>5, <1>6 DEF SendMessage

LEMMA PromptFailsIInv ==
  ASSUME IInv, PromptFails
  PROVE  IInv'
<1>1. /\ Failed /\ faults' = faults + 1 /\ faults < MaxFaults /\ UNCHANGED <<log, visible>>
      /\ \/ task' = task /\ UNCHANGED <<turn, execution_status>>
         \/ call.pc = "start" /\ task' = "working" /\ UNCHANGED <<turn, execution_status>>
         \/ call.pc = "send" /\ turn' = turn + 1 /\ execution_status' = "running" /\ task' = task
  BY DEF PromptFails, Fault, conversation
<1>2. TaskInv /\ (call.pc = "send" => turn \in 1..(MaxTurns - 1))
  BY DEF IInv, TaskInv
<1>3. \/ turn' \in 1..MaxTurns /\ turn' = turn + 1
      \/ UNCHANGED <<turn, execution_status>>
  BY <1>1, <1>2, Numbers
<1>4. log' = log /\ visible' = visible /\ LogOK'
  BY <1>1, <1>3, Prompted
<1>5. /\ (call \in Calls)' /\ LooksInv' /\ SearchInv' /\ MetInv' /\ ReplyInv'
      /\ call'.pc = "idle"
  BY <1>1, <1>4, AnsweredInv DEF Failed
<1>6. TaskInv'
  BY <1>1, <1>2, <1>3, <1>5, Numbers DEF TaskInv
<1> QED BY <1>1, <1>4, <1>5, <1>6, Numbers DEF IInv

LEMMA RequestRaisesIInv ==
  ASSUME IInv, RequestRaises
  PROVE  IInv'
<1>1. UNCHANGED conversation /\ task' = task /\ Failed /\ faults' = faults + 1 /\ faults < MaxFaults
  BY DEF RequestRaises, Fault
<1>2. /\ log' = log /\ visible' = visible /\ turn' = turn /\ LogOK'
      /\ execution_status' = execution_status
  BY <1>1, Unmoved
<1>3. /\ (call \in Calls)' /\ LooksInv' /\ SearchInv' /\ MetInv' /\ ReplyInv'
      /\ call'.pc = "idle"
  BY <1>1, <1>2, AnsweredInv DEF Failed
<1>4. TaskInv'
  BY <1>1, <1>2, <1>3 DEF IInv, TaskInv
<1> QED BY <1>1, <1>2, <1>3, <1>4, Numbers DEF IInv

-------------------------------------------------------------------------------
(* A look, page by page.                                                   *)
LEMMA BeginSearchIInv ==
  ASSUME IInv, BeginSearch
  PROVE  IInv'
<1>1. UNCHANGED conversation /\ task' = task /\ reply' = reply /\ faults' = faults
      /\ call.pc = "poll"
      /\ call' = [call EXCEPT !.pc = "page", !.search = NewSearch, !.attempt = @ + 1]
  BY DEF BeginSearch
<1>2. /\ log' = log /\ visible' = visible /\ turn' = turn /\ LogOK' /\ ReplyInv'
      /\ execution_status' = execution_status
  BY <1>1, Unmoved
<1>3. /\ visible \in 0..MaxEvents /\ visible \in Nat /\ call \in Calls /\ call.attempt \in Nat
  BY VisibleBound DEF IInv, Calls
<1>4. SearchOK(NewSearch) /\ NewSearch \in Searches
  BY <1>3, NewSearchOK DEF SearchOK
<1>5. /\ NewSearch.top = visible /\ NewSearch.seen = visible /\ NewSearch.pages = 0
      /\ NewSearch.events = <<>>
  BY DEF NewSearch, NoSearch
<1>6. /\ call' \in Calls /\ call'.pc = "page" /\ call'.search = NewSearch
      /\ call'.attempt = call.attempt + 1
      /\ call'.collected = call.collected /\ call'.ids = call.ids /\ call'.whole = call.whole
      /\ call'.request = call.request /\ call'.final = call.final /\ call'.over = call.over
  <2>1. call' = [call EXCEPT !.pc = "page", !.search = NewSearch, !.attempt = call.attempt + 1]
    BY <1>1
  <2>2. call.attempt + 1 \in Nat
    BY <1>3
  <2>3. \A attempt \in Nat, search \in Searches :
          LET called == [call EXCEPT !.pc = "page", !.search = search, !.attempt = attempt]
          IN /\ called \in Calls /\ called.pc = "page" /\ called.search = search
             /\ called.attempt = attempt /\ called.collected = call.collected
             /\ called.ids = call.ids /\ called.whole = call.whole
             /\ called.request = call.request /\ called.final = call.final
             /\ called.over = call.over
    BY <1>3 DEF Calls, PCs
  <2> QED BY <1>4, <2>1, <2>2, <2>3
<1>7. (call \in Calls)'
  BY <1>6 DEF Calls, PCs, NoCall, NoSearch
<1>8. SearchInv'
  <2>1. SearchOK(call.search)'
    BY <1>4, <1>6 DEF SearchOK, Once, Descending, Above, LastPageMet, Reached, Collected
  <2>2. Gapless(call.search)'
    <3>1. DOMAIN call'.search.events = {}
      BY <1>5, <1>6
    <3> QED BY <3>1 DEF Gapless
  <2>3. call'.search.top <= visible' /\ call'.over <= visible' /\ call'.over <= call'.search.seen
    BY <1>2, <1>3, <1>5, <1>6 DEF IInv, SearchInv
  <2>4. call'.search.pages < max_pages
    BY <1>5, <1>6, Numbers
  <2> QED BY <1>6, <2>1, <2>2, <2>3, <2>4 DEF IInv, SearchInv
<1>9. Horizon' = Horizon
  BY <1>1, <1>5, <1>6 DEF Horizon
<1>10. MetInv'
  BY <1>2, <1>6, <1>9 DEF IInv, MetInv, Ids
<1>11. LooksInv'
  BY <1>1, <1>3, <1>6, Numbers DEF IInv, LooksInv, Limit
<1>12. TaskInv'
  BY <1>1, <1>2, <1>6 DEF IInv, TaskInv
<1> QED BY <1>1, <1>2, <1>7, <1>8, <1>10, <1>11, <1>12 DEF IInv

(* What a page brings, or its loss, leaves what was met before alone.      *)
LEMMA PageInv ==
  ASSUME IInv, call.pc = "page", UNCHANGED <<conversation, task, reply>>,
         faults' \in 0..MaxFaults,
         NEW pc \in {"page", "collect"}, NEW search \in Searches, NEW whole \in BOOLEAN,
         SearchOK(search), Gapless(search), search.top <= visible,
         search.seen = call.search.seen,
         pc = "page" => search.pages < max_pages,
         whole => call.whole,
         pc = "collect" /\ whole => search.page_id >= search.top \/ search.pages = max_pages,
         call' = [call EXCEPT !.pc = pc, !.search = search, !.whole = whole]
  PROVE  IInv'
<1>1. UNCHANGED conversation /\ task' = task /\ reply' = reply
  OBVIOUS
<1>2. /\ log' = log /\ visible' = visible /\ turn' = turn /\ LogOK' /\ ReplyInv'
      /\ execution_status' = execution_status
  BY <1>1, Unmoved
<1>3. call \in Calls
  BY DEF IInv
<1>6. /\ call' \in Calls /\ call'.pc = pc /\ call'.search = search
      /\ call'.attempt = call.attempt /\ call'.whole = whole
      /\ call'.collected = call.collected /\ call'.ids = call.ids
      /\ call'.request = call.request /\ call'.final = call.final /\ call'.over = call.over
  BY <1>3 DEF Calls, PCs
<1>7. (call \in Calls)'
  BY <1>6 DEF Calls, PCs, NoCall, NoSearch
<1>8. SearchInv'
  <2>1. SearchOK(call.search)'
    BY <1>6 DEF SearchOK, Once, Descending, Above, LastPageMet, Reached, Collected
  <2>2. Gapless(call.search)'
    BY <1>6 DEF Gapless, Collected
  <2>3. call'.search.top <= visible' /\ call'.over <= visible' /\ call'.over <= call'.search.seen
    BY <1>2, <1>6 DEF IInv, SearchInv
  <2> QED BY <1>6, <2>1, <2>2, <2>3 DEF IInv, SearchInv
<1>9. Horizon' = Horizon
  BY <1>6 DEF Horizon
<1>10. MetInv'
  BY <1>2, <1>6, <1>9 DEF IInv, MetInv, Ids
<1>11. LooksInv'
  BY <1>6, Numbers DEF IInv, LooksInv, Limit
<1>12. TaskInv'
  BY <1>1, <1>2, <1>6 DEF IInv, TaskInv
<1> QED BY <1>1, <1>2, <1>7, <1>8, <1>10, <1>11, <1>12 DEF IInv

LEMMA ReadPageIInv ==
  ASSUME IInv, ReadPage
  PROVE  IInv'
<1> DEFINE s == call.search
<1>1. UNCHANGED <<conversation, task, reply>> /\ faults' = faults /\ call.pc = "page"
  BY DEF ReadPage
<1>2. PICK new \in NewItems(s) :
        call' = [call EXCEPT !.pc = IF LastPage(s) THEN "collect" ELSE "page",
                             !.search = AfterPage(s, new)]
  <2>1. call \in Calls
    BY DEF IInv
  <2> QED BY <2>1 DEF ReadPage, Calls
<1>3. visible \in 0..MaxEvents /\ visible \in Nat /\ faults \in 0..MaxFaults
  BY VisibleBound DEF IInv
<1>4. /\ SearchOK(s) /\ Gapless(s) /\ s.pages < max_pages /\ s.top <= visible
      /\ call \in Calls /\ s \in Searches /\ call.whole \in BOOLEAN
  BY <1>1 DEF IInv, SearchInv, SearchOK, Calls
<1> DEFINE t == AfterPage(s, new)
           pc == IF LastPage(s) THEN "collect" ELSE "page"
<1>5. SearchOK(t) /\ Gapless(t)
  BY <1>3, <1>4, AfterPageOK, AfterPageGapless
<1>6. t \in Searches
  BY <1>5 DEF SearchOK
<1>7. t.top = visible /\ t.page_id = s.page_id + limit /\ t.pages = s.pages + 1 /\ t.seen = s.seen
  BY <1>4 DEF AfterPage, Searches
<1>8. s.page_id \in Nat /\ s.pages \in Nat
  BY <1>4 DEF Searches
<1>9. pc = "page" => t.pages < max_pages
  BY <1>4, <1>7, <1>8, Numbers DEF LastPage
<1>10. pc = "collect" => t.page_id >= t.top \/ t.pages = max_pages
  BY <1>3, <1>4, <1>7, <1>8, Numbers DEF LastPage
<1>11. call' = [call EXCEPT !.pc = pc, !.search = t, !.whole = call.whole]
  <2> HIDE DEF t, pc
  <2>1. call' = [call EXCEPT !.pc = pc, !.search = t]
    BY <1>2 DEF t, pc
  <2> QED BY <1>4, <2>1 DEF Calls
<1>12. t.top <= visible
  BY <1>3, <1>7
<1>13. pc \in {"page", "collect"}
  OBVIOUS
<1> HIDE DEF t, pc, s
<1> QED BY <1>1, <1>3, <1>4, <1>5, <1>6, <1>7, <1>9, <1>10, <1>11, <1>12, <1>13, PageInv DEF s

LEMMA PageFailsIInv ==
  ASSUME IInv, PageFails
  PROVE  IInv'
<1> DEFINE s == call.search
           t == [s EXCEPT !.cut = TRUE]
<1>1. /\ UNCHANGED <<conversation, task, reply>> /\ faults' = faults + 1 /\ faults < MaxFaults
      /\ call.pc = "page"
      /\ call' = [call EXCEPT !.pc = "collect", !.search.cut = TRUE, !.whole = FALSE]
  BY DEF PageFails, Fault
<1>2. /\ SearchOK(s) /\ Gapless(s) /\ s.top <= visible /\ call \in Calls /\ s \in Searches
  BY DEF IInv, SearchInv, SearchOK
<1>3. faults' \in 0..MaxFaults
  BY <1>1, Numbers DEF IInv
<1>4. t \in Searches
  BY <1>2 DEF Searches
<1>5. /\ t.top = s.top /\ t.page_id = s.page_id /\ t.pages = s.pages
      /\ t.events = s.events /\ t.seen = s.seen /\ t.overtaken = s.overtaken
  BY <1>2 DEF Searches
<1>6. call' = [call EXCEPT !.pc = "collect", !.search = t, !.whole = FALSE]
  BY <1>1, <1>2 DEF Calls
<1> HIDE DEF t, s
<1>7. SearchOK(t)
  BY <1>2, <1>4, <1>5 DEF SearchOK, Once, Descending, Above, LastPageMet, Reached, Collected
<1>8. Gapless(t)
  BY <1>2, <1>5 DEF Gapless, Collected
<1> QED BY <1>1, <1>2, <1>3, <1>4, <1>5, <1>6, <1>7, <1>8, PageInv DEF s

-------------------------------------------------------------------------------
(* The end of a look: the answer, or what the next look finds.             *)
LEMMA CollectEnds ==
  ASSUME IInv, Collect, Enough(Looked)
  PROVE  IInv'
<1>1. UNCHANGED conversation /\ task' = task /\ faults' = faults /\ call.pc = "collect"
      /\ completed_result(Looked)
  BY DEF Collect
<1>2. /\ log' = log /\ visible' = visible /\ turn' = turn /\ LogOK'
      /\ execution_status' = execution_status
  BY <1>1, Unmoved
<1>3. call' = NoCall /\ call'.pc = "idle"
  BY <1>1 DEF completed_result, NoCall
<1>4. (call \in Calls)' /\ LooksInv' /\ SearchInv' /\ MetInv'
  BY <1>2, <1>3, NoCallBegun, BegunNext
<1>5. ReplyInv'
  BY <1>1, ReadOnlyReply, GatheredReply
<1>6. TaskInv'
  BY <1>1, <1>2, <1>3 DEF IInv, TaskInv
<1> QED BY <1>1, <1>2, <1>4, <1>5, <1>6 DEF IInv

LEMMA CollectGoesOn ==
  ASSUME IInv, Collect, ~Enough(Looked)
  PROVE  IInv'
<1> DEFINE s == call.search
           pc == IF call.final THEN "poll" ELSE "status"
<1>1. UNCHANGED conversation /\ task' = task /\ faults' = faults /\ call.pc = "collect"
      /\ reply' = reply /\ call' = [Looked EXCEPT !.pc = pc]
  BY DEF Collect
<1>2. /\ log' = log /\ visible' = visible /\ turn' = turn /\ LogOK' /\ ReplyInv'
      /\ execution_status' = execution_status
  BY <1>1, Unmoved
<1>3. /\ call \in Calls /\ Looked \in Calls /\ Looked.request = call.request
      /\ Looked.final = call.final /\ Looked.attempt = call.attempt
      /\ Looked.over = call.over /\ Looked.whole = call.whole /\ Looked.search = s
      /\ Looked.ids = call.ids \cup Collected(s)
  BY LookedIs DEF IInv
<1>4. /\ call' \in Calls /\ call'.pc = pc /\ call'.search = s /\ call'.ids = Looked.ids
      /\ call'.collected = Looked.collected /\ call'.request = call.request
      /\ call'.final = call.final /\ call'.attempt = call.attempt /\ call'.over = call.over
      /\ call'.whole = call.whole
  <2>1. pc \in PCs
    BY DEF PCs
  <2> HIDE DEF pc
  <2> QED BY <1>1, <1>3, <2>1 DEF Calls
<1>5. /\ s \in Searches /\ SearchOK(s) /\ s.top <= visible /\ s.seen <= s.top
      /\ call.over <= s.seen
      /\ \A e \in Collected(s) : e \in 1..Len(log) /\ e <= s.top
  BY <1>1, Searched
<1>6. /\ visible \in Nat /\ visible <= Len(log) /\ Len(log) \in Nat
      /\ s.top \in Nat /\ s.seen \in Nat /\ s.page_id \in Nat
  BY <1>5, VisibleBound DEF IInv, Searches
<1>7. /\ call.request.mode # "read_only"
      /\ call.final => Looked.collected = call.collected /\ call.attempt < final_retries
  <2>1. call.attempt \in Nat
    BY <1>3 DEF Calls
  <2> QED BY <1>3, <2>1, Numbers DEF Enough
<1>8. /\ \A e \in Looked.ids : log[e].text # NoText => e \in Ids(Looked.collected)
      /\ Ids(Looked.collected) \subseteq Looked.ids
      /\ \A m, n \in DOMAIN Looked.collected :
           m # n => Looked.collected[m] # Looked.collected[n]
  BY <1>1, <1>7, Gathered
<1>9. (call \in Calls)'
  BY <1>4 DEF Calls, PCs, NoCall, NoSearch
<1>10. SearchInv'
  <2>1. SearchOK(call.search)'
    BY <1>4, <1>5 DEF SearchOK, Once, Descending, Above, LastPageMet, Reached, Collected
  <2>2. Gapless(call.search)'
    BY <1>4 DEF IInv, SearchInv, Gapless, Collected
  <2>3. Collected(call.search)' \subseteq call'.ids
    BY <1>3, <1>4 DEF Collected
  <2> QED BY <1>1, <1>2, <1>4, <2>1, <2>2, <2>3 DEF IInv, SearchInv
<1>11. ASSUME call.whole, NEW i \in Looked.ids, NEW e \in 1..i, e \notin Looked.ids
       PROVE  e <= visible - limit * max_pages
  <2> DEFINE reach == limit * max_pages
  <2>1. reach \in Nat
    BY Numbers
  <2>2. CASE i \in call.ids
    <3>1. e <= Horizon
      BY <1>3, <1>11, <2>2 DEF IInv, MetInv
    <3>2. e <= s.seen - reach
      BY <1>1, <3>1 DEF Horizon
    <3>3. s.seen <= visible
      BY <1>5, <1>6
    <3>4. e \in Nat
      BY <1>3, <1>11, <2>2, Numbers DEF Calls
    <3> HIDE DEF reach
    <3>5. e <= visible - reach
      BY <1>6, <2>1, <3>2, <3>3, <3>4
    <3> QED BY <3>5 DEF reach
  <2>3. CASE i \in Collected(s)
    <3>1. PICK m \in DOMAIN s.events : s.events[m] = i
      BY <2>3 DEF Collected
    <3>2. ~(s.top - s.page_id < e)
      BY <1>3, <1>11, <3>1 DEF IInv, SearchInv, Gapless
    <3>3. e \in Nat /\ e >= 1
      BY <1>5, <1>6, <1>11, <2>3
    <3>4. s.page_id >= s.top \/ s.pages = max_pages
      BY <1>1, <1>11 DEF IInv, SearchInv
    <3>5. ~(s.page_id >= s.top)
      BY <1>6, <3>2, <3>3
    <3>6. s.page_id = reach
      BY <1>5, <3>4, <3>5 DEF SearchOK
    <3> HIDE DEF reach
    <3>7. e <= visible - reach
      BY <1>5, <1>6, <3>2, <3>3, <3>6
    <3> QED BY <3>7 DEF reach
  <2> QED BY <1>3, <1>11, <2>2, <2>3
<1>12. MetInv'
  <2>1. Horizon' = visible - limit * max_pages
    BY <1>2, <1>4 DEF Horizon
  <2>2. \A e \in Looked.ids : e <= visible
    <3> TAKE e \in Looked.ids
    <3>1. CASE e \in call.ids
      BY <3>1 DEF IInv, MetInv
    <3>2. CASE e \in Collected(s)
      BY <1>5, <1>6, <3>2
    <3> QED BY <1>3, <3>1, <3>2
  <2>3. Ids(call.collected)' = Ids(Looked.collected)
    BY <1>4 DEF Ids
  <2>4. call'.whole => \A i \in call'.ids : \A e \in 1..i : e \in call'.ids \/ e <= Horizon'
    BY <1>4, <1>11, <2>1
  <2>5. /\ \A m, n \in DOMAIN call'.collected : m # n => call'.collected[m] # call'.collected[n]
        /\ \A e \in call'.ids : log'[e].text # NoText => e \in Ids(call.collected)'
        /\ Ids(call.collected)' \subseteq call'.ids
        /\ \A e \in call'.ids : e <= visible'
    BY <1>2, <1>4, <1>8, <2>2, <2>3
  <2> QED BY <2>4, <2>5 DEF MetInv
<1>13. LooksInv'
  BY <1>1, <1>4, <1>7, Numbers DEF IInv, LooksInv, Limit
<1>14. TaskInv'
  BY <1>1, <1>2, <1>4 DEF IInv, TaskInv
<1> QED BY <1>1, <1>2, <1>9, <1>10, <1>12, <1>13, <1>14 DEF IInv

LEMMA CollectIInv ==
  ASSUME IInv, Collect
  PROVE  IInv'
BY CollectEnds, CollectGoesOn

-------------------------------------------------------------------------------
(* Whether the conversation is over.                                       *)
LEMMA AfterStatusIInv ==
  ASSUME IInv, NEW conv, AfterStatus(conv), call.pc = "status",
         UNCHANGED <<conversation, task>>, faults' \in 0..MaxFaults
  PROVE  IInv'
<1>1. UNCHANGED conversation /\ task' = task
  OBVIOUS
<1>2. /\ log' = log /\ visible' = visible /\ turn' = turn /\ LogOK' /\ visible' >= visible
      /\ execution_status' = execution_status
  BY <1>1, Unmoved, VisibleBound DEF IInv
<1>3. /\ call \in Calls /\ visible \in Nat /\ ~call.final /\ call.over = 0
      /\ call.attempt \in Nat /\ call.attempt <= max_polls /\ call.request.mode # "read_only"
  BY VisibleBound DEF IInv, LooksInv, SearchInv, Limit, Calls
<1>4. CASE /\ call' = [call EXCEPT !.pc = "poll", !.final = TRUE, !.attempt = 0, !.over = visible]
           /\ UNCHANGED reply
  <2>1. /\ call' \in Calls /\ call'.pc = "poll" /\ call'.search = call.search
        /\ call'.collected = call.collected /\ call'.ids = call.ids /\ call'.whole = call.whole
        /\ call'.request = call.request /\ call'.final /\ call'.over = visible
        /\ call'.attempt = 0
    BY <1>3, <1>4 DEF Calls, PCs
  <2>2. (call \in Calls)'
    BY <2>1 DEF Calls, PCs, NoCall, NoSearch
  <2>3. SearchInv' /\ MetInv'
    BY <1>2, <2>1, SameSearch
  <2>4. LooksInv'
    BY <1>3, <2>1, Numbers DEF IInv, LooksInv, Limit
  <2>5. TaskInv'
    BY <1>1, <1>2, <2>1 DEF IInv, TaskInv
  <2>6. ReplyInv'
    BY <1>1, <1>4, Unmoved
  <2> QED BY <1>2, <2>2, <2>3, <2>4, <2>5, <2>6 DEF IInv
<1>5. CASE call.attempt < max_polls /\ call' = [call EXCEPT !.pc = "poll"] /\ UNCHANGED reply
  <2>1. /\ call' \in Calls /\ call'.pc = "poll" /\ call'.search = call.search
        /\ call'.collected = call.collected /\ call'.ids = call.ids /\ call'.whole = call.whole
        /\ call'.request = call.request /\ call'.final = call.final /\ call'.over = call.over
        /\ call'.attempt = call.attempt
    BY <1>3, <1>5 DEF Calls, PCs
  <2>2. (call \in Calls)'
    BY <2>1 DEF Calls, PCs, NoCall, NoSearch
  <2>3. SearchInv' /\ MetInv'
    BY <1>2, <2>1, SameSearch
  <2>4. LooksInv'
    BY <1>3, <1>5, <2>1, Numbers DEF IInv, LooksInv, Limit
  <2>5. TaskInv'
    BY <1>1, <1>2, <2>1 DEF IInv, TaskInv
  <2>6. ReplyInv'
    BY <1>1, <1>5, Unmoved
  <2> QED BY <1>2, <2>2, <2>3, <2>4, <2>5, <2>6 DEF IInv
<1>6. CASE ~(call.attempt < max_polls) /\ completed_result(call)
  <2>1. call' = NoCall /\ call'.pc = "idle"
    BY <1>6 DEF completed_result, NoCall
  <2>2. (call \in Calls)' /\ LooksInv' /\ SearchInv' /\ MetInv'
    BY <1>2, <2>1, NoCallBegun, BegunNext
  <2>3. TaskInv'
    BY <1>1, <1>2, <2>1 DEF IInv, TaskInv
  <2>4. ReplyInv'
    <3> DEFINE q == call.collected
               s == call.search
    <3>1. /\ q \in Seq(1..MaxEvents) /\ s \in Searches /\ SearchOK(s) /\ s.top <= visible
          /\ s.seen \in Nat /\ call.over <= s.seen /\ visible \in 0..MaxEvents
          /\ Collected(s) \subseteq call.ids
      <4>1. /\ q \in Seq(1..MaxEvents) /\ s \in Searches /\ SearchOK(s) /\ s.top <= visible
            /\ Collected(s) \subseteq call.ids
        BY <1>3 DEF IInv, SearchInv, Calls
      <4>2. s.seen \in Nat /\ visible \in 0..MaxEvents
        BY <4>1, VisibleBound, Numbers DEF Searches, IInv
      <4> QED BY <1>3, <4>1, <4>2
    <3>2. \A n \in DOMAIN q : q[n] <= visible
      BY DEF IInv, MetInv, Ids
    <3>3. q = <<>> => call.attempt = max_polls
      BY <1>3, <1>6, Numbers
    <3>4. ASSUME extract_final_answer(q) = NoEvent, call.whole,
                 NEW e \in MetSince(s.seen), log[e].text = "answer"
          PROVE  FALSE
      <4>1. s.page_id >= s.top \/ s.pages = max_pages
        BY <3>4 DEF IInv, SearchInv
      <4>2. e \in call.ids
        BY <3>1, <3>4, <4>1, LastPageMeetsAll
      <4>3. PICK n \in DOMAIN q : q[n] = e
        BY <1>3, <3>4, <4>2, Numbers DEF IInv, MetInv, Ids
      <4>4. \A i \in DOMAIN q : q[i] # NoEvent
        BY <3>1, Numbers DEF NoEvent
      <4>5. Text(q[n]) = "answer"
        BY <3>4, <4>3, <4>4 DEF Text
      <4> HIDE DEF q
      <4> QED BY <3>1, <3>4, <4>3, <4>4, <4>5, LastAnswer
    <3> QED BY <1>1, <1>3, <1>6, <3>1, <3>2, <3>3, <3>4, Completed
  <2> QED BY <1>2, <2>2, <2>3, <2>4 DEF IInv
<1> QED BY <1>4, <1>5, <1>6 DEF AfterStatus

LEMMA GetStatusIInv ==
  ASSUME IInv, GetStatus \/ GetStatusFails
  PROVE  IInv'
<1>1. UNCHANGED <<conversation, task>> /\ call.pc = "status" /\ faults' \in 0..MaxFaults
  BY Numbers DEF GetStatus, GetStatusFails, Fault, IInv
<1>2. \E conv : AfterStatus(conv)
  BY DEF GetStatus, GetStatusFails
<1> QED BY <1>1, <1>2, AfterStatusIInv

-------------------------------------------------------------------------------
THEOREM Invariance == Spec => []IInv
<1>1. IInv /\ [Next]_vars => IInv'
  <2> SUFFICES ASSUME IInv, [Next]_vars PROVE IInv'
    OBVIOUS
  <2>1. CASE OpenHands
    BY <2>1, OpenHandsIInv
  <2>2. CASE \E request \in Requests : CallLM(request)
    BY <2>2, CallLMIInv
  <2>3. CASE StartConversation
    BY <2>3, StartConversationIInv
  <2>4. CASE PollStartTask
    BY <2>4, PollStartTaskIInv
  <2>5. CASE SendMessage
    BY <2>5, SendMessageIInv
  <2>6. CASE PromptFails
    BY <2>6, PromptFailsIInv
  <2>7. CASE BeginSearch
    BY <2>7, BeginSearchIInv
  <2>8. CASE ReadPage
    BY <2>8, ReadPageIInv
  <2>9. CASE PageFails
    BY <2>9, PageFailsIInv
  <2>10. CASE RequestRaises
    BY <2>10, RequestRaisesIInv
  <2>11. CASE Collect
    BY <2>11, CollectIInv
  <2>12. CASE GetStatus \/ GetStatusFails
    BY <2>12, GetStatusIInv
  <2>13. CASE UNCHANGED vars
    <3>1. UNCHANGED conversation /\ task' = task /\ call' = call /\ reply' = reply
          /\ faults' = faults
      BY <2>13 DEF vars
    <3>2. /\ log' = log /\ visible' = visible /\ turn' = turn /\ LogOK' /\ ReplyInv'
          /\ execution_status' = execution_status /\ visible' >= visible
      BY <3>1, Unmoved, VisibleBound DEF IInv
    <3>3. SearchInv' /\ MetInv'
      BY <3>1, <3>2, SameSearch
    <3> QED BY <3>1, <3>2, <3>3 DEF IInv, TaskInv, LooksInv, Limit
  <2> QED BY <2>1, <2>2, <2>3, <2>4, <2>5, <2>6, <2>7, <2>8, <2>9, <2>10, <2>11, <2>12,
             <2>13 DEF Next, Step
<1> QED BY InitIInv, <1>1, PTL DEF Spec

(* The variables keep their types; no request looks more often than its    *)
(* limits allow, and no text is collected that is not in the log.          *)
THEOREM CallTypes == Spec => []TypeOK
<1>1. IInv => TypeOK
  <2> SUFFICES ASSUME IInv PROVE TypeOK
    OBVIOUS
  <2>1. call \in Calls /\ LogOK /\ TaskInv /\ LooksInv /\ MetInv
        /\ reply.answer \in 0..Len(log) /\ faults \in 0..MaxFaults
    BY DEF IInv, ReplyInv
  <2>2. /\ Len(log) \in Nat /\ visible \in Nat /\ visible <= Len(log)
        /\ call.attempt \in Nat /\ call.pc \in PCs /\ call.search \in Searches
        /\ call.collected \in Seq(1..MaxEvents)
    BY <2>1, VisibleBound DEF Calls
  <2>3. call.attempt \in 0..(max_polls + start_attempts + final_retries)
    <3>1. \/ call.attempt = 0 \/ call.attempt <= max_polls \/ call.attempt <= start_attempts
          \/ call.attempt <= final_retries
      BY <2>1, <2>2, Numbers DEF LooksInv, Limit, PCs
    <3> QED BY <2>2, <3>1, Numbers
  <2>4. call.collected \in Seq(1..Len(log))
    <3> DEFINE q == call.collected
    <3>1. \A n \in DOMAIN q : q[n] \in 1..Len(log)
      <4> TAKE n \in DOMAIN q
      <4>1. q[n] \in 1..MaxEvents /\ q[n] <= visible
        <5>1. q[n] \in call.ids
          BY <2>1 DEF MetInv, Ids
        <5> HIDE DEF q
        <5> QED BY <2>1, <5>1 DEF MetInv, Calls
      <4> QED BY <2>2, <4>1, Numbers
    <3>2. q \in Seq(1..MaxEvents)
      BY <2>2
    <3> HIDE DEF q
    <3>3. q \in Seq(1..Len(log))
      <4>1. Len(q) \in Nat /\ DOMAIN q = 1..Len(q) /\ q = [n \in 1..Len(q) |-> q[n]]
        BY <3>2
      <4>2. q \in [1..Len(q) -> 1..Len(log)]
        BY <3>1, <4>1
      <4> QED BY <4>1, <4>2
    <3> QED BY <3>3 DEF q
  <2>5. ConversationOK
    BY <2>1 DEF LogOK, TaskInv, ConversationOK
  <2> QED BY <2>1, <2>2, <2>3, <2>4, <2>5 DEF TypeOK, TaskInv, PCs
<1> QED BY <1>1, Invariance, PTL

(* What is answered was collected when the request ended, or is what the   *)
(* last look makes of it.                                                  *)
Repeated(q, n) == \E m \in DOMAIN q : m < n /\ q[m] = q[n]
RepliesOnce ==
  LET q == reply.call.collected IN
    \A n \in DOMAIN q : Repeated(q, n) => n = Len(q) /\ reply.call.final /\ reply.call.late = 0

LEMMA ReplyOf ==
  ASSUME IInv, [Next]_vars
  PROVE  \/ reply' = reply \/ reply' = NoReply
         \/ reply'.call.collected = call.collected
         \/ /\ call.pc = "collect"
            /\ reply'.call.collected = Looked.collected
            /\ reply'.call.final = call.final /\ reply'.call.late = Looked.late
<1>1. call \in Calls
  BY DEF IInv
<1>2. ASSUME NEW looked \in Calls, completed_result(looked)
      PROVE  /\ reply'.call.collected = looked.collected
             /\ reply'.call.final = looked.final /\ reply'.call.late = looked.late
  BY <1>2 DEF completed_result, Calls
<1>3. ASSUME NEW status, Answered(status, NoEvent) PROVE reply'.call.collected = call.collected
  BY <1>1, <1>3 DEF Answered, Calls
<1>4. CASE OpenHands \/ \E request \in Requests : CallLM(request)
  BY <1>4 DEF OpenHands, TaskIsReady, TaskFails, CallLM
<1>5. CASE StartConversation \/ PollStartTask \/ SendMessage
  BY <1>3, <1>5 DEF StartConversation, PollStartTask, SendMessage, Failed
<1>6. CASE PromptFails \/ RequestRaises
  BY <1>3, <1>6 DEF PromptFails, RequestRaises, Failed
<1>7. CASE BeginSearch \/ ReadPage \/ PageFails
  BY <1>7 DEF BeginSearch, ReadPage, PageFails
<1>8. CASE Collect
  <2>1. Looked \in Calls /\ Looked.final = call.final
    BY <1>1, LookedIs
  <2>2. CASE completed_result(Looked)
    BY <1>2, <1>8, <2>1, <2>2 DEF Collect
  <2> QED BY <1>8, <2>2 DEF Collect
<1>9. CASE GetStatus \/ GetStatusFails
  <2>1. PICK conv : AfterStatus(conv)
    BY <1>9 DEF GetStatus, GetStatusFails
  <2> QED BY <1>1, <1>2, <2>1 DEF AfterStatus
<1>10. CASE UNCHANGED vars
  BY <1>10 DEF vars
<1> QED BY <1>4, <1>5, <1>6, <1>7, <1>8, <1>9, <1>10 DEF Next, Step

LEMMA ReplyOnceStep ==
  ASSUME IInv, RepliesOnce, [Next]_vars
  PROVE  RepliesOnce'
<1>1. \A m, n \in DOMAIN call.collected : m # n => call.collected[m] # call.collected[n]
  BY DEF IInv, MetInv
<1>2. \A q : (\A m, n \in DOMAIN q : m # n => q[m] # q[n]) /\ DOMAIN q \subseteq Nat
        => \A n \in DOMAIN q : ~Repeated(q, n)
  BY DEF Repeated
<1>3. call \in Calls /\ DOMAIN call.collected \subseteq Nat
  BY DEF IInv, Calls
<1>4. CASE reply' = reply
  BY <1>4 DEF RepliesOnce
<1>5. CASE reply' = NoReply
  BY <1>5 DEF RepliesOnce, NoReply, NoCall
<1>6. CASE reply'.call.collected = call.collected
  BY <1>1, <1>2, <1>3, <1>6 DEF RepliesOnce
<1>7. CASE /\ call.pc = "collect"
           /\ reply'.call.collected = Looked.collected
           /\ reply'.call.final = call.final /\ reply'.call.late = Looked.late
  <2> DEFINE q == Looked.collected
             old == call.collected
  <2>1. q \in Seq(1..MaxEvents) /\ old \in Seq(1..MaxEvents)
    BY <1>3, LookedIs DEF Calls
  <2>2. DOMAIN q \subseteq Nat /\ DOMAIN q = 1..Len(q) /\ Len(q) \in Nat
    BY <2>1
  <2>3. CASE \A m, n \in DOMAIN q : m # n => q[m] # q[n]
    <3> HIDE DEF q
    <3>1. \A n \in DOMAIN q : ~Repeated(q, n)
      BY <1>2, <2>2, <2>3
    <3> QED BY <1>7, <3>1 DEF RepliesOnce, q
  <2>4. CASE /\ call.final /\ Looked.late = 0
             /\ \E f \in 1..MaxEvents : q = Append(old, f)
    <3>1. \A n \in 1..Len(old) : ~Repeated(old, n)
      <4> HIDE DEF old
      <4> QED BY <1>1, <1>2, <1>3, <2>1 DEF old
    <3>2. Len(q) = Len(old) + 1 /\ Len(old) \in Nat /\ \A n \in 1..Len(old) : q[n] = old[n]
      BY <2>1, <2>4
    <3>3. ASSUME NEW n \in DOMAIN q, n # Len(q), NEW m \in DOMAIN q, m < n PROVE q[m] # q[n]
      <4>1. m \in 1..Len(old) /\ n \in 1..Len(old)
        BY <2>2, <3>2, <3>3
      <4>2. old[m] # old[n]
        BY <2>1, <3>1, <3>3, <4>1 DEF Repeated
      <4> QED BY <3>2, <4>1, <4>2
    <3> HIDE DEF q
    <3>4. \A n \in DOMAIN q : Repeated(q, n) => n = Len(q)
      BY <3>3 DEF Repeated
    <3> QED BY <1>7, <2>4, <3>4 DEF RepliesOnce, q
  <2>5. CASE call.request.mode = "read_only"
    <3>1. q = <<>> \/ \E f : q = <<f>>
      BY <1>3, <2>5, LookedIs
    <3> HIDE DEF q
    <3>2. \A n \in DOMAIN q : n = 1
      <4>1. CASE q = <<>>
        BY <4>1
      <4>2. CASE \E f : q = <<f>>
        BY <4>2
      <4> QED BY <3>1, <4>1, <4>2
    <3>3. \A m, n \in DOMAIN q : m # n => q[m] # q[n]
      BY <3>2
    <3> QED BY <2>3, <3>3 DEF q
  <2> QED BY <1>7, <2>3, <2>4, <2>5, Gathered
<1> QED BY <1>4, <1>5, <1>6, <1>7, ReplyOf

(* However the pages move from poll to poll, a text is collected once; and *)
(* none is answered twice but the one with which a final look ends that    *)
(* brought nothing new.                                                    *)
THEOREM TextsCollectedOnce == Spec => []CollectedOnce
<1>1. Init => RepliesOnce
  BY DEF Init, RepliesOnce, NoReply, NoCall
<1>2. IInv /\ RepliesOnce /\ [Next]_vars => RepliesOnce'
  BY ReplyOnceStep
<1>3. IInv /\ RepliesOnce => CollectedOnce
  BY DEF IInv, MetInv, RepliesOnce, Repeated, CollectedOnce
<1> QED BY <1>1, <1>2, <1>3, Invariance, PTL DEF Spec

(* An empty result comes only after every look the request allows.         *)
THEOREM EmptyIsLast == Spec => []EmptyAfterAllLooks
<1>1. IInv => EmptyAfterAllLooks
  BY DEF IInv, ReplyInv
<1> QED BY <1>1, Invariance, PTL

(* An empty result, if no page was lost, is true: no look of several, at a *)
(* log that grows under it, passed over an answer.                         *)
THEOREM EmptyIsTrue == Spec => []EmptyOnlyIfSilent
<1>1. IInv => EmptyOnlyIfSilent
  BY DEF IInv, ReplyInv
<1> QED BY <1>1, Invariance, PTL

(* After the end of the conversation no text older than a finish action    *)
(* that was met comes back as the answer, if the final look brought one    *)
(* text at most.                                                           *)
THEOREM FinishIsAnswer == Spec => []FinishWins
<1>1. IInv => FinishWins
  BY DEF IInv, ReplyInv
<1> QED BY <1>1, Invariance, PTL

-------------------------------------------------------------------------------
(* How far a request is from its end, by the point it has reached.         *)
Left ==
  /\ LooksLeft \in Nat /\ Rest \in 0..(max_pages + 2)
  /\ call.pc # "idle" => LooksLeft > 0 \/ Rest > 0
Down == LooksLeft' < LooksLeft \/ (LooksLeft' = LooksLeft /\ Rest' < Rest)

LEMMA LeftIs == IInv => Left
<1> SUFFICES ASSUME IInv PROVE Left
  OBVIOUS
<1>1. /\ call.pc \in PCs /\ call.attempt \in Nat /\ call.final \in BOOLEAN
      /\ call.search.pages \in 0..max_pages
      /\ call.pc = "page" => call.search.pages < max_pages
  BY DEF IInv, SearchInv, Calls, Searches
<1>2. /\ call.pc = "task" => call.attempt < start_attempts
      /\ call.pc = "poll" => call.attempt < Limit
      /\ call.pc \in {"page", "collect", "status"} => call.attempt <= Limit
  BY DEF IInv, LooksInv
<1>3. Rest \in 0..(max_pages + 2)
  BY <1>1, Numbers DEF Rest
<1>4. /\ max_polls \in Nat \ {0} /\ start_attempts \in Nat \ {0} /\ final_retries \in Nat \ {0}
      /\ max_pages \in Nat
  BY Numbers DEF CallLMAssumption
<1>5. CASE call.pc \in {"idle", "start", "task", "send"}
  BY <1>1, <1>2, <1>3, <1>4, <1>5 DEF Left, LooksLeft
<1>6. CASE call.pc = "poll"
  BY <1>1, <1>2, <1>3, <1>4, <1>6 DEF Left, LooksLeft, Limit
<1>7. CASE call.pc \in {"page", "collect", "status"}
  <2>1. LooksLeft \in Nat
    BY <1>1, <1>2, <1>4, <1>7 DEF LooksLeft, Limit
  <2>2. Rest > 0
    BY <1>1, <1>4, <1>7 DEF Rest
  <2> QED BY <1>3, <2>1, <2>2 DEF Left
<1> QED BY <1>1, <1>5, <1>6, <1>7 DEF PCs

LEMMA AnsweredDown ==
  ASSUME Left, call.pc # "idle", call' = NoCall
  PROVE  Down
<1>1. call'.pc = "idle"
  BY DEF NoCall
<1>2. LooksLeft' = 0 /\ Rest' = 0
  BY <1>1 DEF LooksLeft, Rest
<1> QED BY <1>2 DEF Left, Down

(* Before the first look.                                                  *)
LEMMA PromptDown ==
  ASSUME IInv, Left, StartConversation \/ PollStartTask \/ SendMessage, call' # call
  PROVE  Down
<1>1. /\ call \in Calls /\ call.pc \in {"start", "task", "send"} /\ ~call.final
      /\ call.attempt \in Nat
      /\ call.pc \in {"start", "send"} => call.attempt = 0
      /\ call.pc = "task" => call.attempt < start_attempts
  BY DEF StartConversation, PollStartTask, SendMessage, IInv, LooksInv, Calls
<1>2. /\ max_polls \in Nat /\ start_attempts \in Nat /\ final_retries \in Nat
  BY Numbers DEF CallLMAssumption
<1>3. CASE call' = NoCall
  BY <1>1, <1>3, AnsweredDown
<1>4. CASE call' = [call EXCEPT !.pc = "task"] /\ call.pc = "start"
  <2>1. call'.pc = "task" /\ call'.attempt = 0
    BY <1>1, <1>4 DEF Calls
  <2> QED BY <1>2, <1>4, <2>1 DEF Down, LooksLeft
<1>5. CASE call' = [call EXCEPT !.pc = "poll"] /\ call.pc \in {"start", "send"}
  <2>1. call'.pc = "poll" /\ call'.attempt = 0 /\ call'.final = FALSE
    BY <1>1, <1>5 DEF Calls
  <2> QED BY <1>2, <1>5, <2>1 DEF Down, LooksLeft
<1>6. CASE call' = [call EXCEPT !.pc = "poll", !.attempt = 0] /\ call.pc = "task"
  <2>1. call'.pc = "poll" /\ call'.attempt = 0 /\ call'.final = FALSE
    BY <1>1, <1>6 DEF Calls
  <2> QED BY <1>1, <1>2, <1>6, <2>1 DEF Down, LooksLeft
<1>7. CASE call' = [call EXCEPT !.attempt = @ + 1] /\ call.pc = "task"
  <2>1. call'.pc = "task" /\ call'.attempt = call.attempt + 1
    BY <1>1, <1>7 DEF Calls
  <2> QED BY <1>1, <1>2, <1>7, <2>1 DEF Down, LooksLeft
<1> QED BY <1>3, <1>4, <1>5, <1>6, <1>7
        DEF StartConversation, PollStartTask, SendMessage, Answered, Failed

(* A look, page by page, and what follows it.                              *)
LEMMA LookDown ==
  ASSUME IInv, Left, BeginSearch \/ ReadPage \/ PageFails \/ Collect
  PROVE  Down
<1>1. /\ call \in Calls /\ call.attempt \in Nat /\ call.pc \in {"poll", "page", "collect"}
      /\ call.search \in Searches /\ call.search.pages \in 0..max_pages
      /\ call.final \in BOOLEAN
  BY DEF BeginSearch, ReadPage, PageFails, Collect, IInv, Calls, Searches
<1>2. max_polls \in Nat /\ final_retries \in Nat /\ max_pages \in Nat
  BY Numbers DEF CallLMAssumption
<1>3. CASE BeginSearch
  <2>1. call.pc = "poll" /\ call'.pc = "page" /\ call'.attempt = call.attempt + 1
        /\ call'.final = call.final
    BY <1>1, <1>3 DEF BeginSearch, Calls
  <2>2. LooksLeft' = LooksLeft - 1
    BY <1>1, <1>2, <2>1 DEF LooksLeft
  <2> QED BY <2>2 DEF Left, Down
<1>4. CASE ReadPage
  <2>1. PICK new \in NewItems(call.search) :
          call' = [call EXCEPT !.pc = IF LastPage(call.search) THEN "collect" ELSE "page",
                               !.search = AfterPage(@, new)]
    BY <1>4 DEF ReadPage
  <2>2. AfterPage(call.search, new).pages = call.search.pages + 1
    BY <1>1 DEF AfterPage, Searches
  <2>3. /\ call.pc = "page" /\ call'.pc \in {"page", "collect"} /\ call'.attempt = call.attempt
        /\ call'.final = call.final /\ call'.search.pages = call.search.pages + 1
    BY <1>1, <1>4, <2>1, <2>2 DEF ReadPage, Calls
  <2>4. call.search.pages < max_pages
    BY <2>3 DEF IInv, SearchInv
  <2>5. LooksLeft' = LooksLeft
    BY <2>3 DEF LooksLeft
  <2>6. Rest' < Rest
    BY <1>1, <1>2, <2>3, <2>4 DEF Rest
  <2> QED BY <2>5, <2>6 DEF Down
<1>5. CASE PageFails
  <2>1. /\ call.pc = "page" /\ call'.pc = "collect" /\ call'.attempt = call.attempt
        /\ call'.final = call.final
    BY <1>1, <1>5 DEF PageFails, Calls
  <2>2. call.search.pages < max_pages
    BY <2>1 DEF IInv, SearchInv
  <2>3. LooksLeft' = LooksLeft
    BY <2>1 DEF LooksLeft
  <2>4. Rest' < Rest
    BY <1>1, <1>2, <2>1, <2>2 DEF Rest
  <2> QED BY <2>3, <2>4 DEF Down
<1>6. CASE Collect
  <2>1. call.pc = "collect"
    BY <1>6 DEF Collect
  <2>2. CASE call' = NoCall
    BY <2>1, <2>2, AnsweredDown
  <2>3. CASE call' = [Looked EXCEPT !.pc = IF call.final THEN "poll" ELSE "status"]
    <3>1. Looked \in Calls /\ Looked.attempt = call.attempt /\ Looked.final = call.final
      BY <1>1, LookedIs
    <3>2. /\ call'.pc \in {"poll", "status"} /\ call'.attempt = call.attempt
          /\ call'.final = call.final
      BY <2>3, <3>1 DEF Calls
    <3>3. LooksLeft' = LooksLeft
      BY <2>1, <3>2 DEF LooksLeft
    <3>4. Rest' < Rest
      BY <2>1, <3>2 DEF Rest
    <3> QED BY <3>3, <3>4 DEF Down
  <2> QED BY <1>6, <2>2, <2>3 DEF Collect, completed_result
<1> QED BY <1>3, <1>4, <1>5, <1>6

(* After the status: another poll, the first of the final looks, or none.  *)
LEMMA StatusDown ==
  ASSUME IInv, Left, GetStatus \/ GetStatusFails
  PROVE  Down
<1>1. /\ call \in Calls /\ call.attempt \in Nat /\ call.pc = "status" /\ ~call.final
      /\ call.attempt <= max_polls
  BY DEF GetStatus, GetStatusFails, IInv, LooksInv, Limit, Calls
<1>2. max_polls \in Nat /\ final_retries \in Nat
  BY Numbers DEF CallLMAssumption
<1>3. PICK conv : AfterStatus(conv)
  BY DEF GetStatus, GetStatusFails
<1>4. CASE call' = NoCall
  BY <1>1, <1>4, AnsweredDown
<1>5. CASE call' = [call EXCEPT !.pc = "poll", !.final = TRUE, !.attempt = 0, !.over = visible]
  <2>1. call'.pc = "poll" /\ call'.attempt = 0 /\ call'.final = TRUE
    BY <1>1, <1>5 DEF Calls
  <2>2. LooksLeft' = final_retries /\ LooksLeft = max_polls + final_retries - call.attempt
    BY <1>1, <1>2, <2>1 DEF LooksLeft
  <2>3. Rest' = 0 /\ Rest = 1
    BY <1>1, <2>1 DEF Rest
  <2> QED BY <1>1, <1>2, <2>2, <2>3 DEF Down
<1>6. CASE call' = [call EXCEPT !.pc = "poll"]
  <2>1. call'.pc = "poll" /\ call'.attempt = call.attempt /\ call'.final = call.final
    BY <1>1, <1>6 DEF Calls
  <2>2. LooksLeft' = LooksLeft
    BY <1>1, <2>1 DEF LooksLeft
  <2>3. Rest' = 0 /\ Rest = 1
    BY <1>1, <2>1 DEF Rest
  <2> QED BY <2>2, <2>3 DEF Down
<1> QED BY <1>3, <1>4, <1>5, <1>6 DEF AfterStatus, completed_result

(* Each step of a request, whatever OpenHands does, brings it nearer to    *)
(* its end, of which it is at most a number of steps away that its limits  *)
(* fix: so no request goes on for ever.                                    *)
THEOREM CallGetsNearer == Spec => CallAdvances
<1>1. IInv /\ Left /\ [Next]_vars => (call.pc # "idle" /\ call' # call => Down)
  <2> SUFFICES ASSUME IInv, Left, Next, call.pc # "idle", call' # call
               PROVE  Down
    BY DEF vars
  <2>1. CASE StartConversation \/ PollStartTask \/ SendMessage
    BY <2>1, PromptDown
  <2>2. CASE PromptFails \/ RequestRaises
    <3>1. call' = NoCall
      BY <2>2 DEF PromptFails, RequestRaises, Failed, Answered
    <3> QED BY <3>1, AnsweredDown
  <2>3. CASE BeginSearch \/ ReadPage \/ PageFails \/ Collect
    BY <2>3, LookDown
  <2>4. CASE GetStatus \/ GetStatusFails
    BY <2>4, StatusDown
  <2>5. ~OpenHands /\ ~(\E request \in Requests : CallLM(request))
    BY DEF OpenHands, TaskIsReady, TaskFails, CallLM
  <2> QED BY <2>1, <2>2, <2>3, <2>4, <2>5 DEF Next, Step
<1>2. Left /\ Left' /\ Down => Remaining' \in 0..(Remaining - 1)
  <2> SUFFICES ASSUME Left, Left', Down PROVE Remaining' \in 0..(Remaining - 1)
    OBVIOUS
  <2> DEFINE s == max_pages + 3
  <2>1. s \in Nat /\ s - 1 = max_pages + 2
    BY Numbers
  <2>2. /\ LooksLeft \in Nat /\ Rest \in 0..(s - 1)
        /\ LooksLeft' \in Nat /\ Rest' \in 0..(s - 1)
    BY <2>1 DEF Left
  <2>3. Remaining = LooksLeft * s + Rest /\ Remaining' = LooksLeft' * s + Rest'
    BY DEF Remaining
  <2> HIDE DEF s
  <2>4. LooksLeft' * s + Rest' \in 0..((LooksLeft * s + Rest) - 1)
    BY <2>1, <2>2, Nearer DEF Down
  <2> QED BY <2>3, <2>4
<1> QED BY <1>1, <1>2, LeftIs, Invariance, PTL DEF Spec, CallAdvances
===============================================================================
