-------------------------- MODULE ConversationProofs --------------------------
(***************************************************************************)
(* Lemmas about reading the event log of a conversation: what a search     *)
(* that goes on page by page has collected, whatever becomes visible       *)
(* between its pages, and which event collect_final_text_from_events       *)
(* takes.  For any size and number of pages.                               *)
(***************************************************************************)
EXTENDS Conversation, WellFoundedInduction, TLAPS

(* A non-empty set of natural numbers has a least member.                  *)
LEMMA Least ==
  ASSUME NEW T \in SUBSET Nat, T # {}
  PROVE  \E x \in T : \A y \in T : x <= y
<1> DEFINE R == OpToRel(<, Nat)
<1>1. IsWellFoundedOn(R, Nat)
  BY NatLessThanWellFounded
<1>2. \E x \in T : \A y \in T : ~ (<<y, x>> \in R)
  <2> HIDE DEF R
  <2> QED BY <1>1, WFMin
<1>3. \A x, y \in Nat : y < x => <<y, x>> \in R
  BY SMT DEF OpToRel
<1>4. \A x, y \in T : x <= y \/ y < x
  BY SMT
<1> HIDE DEF R
<1> QED BY <1>2, <1>3, <1>4

(* Induction up to a bound, over a set.                                    *)
LEMMA Induction ==
  ASSUME NEW N \in Nat, NEW T, 0 \in T, \A k \in 0..N : k + 1 \in 0..N /\ k \in T => k + 1 \in T
  PROVE  0..N \subseteq T
<1> DEFINE Rest == (0..N) \ T
<1> SUFFICES ASSUME Rest # {} PROVE FALSE
  OBVIOUS
<1>1. PICK m \in Rest : \A k \in Rest : m <= k
  <2>1. Rest \in SUBSET Nat
    OBVIOUS
  <2> HIDE DEF Rest
  <2> QED BY <2>1, Least
<1>2. m # 0 /\ m - 1 \in 0..N /\ m - 1 + 1 = m
  BY <1>1
<1>3. m - 1 \in T
  BY <1>1, <1>2
<1> QED BY <1>1, <1>2, <1>3

-------------------------------------------------------------------------------
(* What is known of a search at any time.  Its pages begin at a multiple   *)
(* of limit.  No event is collected twice.  If it was not overtaken, it    *)
(* went from newer to older events without a gap: all that is collected    *)
(* lies above the end of its last page, and that page's events are         *)
(* collected.  And every event it began with that lies above that end is   *)
(* collected, overtaken or not.                                            *)
Once(s) == \A m, n \in DOMAIN s.events : m < n => s.events[m] # s.events[n]

Descending(s) ==
  ~s.overtaken => \A m, n \in DOMAIN s.events : m < n => s.events[m] > s.events[n]

Above(s) ==
  ~s.overtaken => \A m \in DOMAIN s.events : s.events[m] > s.top - s.page_id

LastPageMet(s) ==
  ~s.overtaken /\ s.page_id > 0 =>
    \A e \in 1..MaxEvents :
      s.top - s.page_id < e /\ e <= s.top - s.page_id + limit => e \in Collected(s)

Reached(s) ==
  \A e \in 1..s.seen : s.top - e < s.page_id => e \in Collected(s)

SearchOK(s) ==
  /\ s \in Searches
  /\ s.page_id = limit * s.pages
  /\ s.seen <= s.top
  /\ \A m \in DOMAIN s.events : s.events[m] <= s.top
  /\ s.page_id = 0 => s.events = <<>>
  /\ Once(s) /\ Descending(s) /\ Above(s) /\ LastPageMet(s) /\ Reached(s)

-------------------------------------------------------------------------------
(* A page holds the events from its offset on, newest first, and nothing   *)
(* else.                                                                   *)
LEMMA PageHolds ==
  ASSUME NEW s \in Searches, visible \in 0..MaxEvents, ConversationAssumption
  PROVE  /\ PageSize(s) \in 0..limit
         /\ DOMAIN Page(s) = 1..PageSize(s)
         /\ \A n \in 1..PageSize(s) :
              /\ Page(s)[n] \in 1..visible
              /\ visible - s.page_id - limit < Page(s)[n]
              /\ Page(s)[n] <= visible - s.page_id
         /\ \A e \in 1..visible :
              visible - s.page_id - limit < e /\ e <= visible - s.page_id =>
                \E n \in 1..PageSize(s) : Page(s)[n] = e
<1>1. /\ limit \in Nat \ {0} /\ s.page_id \in Nat /\ visible \in Nat /\ MaxEvents \in Nat
  BY DEF ConversationAssumption, Searches
<1>2. PageSize(s) \in 0..limit
  BY <1>1 DEF PageSize
<1>3. DOMAIN Page(s) = 1..PageSize(s)
  BY DEF Page
<1>4. ASSUME NEW n \in 1..PageSize(s)
      PROVE  /\ Page(s)[n] \in 1..visible
             /\ visible - s.page_id - limit < Page(s)[n]
             /\ Page(s)[n] <= visible - s.page_id
  <2>1. Page(s)[n] = visible - s.page_id - n + 1
    BY DEF Page
  <2>2. n \in Nat /\ 1 <= n /\ n <= limit /\ n <= visible - s.page_id
    BY <1>1 DEF PageSize
  <2> QED BY <1>1, <2>1, <2>2
<1>5. ASSUME NEW e \in 1..visible,
             visible - s.page_id - limit < e, e <= visible - s.page_id
      PROVE  \E n \in 1..PageSize(s) : Page(s)[n] = e
  <2> DEFINE n == visible - s.page_id - e + 1
  <2>1. n \in 1..PageSize(s)
    BY <1>1, <1>5 DEF PageSize
  <2>2. Page(s)[n] = visible - s.page_id - n + 1
    BY <2>1 DEF Page
  <2>3. visible - s.page_id - n + 1 = e
    BY <1>1
  <2> QED BY <2>1, <2>2, <2>3
<1> QED BY <1>2, <1>3, <1>4, <1>5

(* What a page adds: exactly its events that were not collected before,    *)
(* newest first.                                                           *)
LEMMA NewItemsAre ==
  ASSUME NEW s \in Searches, visible \in 0..MaxEvents, ConversationAssumption,
         NEW new \in NewItems(s)
  PROVE  /\ new \in Seq(1..MaxEvents)
         /\ \A n \in 1..Len(new) :
              /\ new[n] \in 1..visible /\ new[n] \notin Collected(s)
              /\ visible - s.page_id - limit < new[n]
              /\ new[n] <= visible - s.page_id
         /\ \A m, n \in 1..Len(new) : m < n => new[m] > new[n]
         /\ \A e \in 1..visible :
              visible - s.page_id - limit < e /\ e <= visible - s.page_id =>
                e \in Collected(s) \/ \E n \in 1..Len(new) : new[n] = e
<1> DEFINE fresh == {Page(s)[n] : n \in DOMAIN Page(s)} \ Collected(s)
<1>1. PICK k \in 0..limit : new \in [1..k -> fresh]
  BY DEF NewItems
<1>2. /\ \A e \in fresh : \E n \in DOMAIN new : new[n] = e
      /\ \A m, n \in DOMAIN new : m < n => new[m] > new[n]
  BY DEF NewItems
<1>3. k \in Nat /\ limit \in Nat
  BY DEF ConversationAssumption
<1>4. fresh \subseteq 1..visible
  BY PageHolds
<1>5. 1..visible \subseteq 1..MaxEvents
  BY DEF ConversationAssumption
<1>6. new \in Seq(1..MaxEvents) /\ Len(new) = k /\ DOMAIN new = 1..k
  <2>1. new \in [1..k -> 1..MaxEvents]
    BY <1>1, <1>4, <1>5
  <2> HIDE DEF fresh
  <2> QED BY <1>3, <2>1
<1>7. ASSUME NEW n \in 1..Len(new)
      PROVE  /\ new[n] \in 1..visible /\ new[n] \notin Collected(s)
             /\ visible - s.page_id - limit < new[n]
             /\ new[n] <= visible - s.page_id
  <2>1. new[n] \in fresh
    BY <1>1, <1>6
  <2>2. PICK i \in 1..PageSize(s) : new[n] = Page(s)[i]
    BY <2>1, PageHolds
  <2> QED BY <2>1, <2>2, PageHolds
<1>8. ASSUME NEW e \in 1..visible,
             visible - s.page_id - limit < e, e <= visible - s.page_id,
             e \notin Collected(s)
      PROVE  \E n \in 1..Len(new) : new[n] = e
  <2>1. e \in fresh
    BY <1>8, PageHolds
  <2> QED BY <2>1, <1>2, <1>6
<1> HIDE DEF fresh
<1> QED BY <1>2, <1>6, <1>7, <1>8

-------------------------------------------------------------------------------
(* A place in a sequence of a + b that is not one of the first a.          *)
LEMMA Behind ==
  ASSUME NEW a \in Nat, NEW b \in Nat, NEW n \in 1..(a + b), n \notin 1..a
  PROVE  n - a \in 1..b /\ n > a /\ a + (n - a) = n
OBVIOUS

(* A search that has begun is as it should be.                             *)
LEMMA NewSearchOK ==
  ASSUME visible \in 0..MaxEvents, ConversationAssumption
  PROVE  SearchOK(NewSearch) /\ SearchOK(NoSearch)
<1>1. /\ limit \in Nat /\ max_pages \in Nat \ {0} /\ MaxEvents \in Nat /\ visible \in Nat
  BY DEF ConversationAssumption
<1>2. /\ NewSearch.page_id = 0 /\ NewSearch.pages = 0 /\ NewSearch.events = <<>>
      /\ NewSearch.top = visible /\ NewSearch.seen = visible
  BY DEF NewSearch, NoSearch
<1>3. limit * 0 = 0
  BY <1>1
<1>4. SearchOK(NewSearch)
  <2>1. NoSearch \in Searches
    BY <1>1 DEF Searches, NoSearch
  <2>2. NewSearch \in Searches
    <3>1. [NoSearch EXCEPT !.top = visible] \in Searches
      BY <1>1, <2>1 DEF Searches
    <3> QED BY <1>1, <3>1 DEF Searches, NewSearch
  <2>3. DOMAIN NewSearch.events = {}
    BY <1>2
  <2>4. Reached(NewSearch)
    BY <1>1, <1>2 DEF Reached
  <2> QED BY <1>1, <1>2, <1>3, <2>2, <2>3, <2>4
          DEF SearchOK, Once, Descending, Above, LastPageMet
<1>5. SearchOK(NoSearch)
  <2>1. NoSearch \in Searches
    BY <1>1 DEF Searches, NoSearch
  <2> QED BY <1>1, <1>3, <2>1
          DEF SearchOK, Once, Descending, Above, LastPageMet, Reached, NoSearch
<1> QED BY <1>4, <1>5

(* A page read at any later moment keeps it so.                            *)
LEMMA AfterPageOK ==
  ASSUME NEW s, SearchOK(s), s.pages < max_pages, s.top <= visible,
         visible \in 0..MaxEvents, ConversationAssumption,
         NEW new \in NewItems(s)
  PROVE  SearchOK(AfterPage(s, new))
<1> DEFINE t == AfterPage(s, new)
           end == visible - s.page_id - limit
<1>1. /\ limit \in Nat \ {0} /\ max_pages \in Nat \ {0} /\ MaxEvents \in Nat /\ visible \in Nat
      /\ s \in Searches
  BY DEF ConversationAssumption, SearchOK
<1>2. /\ s.page_id \in Nat /\ s.pages \in Nat /\ s.top \in Nat /\ s.seen \in Nat
      /\ s.events \in Seq(1..MaxEvents)
      /\ s.overtaken \in BOOLEAN /\ s.cut \in BOOLEAN
  BY <1>1 DEF Searches
<1>3. /\ t.events = s.events \o new /\ t.page_id = s.page_id + limit
      /\ t.pages = s.pages + 1 /\ t.top = visible /\ t.seen = s.seen
  BY <1>1 DEF AfterPage, Searches
<1>23. t.overtaken = (s.overtaken \/ visible > s.top + limit)
  BY <1>1 DEF AfterPage, Searches
<1>24. \A m \in DOMAIN s.events : s.events[m] <= s.top
  BY DEF SearchOK
<1>4. /\ new \in Seq(1..MaxEvents)
      /\ \A n \in 1..Len(new) :
           /\ new[n] \in 1..visible /\ new[n] \notin Collected(s)
           /\ end < new[n] /\ new[n] <= visible - s.page_id
      /\ \A m, n \in 1..Len(new) : m < n => new[m] > new[n]
      /\ \A e \in 1..visible :
           end < e /\ e <= visible - s.page_id =>
             e \in Collected(s) \/ \E n \in 1..Len(new) : new[n] = e
  BY <1>1, NewItemsAre
<1>5. /\ t.events \in Seq(1..MaxEvents)
      /\ Len(t.events) = Len(s.events) + Len(new)
      /\ DOMAIN t.events = 1..(Len(s.events) + Len(new))
      /\ \A n \in 1..Len(s.events) : t.events[n] = s.events[n]
      /\ \A n \in 1..Len(new) : t.events[Len(s.events) + n] = new[n]
  BY <1>2, <1>3, <1>4
<1>6. Len(s.events) \in Nat /\ Len(new) \in Nat /\ DOMAIN s.events = 1..Len(s.events)
  BY <1>2, <1>4
<1>7. \A n \in DOMAIN t.events :
        \/ n \in 1..Len(s.events) /\ t.events[n] = s.events[n]
        \/ /\ n - Len(s.events) \in 1..Len(new) /\ n > Len(s.events)
           /\ t.events[n] = new[n - Len(s.events)]
  <2> SUFFICES ASSUME NEW n \in DOMAIN t.events, n \notin 1..Len(s.events)
               PROVE  /\ n - Len(s.events) \in 1..Len(new) /\ n > Len(s.events)
                      /\ t.events[n] = new[n - Len(s.events)]
    BY <1>5
  <2>1. n \in 1..(Len(s.events) + Len(new))
    BY <1>5
  <2>2. /\ n - Len(s.events) \in 1..Len(new) /\ n > Len(s.events)
        /\ Len(s.events) + (n - Len(s.events)) = n
    BY <1>6, <2>1, Behind
  <2> QED BY <1>5, <2>2
<1>8. \A e : e \in Collected(s) => e \in Collected(t)
  <2> SUFFICES ASSUME NEW n \in DOMAIN s.events
               PROVE  s.events[n] \in Collected(t)
    BY DEF Collected
  <2>1. n \in DOMAIN t.events /\ t.events[n] = s.events[n]
    BY <1>5, <1>6
  <2> QED BY <2>1 DEF Collected
<1>9. \A n \in 1..Len(new) : new[n] \in Collected(t)
  <2> TAKE n \in 1..Len(new)
  <2>1. Len(s.events) + n \in DOMAIN t.events
    BY <1>5, <1>6
  <2> QED BY <1>5, <2>1 DEF Collected
<1>10. \A e \in 1..visible :
         end < e /\ e <= visible - s.page_id => e \in Collected(t)
  BY <1>4, <1>8, <1>9
<1>11. \A n \in 1..Len(s.events) : s.events[n] \in Collected(s) /\ s.events[n] \in 1..MaxEvents
  BY <1>2, <1>6 DEF Collected
<1> HIDE DEF t, end
<1>12. t \in Searches
  <2>1. s.events \o new \in Seq(1..MaxEvents)
    BY <1>2, <1>4
  <2>2. [s EXCEPT !.events = @ \o new] \in Searches
    BY <1>1, <2>1 DEF Searches
  <2>3. [s EXCEPT !.events = @ \o new, !.page_id = @ + limit] \in Searches
    <3>1. s.page_id + limit \in Nat
      BY <1>1, <1>2
    <3> DEFINE r == [s EXCEPT !.events = @ \o new]
    <3>2. [r EXCEPT !.page_id = s.page_id + limit] \in Searches
      BY <2>2, <3>1 DEF Searches
    <3> QED BY <3>2
  <2>4. s.pages + 1 \in 0..max_pages
    BY <1>1 DEF Searches
  <2>5. [s EXCEPT !.events = @ \o new, !.page_id = @ + limit, !.pages = @ + 1] \in Searches
    BY <1>1, <2>3, <2>4 DEF Searches
  <2>6. [s EXCEPT !.events = @ \o new, !.page_id = @ + limit, !.pages = @ + 1,
                  !.top = visible] \in Searches
    BY <1>1, <2>5 DEF Searches
  <2> QED BY <1>1, <2>6 DEF Searches, AfterPage, t
<1>13. t.page_id = limit * t.pages
  <2>1. s.page_id = limit * s.pages
    BY DEF SearchOK
  <2>2. limit * (s.pages + 1) = limit * s.pages + limit
    BY <1>1, <1>2
  <2> QED BY <1>3, <2>1, <2>2
<1>14. t.seen <= t.top
  BY <1>1, <1>2, <1>3 DEF SearchOK
<1>15. \A m \in DOMAIN t.events : t.events[m] <= t.top
  <2> TAKE m \in DOMAIN t.events
  <2>1. CASE m \in 1..Len(s.events) /\ t.events[m] = s.events[m]
    BY <1>1, <1>2, <1>3, <1>6, <1>11, <1>24, <2>1
  <2>2. CASE m - Len(s.events) \in 1..Len(new) /\ t.events[m] = new[m - Len(s.events)]
    BY <1>3, <1>4, <2>2
  <2> QED BY <1>7, <2>1, <2>2
<1>16. t.page_id # 0
  BY <1>1, <1>2, <1>3
<1>17. Once(t)
  <2> SUFFICES ASSUME NEW m \in DOMAIN t.events, NEW n \in DOMAIN t.events, m < n
               PROVE  t.events[m] # t.events[n]
    BY DEF Once
  <2>1. CASE n \in 1..Len(s.events) /\ t.events[n] = s.events[n]
    <3>1. m \in 1..Len(s.events)
      BY <1>5, <1>6, <2>1
    <3> QED BY <1>5, <1>6, <2>1, <3>1 DEF SearchOK, Once
  <2>2. CASE /\ n - Len(s.events) \in 1..Len(new) /\ n > Len(s.events)
             /\ t.events[n] = new[n - Len(s.events)]
    <3>1. CASE m \in 1..Len(s.events) /\ t.events[m] = s.events[m]
      BY <1>4, <1>11, <2>2, <3>1
    <3>2. CASE /\ m - Len(s.events) \in 1..Len(new)
               /\ t.events[m] = new[m - Len(s.events)]
      <4>1. m - Len(s.events) < n - Len(s.events)
        BY <1>5, <1>6
      <4>2. new[m - Len(s.events)] > new[n - Len(s.events)]
        BY <1>4, <2>2, <3>2, <4>1
      <4>3. new[m - Len(s.events)] \in Nat /\ new[n - Len(s.events)] \in Nat
        BY <1>4, <2>2, <3>2
      <4> QED BY <2>2, <3>2, <4>2, <4>3
    <3> QED BY <1>7, <3>1, <3>2
  <2> QED BY <1>7, <2>1, <2>2
<1>18. ASSUME ~t.overtaken
       PROVE  /\ ~s.overtaken /\ visible <= s.top + limit
              /\ \A n \in 1..Len(new) :
                   s.page_id > 0 => new[n] <= s.top - s.page_id
  <2>1. ~s.overtaken /\ visible <= s.top + limit
    <3>1. ~s.overtaken /\ ~(visible > s.top + limit)
      BY <1>18, <1>23
    <3> QED BY <1>1, <1>2, <3>1
  <2>2. ASSUME NEW n \in 1..Len(new), s.page_id > 0, new[n] > s.top - s.page_id
        PROVE  FALSE
    <3>1. new[n] \in 1..MaxEvents /\ new[n] <= s.top - s.page_id + limit
      <4>1. new[n] \in 1..visible /\ new[n] <= visible - s.page_id
        BY <1>4
      <4>2. /\ limit \in Nat /\ visible \in Nat /\ visible <= MaxEvents /\ MaxEvents \in Nat
            /\ s.page_id \in Nat /\ s.top \in Nat /\ visible <= s.top + limit
        BY <1>1, <1>2, <2>1
      <4> QED BY <4>1, <4>2
    <3>2. new[n] \in Collected(s)
      BY <1>1, <1>2, <2>1, <2>2, <3>1 DEF SearchOK, LastPageMet
    <3> QED BY <1>4, <3>2
  <2>3. \A n \in 1..Len(new) : new[n] \in Nat
    BY <1>4
  <2> QED BY <1>1, <1>2, <2>1, <2>2, <2>3
<1>19. Descending(t)
  <2> SUFFICES ASSUME ~t.overtaken,
                      NEW m \in DOMAIN t.events, NEW n \in DOMAIN t.events, m < n
               PROVE  t.events[m] > t.events[n]
    BY DEF Descending
  <2>1. CASE n \in 1..Len(s.events) /\ t.events[n] = s.events[n]
    <3>1. m \in 1..Len(s.events)
      BY <1>5, <1>6, <2>1
    <3> QED BY <1>5, <1>6, <1>18, <2>1, <3>1 DEF SearchOK, Descending
  <2>2. CASE /\ n - Len(s.events) \in 1..Len(new) /\ n > Len(s.events)
             /\ t.events[n] = new[n - Len(s.events)]
    <3>1. CASE m \in 1..Len(s.events) /\ t.events[m] = s.events[m]
      <4>1. s.events # <<>> /\ s.page_id # 0
        BY <1>6, <3>1 DEF SearchOK
      <4>2. s.page_id > 0
        BY <1>2, <4>1
      <4>3. new[n - Len(s.events)] <= s.top - s.page_id
        BY <1>18, <2>2, <4>2
      <4>4. s.events[m] > s.top - s.page_id
        BY <1>6, <1>18, <3>1 DEF SearchOK, Above
      <4>5. s.events[m] \in Nat /\ new[n - Len(s.events)] \in Nat
        BY <1>4, <1>11, <2>2, <3>1
      <4>6. \A i, j \in Nat : i > s.top - s.page_id /\ j <= s.top - s.page_id => i > j
        BY <1>2
      <4>7. s.events[m] > new[n - Len(s.events)]
        BY <4>3, <4>4, <4>5, <4>6
      <4> QED BY <2>2, <3>1, <4>7
    <3>2. CASE /\ m - Len(s.events) \in 1..Len(new)
               /\ t.events[m] = new[m - Len(s.events)]
      <4>1. m - Len(s.events) < n - Len(s.events)
        BY <1>5, <1>6
      <4> QED BY <1>4, <2>2, <3>2, <4>1
    <3> QED BY <1>7, <3>1, <3>2
  <2> QED BY <1>7, <2>1, <2>2
<1>20. Above(t)
  <2> SUFFICES ASSUME ~t.overtaken, NEW m \in DOMAIN t.events
               PROVE  t.events[m] > t.top - t.page_id
    BY DEF Above
  <2>1. CASE m \in 1..Len(s.events) /\ t.events[m] = s.events[m]
    <3>1. s.events[m] > s.top - s.page_id /\ s.events[m] \in Nat
      BY <1>6, <1>11, <1>18, <2>1 DEF SearchOK, Above
    <3>2. visible <= s.top + limit
      BY <1>18
    <3>3. visible - (s.page_id + limit) <= s.top - s.page_id
      BY <1>1, <1>2, <3>2
    <3>4. s.events[m] > visible - (s.page_id + limit)
      BY <1>1, <1>2, <3>1, <3>3
    <3> QED BY <1>3, <2>1, <3>4
  <2>2. CASE m - Len(s.events) \in 1..Len(new) /\ t.events[m] = new[m - Len(s.events)]
    <3> DEFINE e == new[m - Len(s.events)]
    <3>1. e \in 1..visible /\ end < e
      BY <1>4, <2>2
    <3>2. e > visible - (s.page_id + limit)
      BY <1>1, <1>2, <3>1 DEF end
    <3> QED BY <1>3, <2>2, <3>2
  <2> QED BY <1>7, <2>1, <2>2
<1>21. LastPageMet(t)
  <2> SUFFICES ASSUME NEW e \in 1..MaxEvents,
                      t.top - t.page_id < e, e <= t.top - t.page_id + limit
               PROVE  e \in Collected(t)
    BY DEF LastPageMet
  <2>1. limit \in Nat /\ visible \in Nat /\ s.page_id \in Nat /\ e \in Nat /\ e >= 1
    BY <1>1, <1>2
  <2>2. visible - (s.page_id + limit) < e /\ e <= visible - (s.page_id + limit) + limit
    BY <1>3
  <2>3. visible - s.page_id - limit < e /\ e <= visible - s.page_id /\ e \in 1..visible
    BY <2>1, <2>2
  <2> QED BY <1>10, <2>3 DEF end
<1>22. Reached(t)
  <2> SUFFICES ASSUME NEW e \in 1..s.seen, visible - e < s.page_id + limit
               PROVE  e \in Collected(t)
    BY <1>3 DEF Reached
  <2>1. e \in 1..visible
    BY <1>1, <1>2 DEF SearchOK
  <2>2. CASE visible - e < s.page_id
    <3>1. s.top - e < s.page_id
      BY <1>1, <1>2, <2>2
    <3> QED BY <1>8, <3>1 DEF SearchOK, Reached
  <2>3. CASE ~(visible - e < s.page_id)
    <3>1. end < e /\ e <= visible - s.page_id
      BY <1>1, <1>2, <2>1, <2>3 DEF end
    <3> QED BY <1>10, <2>1, <3>1
  <2> QED BY <2>2, <2>3
<1> QED
  BY <1>12, <1>13, <1>14, <1>15, <1>16, <1>17, <1>19, <1>20, <1>21, <1>22 DEF SearchOK, t

(* With its last page a search has met all that it could reach.            *)
LEMMA LastPageMeetsAll ==
  ASSUME NEW s, SearchOK(s), s.top <= visible, visible \in 0..MaxEvents,
         ConversationAssumption,
         s.page_id >= s.top \/ s.pages = max_pages
  PROVE  \A e \in MetSince(s.seen) : e \in Collected(s)
<1> SUFFICES ASSUME NEW e \in 1..s.seen, visible - e < limit * max_pages
             PROVE  e \in Collected(s)
  BY DEF MetSince
<1>1. /\ limit \in Nat /\ max_pages \in Nat /\ visible \in Nat
      /\ s.page_id \in Nat /\ s.top \in Nat /\ s.seen \in Nat /\ s.seen <= s.top
      /\ s.page_id = limit * s.pages
  BY DEF ConversationAssumption, SearchOK, Searches
<1>2. s.top - e < s.page_id
  <2>1. CASE s.page_id >= s.top
    BY <1>1, <2>1
  <2>2. CASE s.pages = max_pages
    <3>1. s.page_id = limit * max_pages
      BY <1>1, <2>2
    <3>2. s.page_id \in Nat /\ visible - e < s.page_id
      BY <1>1, <3>1
    <3> QED BY <1>1, <3>2
  <2> QED BY <2>1, <2>2
<1> QED BY <1>2 DEF SearchOK, Reached

(* Between an event that was collected and the end of the last page every   *)
(* event was collected, also if the search was overtaken: a page begins at *)
(* the end of the one before it or above.                                  *)
Gapless(s) ==
  \A m \in DOMAIN s.events : \A e \in 1..s.events[m] :
    s.top - s.page_id < e => e \in Collected(s)

LEMMA AfterPageGapless ==
  ASSUME NEW s, SearchOK(s), Gapless(s), s.top <= visible,
         visible \in 0..MaxEvents, ConversationAssumption,
         NEW new \in NewItems(s)
  PROVE  Gapless(AfterPage(s, new))
<1> DEFINE t == AfterPage(s, new)
           end == visible - s.page_id - limit
<1>1. /\ limit \in Nat \ {0} /\ MaxEvents \in Nat /\ visible \in Nat /\ s \in Searches
      /\ s.page_id \in Nat /\ s.top \in Nat /\ s.events \in Seq(1..MaxEvents)
  BY DEF ConversationAssumption, SearchOK, Searches
<1>2. /\ t.events = s.events \o new /\ t.page_id = s.page_id + limit /\ t.top = visible
  BY <1>1 DEF AfterPage
<1>3. /\ new \in Seq(1..MaxEvents)
      /\ \A n \in 1..Len(new) :
           new[n] \in 1..visible /\ new[n] <= visible - s.page_id
      /\ \A e \in 1..visible :
           end < e /\ e <= visible - s.page_id =>
             e \in Collected(s) \/ \E n \in 1..Len(new) : new[n] = e
  BY <1>1, NewItemsAre
<1>4. /\ Len(s.events) \in Nat /\ Len(new) \in Nat /\ DOMAIN s.events = 1..Len(s.events)
      /\ DOMAIN t.events = 1..(Len(s.events) + Len(new))
      /\ \A n \in 1..Len(s.events) : t.events[n] = s.events[n]
      /\ \A n \in 1..Len(new) : t.events[Len(s.events) + n] = new[n]
  BY <1>1, <1>2, <1>3
<1>5. \A e : e \in Collected(s) => e \in Collected(t)
  BY <1>4 DEF Collected
<1>6. \A n \in 1..Len(new) : new[n] \in Collected(t)
  <2> TAKE n \in 1..Len(new)
  <2>1. Len(s.events) + n \in DOMAIN t.events
    BY <1>4
  <2> QED BY <1>4, <2>1 DEF Collected
<1> SUFFICES ASSUME NEW m \in DOMAIN t.events, NEW e \in 1..t.events[m], end < e
             PROVE  e \in Collected(t)
  BY <1>1, <1>2 DEF Gapless
<1>7. ASSUME e \in 1..visible, e <= visible - s.page_id
      PROVE  e \in Collected(t)
  BY <1>3, <1>5, <1>6, <1>7
<1>8. CASE m \in 1..Len(s.events)
  <2>1. /\ t.events[m] = s.events[m] /\ s.events[m] <= s.top /\ s.events[m] \in Nat
    BY <1>1, <1>4, <1>8 DEF SearchOK
  <2>2. CASE s.top - s.page_id < e
    BY <1>4, <1>5, <1>8, <2>1, <2>2 DEF Gapless
  <2>3. CASE ~(s.top - s.page_id < e)
    <3>1. e \in 1..visible /\ e <= visible - s.page_id
      BY <1>1, <2>1, <2>3
    <3> QED BY <1>7, <3>1
  <2> QED BY <2>2, <2>3
<1>9. CASE m \notin 1..Len(s.events)
  <2>1. m - Len(s.events) \in 1..Len(new) /\ Len(s.events) + (m - Len(s.events)) = m
    BY <1>4, <1>9, Behind
  <2>2. t.events[m] = new[m - Len(s.events)]
    BY <1>4, <2>1
  <2>3. t.events[m] \in 1..visible /\ t.events[m] <= visible - s.page_id
    BY <1>3, <2>1, <2>2
  <2>4. e \in 1..visible /\ e <= visible - s.page_id
    BY <1>1, <2>3
  <2> QED BY <1>7, <2>4
<1> QED BY <1>8, <1>9

-------------------------------------------------------------------------------
(* The event that is taken: the first of the kind, if there is one.        *)
LEMMA FirstIs ==
  ASSUME NEW events \in Seq(1..MaxEvents), NEW kind
  PROVE  \/ /\ First(events, kind) = NoEvent
            /\ \A n \in DOMAIN events : log[events[n]].kind # kind
         \/ \E n \in DOMAIN events :
              /\ First(events, kind) = events[n] /\ log[events[n]].kind = kind
              /\ \A m \in DOMAIN events : log[events[m]].kind = kind => n <= m
<1> DEFINE hits == {n \in DOMAIN events : log[events[n]].kind = kind}
<1>1. hits \in SUBSET Nat
  BY SMT
<1>2. CASE hits = {}
  BY <1>2 DEF First
<1>3. CASE hits # {}
  <2> DEFINE least == CHOOSE n \in hits : \A m \in hits : n <= m
  <2>1. \E n \in hits : \A m \in hits : n <= m
    <3> HIDE DEF hits
    <3> QED BY <1>1, <1>3, Least
  <2>2. least \in hits /\ \A m \in hits : least <= m
    <3> HIDE DEF hits
    <3> QED BY <2>1
  <2>3. First(events, kind) = events[least]
    BY <1>3 DEF First
  <2> HIDE DEF least
  <2> QED BY <2>2, <2>3
<1> QED BY <1>2, <1>3

(* The event that collect_final_text_from_events takes: the newest finish  *)
(* action, or without one the newest message, or without one nothing.      *)
LEMMA Taken ==
  ASSUME NEW events \in Seq(1..MaxEvents), ConversationAssumption
  PROVE  LET e == collect_final_text_from_events(events)
             Are(kind) == {n \in DOMAIN events : log[events[n]].kind = kind}
         IN \/ \E n \in Are("finish") : e = events[n] /\ \A m \in Are("finish") : n <= m
            \/ /\ Are("finish") = {}
               /\ \E n \in Are("message") : e = events[n] /\ \A m \in Are("message") : n <= m
            \/ Are("finish") = {} /\ Are("message") = {} /\ e = NoEvent
<1>1. \A n \in DOMAIN events : events[n] # NoEvent
  BY DEF NoEvent, ConversationAssumption
<1>2. CASE First(events, "finish") = NoEvent
  <2>1. \A n \in DOMAIN events : log[events[n]].kind # "finish"
    BY <1>1, <1>2, FirstIs
  <2>2. collect_final_text_from_events(events) = First(events, "message")
    BY <1>2 DEF collect_final_text_from_events
  <2>3. \/ /\ First(events, "message") = NoEvent
           /\ \A n \in DOMAIN events : log[events[n]].kind # "message"
        \/ \E n \in DOMAIN events :
             /\ First(events, "message") = events[n] /\ log[events[n]].kind = "message"
             /\ \A m \in DOMAIN events : log[events[m]].kind = "message" => n <= m
    BY FirstIs
  <2> QED BY <2>1, <2>2, <2>3
<1>3. CASE First(events, "finish") # NoEvent
  <2>1. collect_final_text_from_events(events) = First(events, "finish")
    BY <1>3 DEF collect_final_text_from_events
  <2>2. \E n \in DOMAIN events :
          /\ First(events, "finish") = events[n] /\ log[events[n]].kind = "finish"
          /\ \A m \in DOMAIN events : log[events[m]].kind = "finish" => n <= m
    BY <1>3, FirstIs
  <2> QED BY <2>1, <2>2
<1> QED BY <1>2, <1>3

-------------------------------------------------------------------------------
(* The log: what the agent says has a text, and says it in a turn.         *)
LogOK ==
  /\ log \in Seq(Events) /\ Len(log) <= MaxEvents /\ visible \in 0..Len(log)
  /\ execution_status = "running" => turn \in 1..MaxTurns
  /\ \A e \in DOMAIN log : log[e].kind = "other" <=> log[e].text = NoText

(* The agent adds to the log and takes nothing back.                       *)
LEMMA AgentKeepsLog ==
  ASSUME LogOK, Agent, ConversationAssumption
  PROVE  /\ LogOK' /\ visible' >= visible /\ turn' = turn
         /\ Len(log') >= Len(log) /\ \A e \in 1..Len(log) : log'[e] = log[e]
<1>1. /\ Len(log) \in Nat /\ DOMAIN log = 1..Len(log) /\ visible \in Nat
      /\ visible <= Len(log) /\ MaxEvents \in Nat /\ NoText \notin {"answer", "done"}
  BY DEF LogOK, ConversationAssumption
<1>2. CASE Write
  <2>1. PICK w \in Words \cup {Silence} :
          log' = Append(log, [turn |-> turn, kind |-> w.kind, text |-> w.text])
    BY <1>2 DEF Write
  <2> DEFINE e == [turn |-> turn, kind |-> w.kind, text |-> w.text]
  <2>2. e \in Events /\ (e.kind = "other" <=> e.text = NoText)
    <3>1. turn \in 1..MaxTurns
      BY <1>2 DEF Write, LogOK
    <3>2. CASE w \in Words
      <4>1. w \in [kind : {"finish", "message"}, text : {"answer", "done"}]
        BY <3>2 DEF ConversationAssumption
      <4> QED BY <1>1, <3>1, <4>1 DEF Events
    <3>3. CASE w = Silence
      BY <3>1, <3>3 DEF Silence, Events
    <3> QED BY <3>2, <3>3
  <2>3. /\ log' \in Seq(Events) /\ Len(log') = Len(log) + 1 /\ DOMAIN log' = 1..(Len(log) + 1)
        /\ \A n \in 1..Len(log) : log'[n] = log[n]
        /\ log'[Len(log) + 1] = e
    BY <2>1, <2>2 DEF LogOK
  <2>4. Len(log') <= MaxEvents /\ visible' \in 0..Len(log') /\ visible' >= visible
    BY <1>1, <1>2, <2>3 DEF Write, LogOK
  <2>5. \A n \in DOMAIN log' : log'[n].kind = "other" <=> log'[n].text = NoText
    <3> HIDE DEF e
    <3> QED BY <1>1, <2>2, <2>3 DEF LogOK
  <2>6. turn' = turn /\ execution_status' = execution_status
    BY <1>2 DEF Write
  <2> QED BY <1>1, <2>3, <2>4, <2>5, <2>6 DEF LogOK
<1>3. CASE Flush
  BY <1>1, <1>3 DEF Flush, LogOK
<1>4. CASE EndTurn
  BY <1>1, <1>4 DEF EndTurn, LogOK
<1> QED BY <1>2, <1>3, <1>4 DEF Agent

-------------------------------------------------------------------------------
(* Looks of s steps each: with a look fewer, or as many looks and less of  *)
(* the present one, there is less to do.                                   *)
LEMMA Nearer ==
  ASSUME NEW s \in Nat, NEW k \in Nat, NEW m \in 0..(s - 1), NEW j \in Nat, NEW n \in 0..(s - 1),
         j < k \/ (j = k /\ n < m)
  PROVE  j * s + n \in 0..((k * s + m) - 1)
<1>1. j * s \in Nat /\ k * s \in Nat
  OBVIOUS
<1>2. CASE j = k /\ n < m
  BY <1>1, <1>2
<1>3. CASE j < k
  <2>1. PICK d \in Nat : k = j + d + 1
    <3>1. k - j - 1 \in Nat /\ k = j + (k - j - 1) + 1
      BY <1>3
    <3> QED BY <3>1
  <2>2. d * s \in Nat /\ k * s = j * s + d * s + s
    BY <2>1
  <2>3. ASSUME NEW x \in Nat, NEW y \in Nat, NEW z \in Nat, z = x + y + s
        PROVE  x + n \in 0..((z + m) - 1)
    BY <2>3
  <2> QED BY <1>1, <2>2, <2>3
<1> QED BY <1>2, <1>3
===============================================================================
